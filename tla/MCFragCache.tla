----------------------------- MODULE MCFragCache -----------------------------
(* An instance of FragCache: one fragment of one byte, so that the hash      *)
(* table meets prefixes, and four of two bytes, so that a file that a crash  *)
(* left unsorted can hide one of its fragments from the next process.        *)
EXTENDS FragCache

Room == <<1, 4>>
=============================================================================
