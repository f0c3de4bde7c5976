------------------------------ MODULE FragCache ------------------------------
(***************************************************************************)
(* The on-disk cache of code fragments (fragcache.cc): one sorted file per *)
(* fragment length with an in-memory buffer in front of it (FCFile), and a *)
(* hash table of digests (FCHash) that is asked first.                     *)
(*                                                                         *)
(* A piece of guest code is the number whose binary digits are its bytes,  *)
(* MaxLen + 1 of them; prefixes are then quotients, and memcmp on prefixes *)
(* of one length is the order of numbers.  SHA1 is taken to be injective.  *)
(***************************************************************************)
EXTENDS Integers, Sequences, SequencesExt

CONSTANTS
    MaxLen,              \* longest fragment
    Codes,               \* guest code passed to addFragment and findLength
    FLUSH_FCF_TRIGGER,   \* buffered fragments of one file before a flush
    FLUSH_FCH_TRIGGER,   \* pending digests before a flush
    MaxFrags,            \* bound: fragments of each length, duplicates included
    Junk                 \* values of a length field that is never written

Lens == 1 .. MaxLen
Prefix(g, len) == g \div 2^(MaxLen + 1 - len)
Digest(g, len) == <<len, Prefix(g, len)>>
Frags == {<<len, Prefix(g, len)>> : len \in Lens, g \in Codes}

ASSUME CacheAssumption ==
    /\ MaxLen \in Nat \ {0}
    /\ Codes \subseteq 0 .. (2^(MaxLen + 1) - 1) /\ Codes # {}
    /\ \A g \in Codes, len \in Lens : Prefix(g, len) \in Nat
    /\ FLUSH_FCF_TRIGGER \in Nat /\ FLUSH_FCH_TRIGGER \in Nat
    /\ MaxFrags \in [Lens -> Nat] /\ Junk \subseteq Nat

VARIABLES
    file,      \* disk: file[len], the fragments of that length in file order
    exists,    \* disk: lengths whose file has been created
    torn,      \* disk: lengths whose file ends in a partial fragment; 0: hashtab does
    hashtab,   \* disk: digest records
    up,        \* a process has the cache open
    loaded,    \* lengths in cachetab
    buffer,    \* buffer[len] of each FCFile
    pending,   \* FCHash::pending
    damaged    \* lengths whose flush or sort was once cut short by a crash

vars == <<file, exists, torn, hashtab, up, loaded, buffer, pending, damaged>>

FCHASH_NOTFOUND == -1
FCHASH_COLLISION == -2

Init ==
    /\ file = [len \in Lens |-> <<>>]
    /\ exists = {} /\ torn = {}
    /\ hashtab = {}
    /\ up = FALSE
    /\ loaded = {}
    /\ buffer = [len \in Lens |-> <<>>]
    /\ pending = <<>>
    /\ damaged = {}

-----------------------------------------------------------------------------
(* FCFile.                                                                 *)

\* bsearch over a file, which is right only when the file is sorted.
bsearch(f, x) ==
    LET look[r \in (0 .. Len(f)) \X (0 .. Len(f))] ==
            LET m == (r[1] + r[2]) \div 2
            IN  /\ r[1] < r[2]
                /\ \/ x = f[m + 1]
                   \/ x < f[m + 1] /\ look[<<r[1], m>>]
                   \/ x > f[m + 1] /\ look[<<m + 1, r[2]>>]
    IN  look[<<0, Len(f)>>]

containsFile(g, len) == bsearch(file[len], Prefix(g, len))
containsBuffer(g, len) == Prefix(g, len) \in ToSet(buffer[len])

\* Mutant: the buffer is not searched.
containsOnDisk(g, len) == containsFile(g, len)

contains(g, len) == containsFile(g, len) \/ containsBuffer(g, len)

\* Mutants: the file is not sorted again after an append; the buffer is cleared
\* before it is written.
appended(f, b) == f \o b
dropped(f, b) == f

\* FCFile::flush appends the buffer and sorts the file (qsort of libc).
\* place(f, i): how many fragments of f go before the i-th or are it.
place(f, i) == Cardinality({j \in DOMAIN f : f[j] < f[i] \/ (f[j] = f[i] /\ j <= i)})
sorted(f) == [k \in DOMAIN f |-> f[CHOOSE i \in DOMAIN f : place(f, i) = k]]
flushed(f, b) == IF b = <<>> THEN f ELSE sorted(f \o b)

-----------------------------------------------------------------------------
(* FCHash.                                                                 *)

\* findHashRec compares the length bytes too, and the key it is given has none:
\* whether a record with the digest is found depends on what follows the key.
FileRecs(md) == {r \in hashtab : r.md = md}
FileVals(md) == {IF r.len = 0 THEN FCHASH_COLLISION ELSE r.len : r \in FileRecs(md)}

findHashInPending(md) ==
    LET is == {i \in DOMAIN pending : pending[i].md = md}
    IN  IF is = {} THEN FCHASH_NOTFOUND
        ELSE pending[CHOOSE i \in is : \A j \in is : i <= j].len

\* The answers findHash may give that stop lookup, and whether it may go on.
Hits(md) == FileVals(md) \cup {x \in {findHashInPending(md)} : x > 0}
Misses(md) == findHashInPending(md) <= 0

\* FCHash::lookup: digests of 2 .. max_len + 1 bytes, the first hit counts.
lookup(g, max_len) ==
    LET at(i) == Digest(g, i + 1)
        n == IF max_len < MaxLen THEN max_len ELSE MaxLen
        reaches(i) == \A j \in 1 .. (i - 1) : Misses(at(j))
    IN  (UNION {Hits(at(i)) : i \in {k \in 1 .. n : reaches(k)}})
            \cup {x \in {FCHASH_NOTFOUND} : reaches(n + 1)}

\* The record add appends for the answer rc; its length field is not assigned.
NewRec(g, len, rc, junk) == [md |-> Digest(g, len), len |-> junk, second |-> rc]

\* Pending records with a positive answer mark a collision in the table.
Marks(p) == {p[i] : i \in {j \in DOMAIN p : p[j].second > 0}}
Writes(p) == {[md |-> p[i].md, len |-> p[i].len] : i \in {j \in DOMAIN p : p[j].second <= 0}}

\* The assertion of FCHash::flush holds: each mark's record was found.
MarksFound(p) ==
    /\ \A m \in Marks(p) : \E r \in FileRecs(m.md) : r.len # 0
    /\ \A i, j \in DOMAIN p :        \* a second mark finds length 0
          p[i].md = p[j].md /\ p[i].second > 0 /\ p[j].second > 0 => i = j

\* The table after FCHash::flush.
flushedTab(p) ==
    {IF \E m \in Marks(p) : m.md = r.md THEN [r EXCEPT !.len = 0] ELSE r : r \in hashtab}
        \cup Writes(p)

-----------------------------------------------------------------------------
(* The process.                                                            *)

\* The process is gone and its buffers with it.
Down ==
    /\ up' = FALSE
    /\ loaded' = {}
    /\ buffer' = [len \in Lens |-> <<>>]
    /\ pending' = <<>>

\* FragCache::create asserts that hashtab is a whole number of records.
Open ==
    /\ ~up
    /\ up' = (0 \notin torn)
    /\ UNCHANGED <<file, exists, torn, hashtab, loaded, buffer, pending, damaged>>

Buffered(g, len) == Append(buffer[len], Prefix(g, len))

\* FCFile::add, with the flush of a full buffer.
AddToFile(g, len) ==
    IF Len(Buffered(g, len)) > FLUSH_FCF_TRIGGER
    THEN /\ file' = [file EXCEPT ![len] = flushed(file[len], Buffered(g, len))]
         /\ buffer' = [buffer EXCEPT ![len] = <<>>]
    ELSE /\ buffer' = [buffer EXCEPT ![len] = Buffered(g, len)]
         /\ UNCHANGED file

\* FCHash::add: what pending may be after it, before a possible flush.
HashAdds(g, len) ==
    LET rcs == lookup(g, len)
    IN  {pending : x \in {rc \in rcs : rc \in {len, FCHASH_COLLISION}}} \cup
        {Append(pending, NewRec(g, len, rc, j)) :
            rc \in rcs \ {len, FCHASH_COLLISION}, j \in Junk}

\* getFCFile succeeds and the fragment is new: the rest of addFragment runs.
Adds(g, len) ==
    /\ up
    /\ len \notin torn
    /\ ~contains(g, len)
    /\ Len(file[len]) + Len(buffer[len]) < MaxFrags[len]

\* The hash table is flushed when p is long enough.
HashFlush(p) ==
    IF Len(p) > FLUSH_FCH_TRIGGER
    THEN /\ MarksFound(p)
         /\ hashtab' = flushedTab(p)
         /\ pending' = <<>>
    ELSE /\ pending' = p
         /\ UNCHANGED hashtab

addFragment(g, len) ==
    /\ Adds(g, len)
    /\ \E p \in HashAdds(g, len) : HashFlush(p)
    /\ AddToFile(g, len)
    /\ loaded' = loaded \cup {len}
    /\ exists' = exists \cup {len}
    /\ UNCHANGED <<up, torn, damaged>>

\* addFragment of a fragment that is known only loads the file.
AddKnown(g, len) ==
    /\ up
    /\ len \notin torn
    /\ contains(g, len)
    /\ loaded' = loaded \cup {len}
    /\ UNCHANGED <<file, exists, torn, hashtab, up, buffer, pending, damaged>>

\* The assertion in FCHash::flush fails inside addFragment; since a record that
\* is there may be missed, it can fail whenever there is a mark.
AddDies(g, len) ==
    /\ Adds(g, len)
    /\ \E p \in HashAdds(g, len) : Len(p) > FLUSH_FCH_TRIGGER /\ Marks(p) # {}
    /\ exists' = exists \cup {len}
    /\ Down
    /\ UNCHANGED <<file, torn, hashtab, damaged>>

\* mmapFd asserts that a file it opens is a whole number of fragments.
LoadDies ==
    /\ up
    /\ torn # {}
    /\ Down
    /\ UNCHANGED <<file, exists, torn, hashtab, damaged>>

\* cachetab.size(), or 1024 when it is empty.
TabSize == IF loaded = {} THEN 1024 ELSE 1 + (CHOOSE l \in loaded : \A k \in loaded : k <= l)

\* findLength changes state only when the hash table does not answer and no
\* file is loaded: loadDir then opens every file there is.
findLength(g) ==
    /\ up
    /\ \E rc \in lookup(g, TabSize) : rc <= 0
    /\ loaded = {} /\ torn = {}
    /\ loaded' = exists
    /\ UNCHANGED <<file, exists, torn, hashtab, up, buffer, pending, damaged>>

\* ~FragCache: every file is flushed, then the hash table, whose assertion may
\* fail when there is a mark.
Close ==
    /\ up
    /\ file' = [len \in Lens |-> flushed(file[len], buffer[len])]
    /\ \/ /\ MarksFound(pending)
          /\ hashtab' = flushedTab(pending)
       \/ /\ Marks(pending) # {}
          /\ UNCHANGED hashtab
    /\ Down
    /\ UNCHANGED <<exists, torn, damaged>>

\* vexllvm dies with the guest, between two calls.
Crash ==
    /\ up
    /\ Down
    /\ UNCHANGED <<file, exists, torn, hashtab, damaged>>

\* What a flush of b that is cut short may leave of file f: some whole fragments
\* appended, or all of them and a part of the sorted file written over them.
Cut(f, b) ==
    {f \o SubSeq(b, 1, k) : k \in 0 .. Len(b)} \cup
    {SubSeq(sorted(f \o b), 1, k) \o SubSeq(f \o b, k + 1, Len(f \o b)) :
        k \in 0 .. Len(f \o b)}

\* A crash or a failed write in the flush of b to the file of length len; other
\* is the fate of the other files.
CutFlush(len, b, other) ==
    /\ b # <<>>
    /\ \E x \in Cut(file[len], b) :
        /\ file' = [l \in Lens |-> IF l = len THEN x ELSE other[l]]
        /\ \/ UNCHANGED torn
           \/ /\ Len(x) < Len(file[len] \o b)
              /\ torn' = torn \cup {len}
    /\ damaged' = damaged \cup {len}

\* The flush in addFragment, after FCHash::add.
CrashInAdd(g, len) ==
    /\ Adds(g, len)
    /\ Len(Buffered(g, len)) > FLUSH_FCF_TRIGGER
    /\ CutFlush(len, Buffered(g, len), file)
    /\ \E p \in HashAdds(g, len) :
          IF Len(p) > FLUSH_FCH_TRIGGER
          THEN MarksFound(p) /\ hashtab' = flushedTab(p)
          ELSE UNCHANGED hashtab
    /\ exists' = exists \cup {len}
    /\ Down

\* The flush of one file in ~FragCache; shorter fragments come first.
CrashInClose(len) ==
    /\ up
    /\ CutFlush(len, buffer[len],
                [l \in Lens |-> IF l < len THEN flushed(file[l], buffer[l]) ELSE file[l]])
    /\ Down
    /\ UNCHANGED <<exists, hashtab>>

\* The flush of the hash table in ~FragCache: marks are set, some records are
\* written and possibly part of one.  Records need not be sorted: see FileRecs.
CrashInHash ==
    /\ up
    /\ pending # <<>>
    /\ file' = [len \in Lens |-> flushed(file[len], buffer[len])]
    /\ \E k \in 0 .. Len(pending) :
        /\ hashtab' = flushedTab(SubSeq(pending, 1, k))
        /\ torn' \in IF k < Len(pending) THEN {torn, torn \cup {0}} ELSE {torn}
    /\ Down
    /\ UNCHANGED <<exists, damaged>>

Next ==
    \/ Open
    \/ \E g \in Codes, len \in Lens :
          addFragment(g, len) \/ AddKnown(g, len) \/ AddDies(g, len) \/ CrashInAdd(g, len)
    \/ LoadDies
    \/ \E g \in Codes : findLength(g)
    \/ Close
    \/ Crash \/ CrashInHash
    \/ \E len \in Lens : CrashInClose(len)

Spec == Init /\ [][Next]_vars
-----------------------------------------------------------------------------
TypeOK ==
    /\ file \in [Lens -> Seq(Nat)] /\ buffer \in [Lens -> Seq(Nat)]
    /\ \A len \in Lens : Len(buffer[len]) <= FLUSH_FCF_TRIGGER
    /\ torn \subseteq Lens \cup {0} /\ exists \subseteq Lens
    /\ loaded \subseteq exists /\ damaged \subseteq exists
    /\ hashtab \subseteq [md : Lens \X Nat, len : Nat]
    /\ pending \in Seq([md : Lens \X Nat, len : Nat, second : Int])
    /\ Len(pending) <= FLUSH_FCH_TRIGGER
    /\ up \in BOOLEAN

\* Unless a crash cut a flush of that length short, the search of file and
\* buffer is exact, so that addFragment stores no fragment twice: the file is
\* sorted whenever it is searched and the buffer is searched too.
SearchExact ==
    \A len \in Lens \ damaged, g \in Codes :
        contains(g, len) = (Prefix(g, len) \in ToSet(file[len]) \cup ToSet(buffer[len]))

\* No fragment is twice in a file or in both file and buffer, unless a crash cut
\* a flush of that length short.
NoDuplicates ==
    \A len \in Lens \ damaged : IsInjective(file[len] \o buffer[len])

\* The cache implements the store it promises, crashes included.
OfSeqs(f) == UNION {{<<len, x>> : x \in ToSet(f[len])} : len \in Lens}
Store == INSTANCE FragStore WITH
            Fragments <- Frags,
            disk <- OfSeqs(file),
            memory <- OfSeqs(buffer) \ OfSeqs(file),
            open <- up
StoreSpec == Store!Spec
=============================================================================
