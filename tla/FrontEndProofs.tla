--------------------------- MODULE FrontEndProofs ----------------------------
(***************************************************************************)
(* Proofs about xlate(), for every guest code and every mix of failed      *)
(* reads, retries on patched bytes and blocks that are not answered; and   *)
(* about emission, for every sequence of statements and every expression   *)
(* the model forms: the function built is well formed, and does what the   *)
(* statements say.                                                         *)
(***************************************************************************)
EXTENDS FrontEnd, FiniteSetTheorems, SequenceTheorems, TLAPS

(***************************************************************************)
(* The operators.                                                          *)
(***************************************************************************)
LEMMA Least ==
    ASSUME NEW S \in SUBSET Nat, S # {}
    PROVE  First(S) \in S /\ \A j \in S : First(S) <= j
<1>1. PICK k \in S : \A j \in S : ~ (<<j, k>> \in OpToRel(<, Nat))
  BY WFMin, NatLessThanWellFounded, Zenon
<1>2. \A j \in S : k <= j
  <2> SUFFICES ASSUME NEW j \in S PROVE k <= j
    OBVIOUS
  <2>1. ~(j < k)
    BY <1>1 DEF OpToRel
  <2> QED BY <2>1
<1> QED BY <1>2 DEF First

\* Guest code that has an end has a first one.
LEMMA StopIs ==
    ASSUME NEW c \in Seq(Insns), HasStop(c)
    PROVE  /\ StopAt(c) \in DOMAIN c /\ c[StopAt(c)] \in Stops
           /\ \A j \in 1 .. StopAt(c) - 1 : c[j] \notin Stops
<1> DEFINE S == {i \in DOMAIN c : c[i] \in Stops}
<1>1. S \in SUBSET Nat /\ S # {}
  BY DEF HasStop
<1>2. PICK m \in S : \A j \in S : m <= j
  <2> HIDE DEF S
  <2> QED BY <1>1, Least
<1>3. \A j \in 1 .. m - 1 : c[j] \notin Stops
  <2> SUFFICES ASSUME NEW j \in 1 .. m - 1, c[j] \in Stops PROVE FALSE
    OBVIOUS
  <2>1. m \in 1 .. Len(c) /\ Len(c) \in Nat /\ DOMAIN c = 1 .. Len(c)
    BY <1>2
  <2>2. j \in DOMAIN c /\ ~(m <= j)
    BY <2>1
  <2> QED BY <1>2, <2>2
<1>4. \E i \in DOMAIN c : c[i] \in Stops /\ \A j \in 1 .. i - 1 : c[j] \notin Stops
  BY <1>2, <1>3
<1> QED BY <1>4 DEF StopAt

\* Two pieces of code that stop at the same places stop first at the same one.
LEMMA SameStop ==
    ASSUME NEW b \in Seq(Insns), NEW c \in Seq(Insns), DOMAIN b = DOMAIN c, HasStop(b),
           \A i \in DOMAIN c : b[i] \in Stops <=> c[i] \in Stops
    PROVE  HasStop(c) /\ StopAt(b) = StopAt(c)
<1>1. HasStop(c)
  BY DEF HasStop
<1> DEFINE m == StopAt(b)
           n == StopAt(c)
<1>2. /\ m \in DOMAIN b /\ b[m] \in Stops /\ \A j \in 1 .. m - 1 : b[j] \notin Stops
      /\ n \in DOMAIN c /\ c[n] \in Stops /\ \A j \in 1 .. n - 1 : c[j] \notin Stops
  BY <1>1, StopIs
<1> HIDE DEF m, n
<1>3. m \in Nat \ {0} /\ n \in Nat \ {0}
  BY <1>2
<1>4. ~(m < n)
  <2> SUFFICES ASSUME m < n PROVE FALSE
    OBVIOUS
  <2>1. m \in 1 .. n - 1
    BY <1>3
  <2> QED BY <1>2, <2>1
<1>5. ~(n < m)
  <2> SUFFICES ASSUME n < m PROVE FALSE
    OBVIOUS
  <2>1. n \in 1 .. m - 1
    BY <1>3
  <2> QED BY <1>2, <2>1
<1>6. m = n
  BY <1>3, <1>4, <1>5
<1> QED BY <1>1, <1>6 DEF m, n

\* Patching takes one place away and adds none.
LEMMA PatchedIs ==
    ASSUME NEW c \in Seq(Insns), Patchable(c) # {}
    PROVE  /\ patched(c) \in Seq(Insns) /\ DOMAIN patched(c) = DOMAIN c
           /\ First(Patchable(c)) \in Patchable(c)
           /\ \A i \in DOMAIN c : patched(c)[i] =
                IF i # First(Patchable(c)) THEN c[i]
                ELSE IF c[i] = "int2e" THEN "int80" ELSE "imm80"
<1>1. Patchable(c) \in SUBSET Nat
  BY DEF Patchable
<1>2. First(Patchable(c)) \in Patchable(c)
  BY <1>1, Least
<1> DEFINE f == First(Patchable(c))
<1>3. f \in DOMAIN c
  BY <1>2 DEF Patchable
<1>4. patched(c) = [c EXCEPT ![f] = IF c[f] = "int2e" THEN "int80" ELSE "imm80"]
  BY DEF patched
<1> HIDE DEF f
<1>5. patched(c) \in Seq(Insns)
  BY <1>3, <1>4 DEF Insns
<1> QED BY <1>2, <1>3, <1>4, <1>5 DEF f

LEMMA FewerPlaces ==
    ASSUME NEW c \in Seq(Insns), Patchable(c) # {}
    PROVE  Cardinality(Patchable(patched(c))) < Cardinality(Patchable(c))
<1> DEFINE f == First(Patchable(c))
<1>1. Patchable(patched(c)) = Patchable(c) \ {f} /\ f \in Patchable(c)
  <2> DEFINE p == patched(c)
  <2>1. /\ DOMAIN p = DOMAIN c /\ f \in Patchable(c)
        /\ \A i \in DOMAIN c : p[i] = IF i # f THEN c[i] ELSE IF c[i] = "int2e" THEN "int80" ELSE "imm80"
    BY PatchedIs
  <2> HIDE DEF f, p
  <2>2. Patchable(p) = Patchable(c) \ {f}
    <3>1. ASSUME NEW i \in DOMAIN c
          PROVE  i \in Patchable(p) <=> i \in Patchable(c) /\ i # f
      BY <2>1 DEF Patchable
    <3>2. Patchable(p) \subseteq DOMAIN c /\ Patchable(c) \subseteq DOMAIN c
      BY <2>1 DEF Patchable
    <3> QED BY <3>1, <3>2
  <2> QED BY <2>1, <2>2 DEF p
<1>2. IsFiniteSet(Patchable(c))
  <2>1. DOMAIN c = 1 .. Len(c) /\ Len(c) \in Nat
    OBVIOUS
  <2>2. IsFiniteSet(DOMAIN c)
    BY <2>1, FS_Interval
  <2>3. Patchable(c) \subseteq DOMAIN c
    BY DEF Patchable
  <2> QED BY <2>2, <2>3, FS_Subset
<1> HIDE DEF f
<1>3. /\ Cardinality(Patchable(c) \ {f}) = Cardinality(Patchable(c)) - 1
      /\ Cardinality(Patchable(c)) \in Nat
  BY <1>1, <1>2, FS_RemoveElement, FS_CardinalityType
<1> QED BY <1>1, <1>3

(***************************************************************************)
(* The call.                                                               *)
(***************************************************************************)
\* The bytes b are those the guest gave, patched in some places.
Rewrites(c, b) ==
    /\ DOMAIN b = DOMAIN c
    /\ ~HasBytesInOperand(c) =>
        \A i \in DOMAIN c : b[i] = c[i] \/ (c[i] = "int2e" /\ b[i] = "int80")

\* A block of patched bytes that decodes is the one the guest meant.
LEMMA SameBlock ==
    ASSUME NEW c \in Seq(Insns), NEW b \in Seq(Insns), Rewrites(c, b), ~HasBytesInOperand(c),
           HasStop(b), ~NoDecode(b)
    PROVE  Decoded(b) = Decoded(Intended(c))
<1> DEFINE d == Intended(c)
           n == StopAt(b)
<1>1. /\ d \in Seq(Insns) /\ DOMAIN d = DOMAIN c /\ DOMAIN b = DOMAIN c
      /\ \A i \in DOMAIN c : d[i] = IF c[i] = "int2e" THEN "int80" ELSE c[i]
  BY DEF Intended, Rewrites, Insns
<1>2. \A i \in DOMAIN c : b[i] = c[i] \/ (c[i] = "int2e" /\ b[i] = "int80")
  BY DEF Rewrites
<1> HIDE DEF d
<1>3. \A i \in DOMAIN d : b[i] \in Stops <=> d[i] \in Stops
  BY <1>1, <1>2 DEF Stops
<1>4. StopAt(d) = n
  BY <1>1, <1>3, SameStop
<1>5. n \in DOMAIN b /\ b[n] \in Stops /\ \A j \in 1 .. n - 1 : b[j] \notin Stops
  BY StopIs
<1>6. b[n] \notin {"int2e", "bad"}
  BY DEF NoDecode
<1> HIDE DEF n
<1>7. \A i \in 1 .. n : b[i] = d[i]
  <2> SUFFICES ASSUME NEW i \in 1 .. n PROVE b[i] = d[i]
    OBVIOUS
  <2>1. i \in DOMAIN c /\ (i = n \/ i \in 1 .. n - 1)
    <3>1. DOMAIN b = 1 .. Len(b) /\ Len(b) \in Nat
      OBVIOUS
    <3>2. ASSUME NEW l \in Nat, NEW q \in 1 .. l, NEW h \in 1 .. q
          PROVE  h \in 1 .. l /\ (h = q \/ h \in 1 .. q - 1)
      BY <3>2
    <3> QED BY <1>1, <1>5, <3>1, <3>2
  <2>2. b[i] # "int2e"
    BY <1>5, <1>6, <2>1 DEF Stops
  <2> QED BY <1>1, <1>2, <2>1, <2>2
<1>8. SubSeq(b, 1, n) = SubSeq(d, 1, n)
  <2>1. n \in 1 .. Len(b) /\ n \in 1 .. Len(d)
    BY <1>1, <1>5
  <2> QED BY <1>1, <1>7, <2>1
<1> QED BY <1>4, <1>8 DEF Decoded, d, n
Answers == [how : {"null", "freed", "block"}, code : Seq(Insns)]
CallType ==
    [pc : {"idle", "translate", "tidied", "return"}, guest : Seq(Insns), bytes : Seq(Insns),
     ret : Answers, calls : Nat]

\* an answer that translates the guest's code
Translates(r, c) ==
    /\ r.how = "block" /\ \A i \in DOMAIN r.code : r.code[i] # "unk"
    /\ ~HasBytesInOperand(c) => r.code = Decoded(Intended(c))

\* During a call the bytes are the guest's, patched; after the callback the
\* global holds the block of these bytes or nothing, whatever it held before.
XlInv ==
    /\ xl \in CallType /\ cb_vexsb \in Answers
    /\ xl.pc \in {"translate", "tidied"} => Rewrites(xl.guest, xl.bytes) /\ HasStop(xl.bytes)
    /\ xl.pc = "tidied" =>
        cb_vexsb = IF NoDecode(xl.bytes) THEN NULL ELSE Block(Decoded(xl.bytes))
    /\ xl.pc = "return" /\ xl.ret # NULL => Translates(xl.ret, xl.guest)

LEMMA BlockType ==
    ASSUME NEW c \in Seq(Insns), HasStop(c)
    PROVE  Block(Decoded(c)) \in Answers /\ NULL \in Answers /\ Freed \in Answers
<1>1. StopAt(c) \in DOMAIN c
  BY StopIs
<1>2. Decoded(c) \in Seq(Insns)
  BY <1>1 DEF Decoded
<1>3. <<>> \in Seq(Insns)
  OBVIOUS
<1> QED BY <1>2, <1>3 DEF Block, NULL, Freed, Answers

\* The two constant answers.
LEMMA NoAnswers == NULL \in Answers /\ Freed \in Answers /\ <<>> \in Seq(Insns)
<1>1. <<>> \in Seq(Insns)
  OBVIOUS
<1> QED BY <1>1 DEF NULL, Freed, Answers

LEMMA PatchRewrites ==
    ASSUME NEW c \in Seq(Insns), NEW b \in Seq(Insns), Rewrites(c, b), HasStop(b), Patchable(b) # {}
    PROVE  patched(b) \in Seq(Insns) /\ Rewrites(c, patched(b)) /\ HasStop(patched(b))
<1> DEFINE p == patched(b)
           f == First(Patchable(b))
<1>1. /\ p \in Seq(Insns) /\ DOMAIN p = DOMAIN b /\ f \in DOMAIN b /\ b[f] \in {"int2e", "imm2e"}
      /\ \A i \in DOMAIN b : p[i] = IF i # f THEN b[i] ELSE IF b[i] = "int2e" THEN "int80" ELSE "imm80"
  BY PatchedIs DEF Patchable
<1> HIDE DEF p, f
<1>2. Rewrites(c, p)
  <2>1. DOMAIN p = DOMAIN c
    BY <1>1 DEF Rewrites
  <2>2. ASSUME ~HasBytesInOperand(c), NEW i \in DOMAIN c
        PROVE  p[i] = c[i] \/ (c[i] = "int2e" /\ p[i] = "int80")
    <3>1. b[i] = c[i] \/ (c[i] = "int2e" /\ b[i] = "int80")
      BY <2>2 DEF Rewrites
    <3>2. c[i] # "imm2e"
      BY <2>2 DEF HasBytesInOperand
    <3> QED BY <1>1, <2>1, <3>1, <3>2
  <2> QED BY <2>1, <2>2 DEF Rewrites
<1>3. HasStop(p)
  <2>1. PICK i \in DOMAIN b : b[i] \in Stops
    BY DEF HasStop
  <2>2. p[i] \in Stops
    BY <1>1, <2>1 DEF Stops
  <2> QED BY <1>1, <2>1, <2>2 DEF HasStop
<1> QED BY <1>1, <1>2, <1>3 DEF p

LEMMA XlKept ==
    ASSUME XlInv, [Next]_vars
    PROVE  XlInv'
<1>0. /\ xl \in CallType /\ cb_vexsb \in Answers
      /\ NULL \in Answers /\ Freed \in Answers /\ <<>> \in Seq(Insns)
  BY NoAnswers DEF XlInv
<1>1. CASE UNCHANGED xlVars
  BY <1>1 DEF xlVars, XlInv
<1>2. ASSUME NEW c \in Codes, xlate(c) PROVE XlInv'
  <2>1. c \in Seq(Insns) /\ HasStop(c) /\ Rewrites(c, c)
    BY <1>2, XlateAssumption DEF Rewrites
  <2>2. xl' \in CallType
    BY <1>0, <1>2, <2>1 DEF xlate, CallType
  <2>3. xl'.pc = "translate" /\ xl'.guest = c /\ xl'.bytes = c /\ cb_vexsb' = cb_vexsb
    BY <1>2 DEF xlate
  <2> QED BY <1>0, <2>1, <2>2, <2>3 DEF XlInv
<1>3. CASE AccessFail
  <2>1. xl' \in CallType /\ xl'.pc = "return" /\ xl'.ret = NULL /\ cb_vexsb' = cb_vexsb
    BY <1>0, <1>3 DEF AccessFail, CallType
  <2> QED BY <1>0, <2>1 DEF XlInv
<1>4. CASE vex_finaltidy
  <2>1. /\ xl.pc = "translate" /\ xl.bytes \in Seq(Insns)
        /\ Rewrites(xl.guest, xl.bytes) /\ HasStop(xl.bytes)
    BY <1>0, <1>4 DEF vex_finaltidy, XlInv, CallType
  <2>2. /\ xl' \in CallType /\ xl'.pc = "tidied" /\ xl'.guest = xl.guest /\ xl'.bytes = xl.bytes
        /\ cb_vexsb' = IF NoDecode(xl.bytes) THEN NULL ELSE Block(Decoded(xl.bytes))
    BY <1>0, <1>4 DEF vex_finaltidy, CallType
  <2>3. cb_vexsb' \in Answers
    BY <2>1, <2>2, BlockType
  <2> QED BY <2>1, <2>2, <2>3 DEF XlInv
<1>5. CASE patchBadDecode
  <2>1. CASE IsX86 /\ Patchable(xl.bytes) # {}
    <3>1. /\ xl.bytes \in Seq(Insns) /\ xl.guest \in Seq(Insns)
          /\ Rewrites(xl.guest, xl.bytes) /\ HasStop(xl.bytes)
      BY <1>0, <1>5 DEF patchBadDecode, XlInv, CallType
    <3>2. /\ patched(xl.bytes) \in Seq(Insns) /\ Rewrites(xl.guest, patched(xl.bytes))
          /\ HasStop(patched(xl.bytes))
      BY <2>1, <3>1, PatchRewrites
    <3>3. /\ xl'.pc = "translate" /\ xl'.guest = xl.guest /\ xl'.bytes = patched(xl.bytes)
          /\ xl' \in CallType /\ cb_vexsb' = cb_vexsb
      BY <1>0, <1>5, <2>1, <3>2 DEF patchBadDecode, CallType
    <3> QED BY <1>0, <3>2, <3>3 DEF XlInv
  <2>2. CASE ~(IsX86 /\ Patchable(xl.bytes) # {})
    <3>1. xl' \in CallType /\ xl'.pc = "return" /\ xl'.ret = NULL /\ cb_vexsb' = cb_vexsb
      BY <1>0, <1>5, <2>2 DEF patchBadDecode, CallType
    <3> QED BY <1>0, <3>1 DEF XlInv
  <2> QED BY <2>1, <2>2
<1>6. CASE RecordAndReturn
  <2> DEFINE unhandled == \E i \in DOMAIN cb_vexsb.code : cb_vexsb.code[i] = "unk"
  <2>1. /\ xl.bytes \in Seq(Insns) /\ xl.guest \in Seq(Insns)
        /\ Rewrites(xl.guest, xl.bytes) /\ HasStop(xl.bytes)
        /\ ~NoDecode(xl.bytes) /\ cb_vexsb = Block(Decoded(xl.bytes))
    BY <1>0, <1>6 DEF RecordAndReturn, XlInv, CallType
  <2>2. /\ xl'.pc = "return" /\ xl'.ret = (IF unhandled THEN NULL ELSE cb_vexsb)
        /\ xl'.guest = xl.guest /\ xl' \in CallType
        /\ cb_vexsb' = IF unhandled THEN Freed ELSE cb_vexsb
    BY <1>0, <1>6 DEF RecordAndReturn, CallType
  <2>3. ASSUME ~unhandled PROVE Translates(cb_vexsb, xl.guest)
    <3>1. cb_vexsb.how = "block" /\ cb_vexsb.code = Decoded(xl.bytes)
      BY <2>1 DEF Block
    <3> QED BY <2>1, <2>3, <3>1, SameBlock DEF Translates
  <2> HIDE DEF unhandled
  <2> QED BY <1>0, <2>2, <2>3 DEF XlInv
<1>7. CASE GiveUp
  <2>1. xl' \in CallType /\ xl'.pc = "idle" /\ cb_vexsb' = cb_vexsb
    BY <1>0, <1>7 DEF GiveUp, CallType
  <2> QED BY <1>0, <2>1 DEF XlInv
<1>8. CASE Deliver
  <2>1. xl' \in CallType /\ xl'.pc = "idle" /\ cb_vexsb' = Freed
    BY <1>0, <1>8 DEF Deliver, CallType
  <2> QED BY <1>0, <2>1 DEF XlInv
<1> QED BY <1>1, <1>2, <1>3, <1>4, <1>5, <1>6, <1>7, <1>8 DEF Next, Translate, vars

\* xlate() answers with a translation of the bytes of this very call, patched
\* only where the guest makes a system call, or with nothing; and it does not
\* retry for ever.
THEOREM TranslationsAreSound == Spec => TranslationSound
<1>1. Init => XlInv
  <2> SUFFICES ASSUME Init PROVE XlInv
    OBVIOUS
  <2>1. /\ xl = [pc |-> "idle", guest |-> <<>>, bytes |-> <<>>, ret |-> NULL, calls |-> 0]
        /\ cb_vexsb = NULL
    BY DEF Init, XlateInit
  <2> QED BY <2>1, NoAnswers DEF XlInv, CallType
<1>2. XlInv /\ [Next]_vars => XlInv'
  BY XlKept
<1> DEFINE Sound ==
       /\ xl'.pc = "return" /\ xl'.ret # NULL =>
            /\ xl'.ret.how = "block"
            /\ \A i \in DOMAIN xl'.ret.code : xl'.ret.code[i] # "unk"
            /\ ~HasBytesInOperand(xl.guest) => xl'.ret.code = Decoded(Intended(xl.guest))
       /\ xl.pc = "tidied" /\ xl'.pc = "translate" =>
            Cardinality(Patchable(xl'.bytes)) < Cardinality(Patchable(xl.bytes))
<1>3. ASSUME XlInv, XlInv', [Next]_vars PROVE [Sound]_vars
  <2> SUFFICES ASSUME Next PROVE Sound
    BY <1>3
  <2>1. xl \in CallType
    BY <1>3 DEF XlInv
  <2>2. ASSUME xl'.pc = "return" PROVE xl'.guest = xl.guest
    <3> USE DEF CallType
    <3>1. CASE AccessFail
      BY <2>1, <3>1 DEF AccessFail
    <3>2. CASE patchBadDecode
      BY <2>1, <3>2 DEF patchBadDecode
    <3>3. CASE RecordAndReturn
      BY <2>1, <3>3 DEF RecordAndReturn
    <3>4. CASE UNCHANGED xlVars
      BY <3>4 DEF xlVars
    <3>5. CASE vex_finaltidy
      BY <2>1, <2>2, <3>5 DEF vex_finaltidy
    <3>6. ASSUME NEW c \in Codes, xlate(c) PROVE FALSE
      BY <2>2, <3>6 DEF xlate
    <3>7. CASE GiveUp
      BY <2>1, <2>2, <3>7 DEF GiveUp
    <3>8. CASE Deliver
      <4>1. xl'.pc = "idle"
        BY <3>8 DEF Deliver
      <4> QED BY <2>2, <4>1
    <3> QED BY <3>1, <3>2, <3>3, <3>4, <3>5, <3>6, <3>7, <3>8 DEF Next, Translate
  <2>3. ASSUME xl.pc = "tidied", xl'.pc = "translate"
        PROVE  Patchable(xl.bytes) # {} /\ xl'.bytes = patched(xl.bytes)
    <3>1. patchBadDecode
      BY <2>1, <2>3 DEF CallType, Next, Translate, xlate, AccessFail, vex_finaltidy,
                        RecordAndReturn, GiveUp, Deliver, xlVars
    <3> QED BY <2>1, <2>3, <3>1 DEF patchBadDecode, CallType
  <2>4. xl.bytes \in Seq(Insns)
    BY <2>1 DEF CallType
  <2> QED BY <1>3, <2>2, <2>3, <2>4, FewerPlaces DEF XlInv, Translates
<1> QED BY <1>1, <1>2, <1>3, PTL DEF Spec, TranslationSound

(***************************************************************************)
(* Blocks.                                                                 *)
(***************************************************************************)
Labels ==
    {"mux0X_nonzero", "mux0X_zero", "mux0X_merge", "linked", "unlinked", "storeg_then",
     "storeg_merge", "loadg_then", "loadg_merge", "cas_match_expect", "cas_merge",
     "dirty_then", "dirty_merge", "exit_then", "exit_else"}
Names == Nat \cup Labels

LEMMA PrefixIs ==
    ASSUME NEW s \in Seq(Names), NEW t \in Seq(Names)
    PROVE  IsPrefix(s, t) <=> Len(s) <= Len(t) /\ \A i \in 1 .. Len(s) : s[i] = t[i]
<1>1. CASE Len(s) <= Len(t)
  <2>1. /\ SubSeq(s, 1, Len(s)) = [i \in 1 .. Len(s) |-> s[i]]
        /\ SubSeq(t, 1, Len(s)) = [i \in 1 .. Len(s) |-> t[i]]
    BY <1>1
  <2> QED BY <1>1, <2>1 DEF IsPrefix
<1>2. CASE ~(Len(s) <= Len(t))
  BY <1>2 DEF IsPrefix
<1> QED BY <1>1, <1>2

\* A block dominates itself and the blocks opened from it; of two blocks on the
\* way to a third the shorter dominates the longer.
LEMMA PrefixSelf == \A s \in Seq(Names) : IsPrefix(s, s)
  BY PrefixIs
LEMMA PrefixNone == \A s \in Seq(Names) : IsPrefix(<<>>, s)
<1> SUFFICES ASSUME NEW s \in Seq(Names) PROVE IsPrefix(<<>>, s)
  OBVIOUS
<1> DEFINE z == <<>>
<1>1. z \in Seq(Names) /\ Len(z) = 0
  OBVIOUS
<1> HIDE DEF z
<1>2. Len(z) <= Len(s) /\ \A i \in 1 .. Len(z) : z[i] = s[i]
  BY <1>1
<1>3. IsPrefix(z, s)
  BY <1>1, <1>2, PrefixIs
<1> QED BY <1>3 DEF z
LEMMA PrefixLonger ==
    ASSUME NEW s \in Seq(Names), NEW t \in Seq(Names), IsPrefix(s, t), NEW u \in Seq(Names),
           Len(t) <= Len(u), \A i \in 1 .. Len(t) : u[i] = t[i]
    PROVE  IsPrefix(s, u)
  BY PrefixIs
LEMMA PrefixAppend ==
    ASSUME NEW s \in Seq(Names), NEW t \in Seq(Names), NEW n \in Names, IsPrefix(s, t)
    PROVE  IsPrefix(s, Append(t, n))
<1>1. Append(t, n) \in Seq(Names) /\ Len(t) <= Len(Append(t, n))
      /\ \A i \in 1 .. Len(t) : Append(t, n)[i] = t[i]
  OBVIOUS
<1> QED BY <1>1, PrefixLonger, Zenon
LEMMA PrefixTrans ==
    \A s, t, u \in Seq(Names) : IsPrefix(s, t) /\ IsPrefix(t, u) => IsPrefix(s, u)
  BY PrefixIs
LEMMA PrefixShorter ==
    \A s, t, u \in Seq(Names) :
        IsPrefix(s, u) /\ IsPrefix(t, u) /\ Len(s) <= Len(t) => IsPrefix(s, t)
  BY PrefixIs
LEMMA PrefixLen == \A s, t \in Seq(Names) : IsPrefix(s, t) => Len(s) <= Len(t)
  BY PrefixIs

\* Neither of two blocks a branch opens dominates the other.
LEMMA Siblings ==
    ASSUME NEW s \in Seq(Names), NEW m \in Names, NEW n \in Names, m # n
    PROVE  ~IsPrefix(Append(s, m), Append(s, n))
<1>1. /\ Append(s, m) \in Seq(Names) /\ Len(Append(s, m)) = Len(s) + 1
      /\ Append(s, m)[Len(s) + 1] = m /\ Append(s, n)[Len(s) + 1] = n
      /\ Append(s, n) \in Seq(Names)
  OBVIOUS
<1>2. Len(s) + 1 \in 1 .. Len(Append(s, m))
  BY <1>1
<1> QED BY <1>1, <1>2, PrefixIs

\* Whatever its elements are.
IsSeq(s) == s \in Seq({s[i] : i \in DOMAIN s})
LEMMA OwnElements == ASSUME NEW B, NEW t \in Seq(B) PROVE IsSeq(t)
  BY DEF IsSeq
Extended(s, v) == Append(s, v)
LEMMA ExtendedIs ==
    ASSUME NEW s, IsSeq(s), NEW v
    PROVE  /\ IsSeq(Extended(s, v)) /\ Len(Extended(s, v)) = Len(s) + 1 /\ Extended(s, v)[Len(s) + 1] = v
           /\ \A i \in 1 .. Len(s) : Extended(s, v)[i] = s[i]
           /\ DOMAIN Extended(s, v) = 1 .. Len(s) + 1 /\ DOMAIN s = 1 .. Len(s) /\ Len(s) \in Nat
<1> DEFINE A == {s[i] : i \in DOMAIN s}
           B == A \cup {v}
           t == Append(s, v)
<1>1. s \in Seq(B)
  <2>1. s \in Seq(A) BY DEF IsSeq
  <2> HIDE DEF A
  <2> QED BY <2>1
<1> HIDE DEF A
<1>2. /\ t \in Seq(B) /\ Len(t) = Len(s) + 1 /\ t[Len(s) + 1] = v
      /\ \A i \in 1 .. Len(s) : t[i] = s[i]
      /\ DOMAIN t = 1 .. Len(s) + 1 /\ DOMAIN s = 1 .. Len(s) /\ Len(s) \in Nat
  BY <1>1
<1> HIDE DEF t
<1>3. IsSeq(t)
  BY <1>2, OwnElements, Zenon
<1> QED BY <1>2, <1>3 DEF t, Extended

LEMMA NotBelow == \A n \in Nat : ~(n + 1 <= n)
  OBVIOUS

(***************************************************************************)
(* What the emitter holds between two statements and within one.           *)
(***************************************************************************)
\* The LLVM types a value of each guest type may have.
Carrier == [I1 |-> {"i1"}, I8 |-> {"i8"}, I16 |-> {"i16", "v2x8"}, V |-> {"v4x8", "v2x16"}]
Types == {"I1", "I8", "I16", "V"}
Fields(v) == v \in [ty : {v.ty}, b : {v.b}, def : Seq(Names), const : {v.const}]
Carries(v, ty) == Fields(v) /\ v.ty \in Carrier[ty]

\* A value dominates the insert block or was made in the branch of a guarded
\* dirty call, of which the insert block is no part.
Placed(v, e) ==
    \/ Dominates(v.def, e)
    \/ v.def # <<>> /\ Last(v.def) = "dirty_then" /\ Len(v.def) <= Len(e.blk)

\* A cached pointer points where its key says, and was made in the entry block
\* if that is where it is given out.
Cached(e) ==
    \A k \in DOMAIN e.gep :
        /\ e.gep[k].at = (k[1] \div k[2]) * k[2]
        /\ Len(e.blk) = 1 => e.gep[k].def = e.blk

\* An emission state in the middle of a statement.
InState(e) ==
    /\ e \in [blk : Seq(Names), vals : {em.vals}, gep : {e.gep}, cast : {e.cast}, bad : KnownIllFormed]
    /\ Len(e.blk) > 0 /\ IsPrefix(em.blk, e.blk) /\ Cached(e)

Temps ==
    /\ IsSeq(em.vals) /\ IsSeq(g.tmp) /\ Len(em.vals) = Len(g.tmp)
    /\ \A t \in DOMAIN g.tmp : Carries(em.vals[t], g.tmp[t].ty) /\ Placed(em.vals[t], em)

\* f is e but for what was cached and what may have gone wrong.
Still(e, f) == InState(f) /\ f.blk = e.blk /\ (f.bad = "" => e.bad = "")

LEMMA FailIs ==
    ASSUME NEW e, InState(e), NEW why \in KnownIllFormed \ {""}
    PROVE  Still(e, Fail(e, why)) /\ Fail(e, why).bad # ""
<1> DEFINE f == Fail(e, why)
<1>1. /\ f \in [blk : Seq(Names), vals : {em.vals}, gep : {f.gep}, cast : {f.cast}, bad : KnownIllFormed]
      /\ f.blk = e.blk /\ f.gep = e.gep /\ f.bad # ""
  BY DEF InState, Fail
<1> HIDE DEF f
<1>2. Cached(f)
  BY <1>1 DEF Cached, InState
<1>3. InState(f)
  BY <1>1, <1>2 DEF InState
<1> QED BY <1>1, <1>3 DEF Still, f

LEMMA StillSelf == ASSUME NEW e, InState(e) PROVE Still(e, e)
  BY DEF Still

LEMMA IntegerIs ==
    ASSUME NEW e, InState(e), NEW v
    PROVE  /\ Still(e, Integer(e, v))
           /\ Integer(e, v).bad = "" => ~IsVector(v.ty)
<1>1. CASE IsVector(v.ty)
  <2>1. "vector operand" \in KnownIllFormed \ {""}
    BY DEF KnownIllFormed
  <2>2. Integer(e, v) = Fail(e, "vector operand")
    BY <1>1 DEF Integer, Check
  <2> QED BY <2>1, <2>2, FailIs
<1>2. CASE ~IsVector(v.ty)
  BY <1>2, StillSelf DEF Integer, Check
<1> QED BY <1>1, <1>2

LEMMA ConstantIs ==
    ASSUME NEW ty, NEW b
    PROVE  /\ Fields(Constant(ty, b)) /\ Constant(ty, b).ty = ty /\ Constant(ty, b).b = b
           /\ Constant(ty, b).def = <<>> /\ Constant(ty, b).const = TRUE
<1>1. <<>> \in Seq(Names)
  OBVIOUS
<1> QED BY <1>1 DEF Constant, Fields

\* A constant is a value of its type.
LEMMA ConstShape ==
    ASSUME NEW ty \in Types, NEW x \in Consts(ty)
    PROVE  x.k = "Const" /\ x.ty = ty
<1>1. CASE ty = "I1" BY <1>1 DEF Consts
<1>2. CASE ty = "I8" BY <1>2 DEF Consts
<1>3. CASE ty = "I16"
  <2>1. Consts(ty) = {[k |-> "Const", ty |-> ty, b |-> <<n, 0>>] : n \in {0, 2}}
    BY <1>3 DEF Consts
  <2>2. PICK n \in {0, 2} : x = [k |-> "Const", ty |-> ty, b |-> <<n, 0>>]
    BY <2>1
  <2> QED BY <2>2
<1>4. CASE ty = "V" BY <1>4 DEF Consts
<1> QED BY <1>1, <1>2, <1>3, <1>4 DEF Types

LEMMA ConstIs ==
    ASSUME NEW e, NEW ty \in Types, NEW x \in Consts(ty)
    PROVE  /\ EmitConst(e, x).e = e /\ Carries(EmitConst(e, x).v, ty)
           /\ EmitConst(e, x).v.def = <<>> /\ x.k = "Const"
<1>1. x.k = "Const" /\ x.ty = ty
  BY ConstShape
<1>2. CASE ty = "V"
  <2>1. PICK b : EmitConst(e, x) = [e |-> e, v |-> Constant("v4x8", b)]
    BY <1>1, <1>2 DEF EmitConst, ConstV128
  <2>2. EmitConst(e, x).e = e /\ EmitConst(e, x).v = Constant("v4x8", b)
    BY <2>1
  <2>3. Carries(Constant("v4x8", b), ty)
    BY <1>2, ConstantIs DEF Carries, Carrier
  <2>4. Constant("v4x8", b).def = <<>>
    BY DEF Constant
  <2> QED BY <1>1, <2>2, <2>3, <2>4, Zenon
<1>3. CASE ty # "V"
  <2>1. EmitConst(e, x) = [e |-> e, v |-> Constant(LLVMType[ty], x.b)]
    BY <1>1, <1>3 DEF EmitConst
  <2>2. LLVMType[ty] \in Carrier[ty]
    BY <1>3 DEF LLVMType, Carrier, Types
  <2>3. EmitConst(e, x).e = e /\ EmitConst(e, x).v = Constant(LLVMType[ty], x.b)
    BY <2>1
  <2>4. Carries(Constant(LLVMType[ty], x.b), ty)
    BY <2>2, ConstantIs DEF Carries
  <2>5. Constant(LLVMType[ty], x.b).def = <<>>
    BY DEF Constant
  <2> QED BY <1>1, <2>3, <2>4, <2>5, Zenon
<1> QED BY <1>2, <1>3

\* What dominates the insert block of a statement's start dominates what
\* the statement opens.
LEMMA StillPlaced ==
    ASSUME NEW e, InState(e), NEW v, v.def \in Seq(Names), Placed(v, em), em.blk \in Seq(Names)
    PROVE  Placed(v, e)
<1>1. e.blk \in Seq(Names) /\ IsPrefix(em.blk, e.blk)
  BY DEF InState
<1>2. CASE Dominates(v.def, em)
  BY <1>1, <1>2, PrefixTrans DEF Dominates, Placed
<1>3. CASE v.def # <<>> /\ Last(v.def) = "dirty_then" /\ Len(v.def) <= Len(em.blk)
  <2>1. Len(em.blk) <= Len(e.blk)
    BY <1>1, PrefixLen
  <2>2. Len(v.def) \in Nat /\ Len(em.blk) \in Nat /\ Len(e.blk) \in Nat
    BY <1>1
  <2>3. Len(v.def) <= Len(e.blk)
    BY <1>3, <2>1, <2>2
  <2> QED BY <1>3, <2>3 DEF Placed
<1> QED BY <1>2, <1>3 DEF Placed

LEMMA TmpIs ==
    ASSUME em.blk \in Seq(Names), Temps, NEW e, InState(e), NEW t \in DOMAIN g.tmp
    PROVE  /\ Still(e, RdTmp(e, t).e) /\ RdTmp(e, t).v = em.vals[t]
           /\ RdTmp(e, t).e.bad = "" => Dominates(em.vals[t].def, e)
<1> DEFINE v == em.vals[t]
<1>1. v.def \in Seq(Names) /\ Placed(v, em)
  BY DEF Temps, Carries, Fields
<1>2. Placed(v, e)
  BY <1>1, StillPlaced
<1>3. ~(t > Len(em.vals))
  <2>1. Len(g.tmp) \in Nat /\ DOMAIN g.tmp = 1 .. Len(g.tmp)
    BY DEF Temps, IsSeq
  <2> QED BY <2>1 DEF Temps
<1>4. CASE Dominates(v.def, e)
  <2>1. RdTmp(e, t) = [v |-> v, e |-> e]
    BY <1>3, <1>4 DEF RdTmp, Check
  <2> QED BY <2>1, <1>4, StillSelf
<1>5. CASE ~Dominates(v.def, e)
  <2>1. v.def # <<>> /\ Last(v.def) = "dirty_then"
    BY <1>2, <1>5 DEF Placed
  <2>3. "guarded dirty value" \in KnownIllFormed \ {""}
    BY DEF KnownIllFormed
  <2>4. RdTmp(e, t).v = v /\ RdTmp(e, t).e = Fail(e, "guarded dirty value")
    BY <1>3, <1>5, <2>1 DEF RdTmp, Check
  <2>5. Still(e, Fail(e, "guarded dirty value")) /\ Fail(e, "guarded dirty value").bad # ""
    BY <2>3, FailIs
  <2> QED BY <2>4, <2>5, Zenon
<1> QED BY <1>4, <1>5

\* Emitting an argument.
LEMMA AtomIs ==
    ASSUME em.blk \in Seq(Names), Temps, NEW e, InState(e), NEW ty \in Types, NEW x \in Atoms(ty)
    PROVE  /\ Still(e, EmitAtom(e, x).e) /\ Carries(EmitAtom(e, x).v, ty)
           /\ EmitAtom(e, x).e.bad = "" => Dominates(EmitAtom(e, x).v.def, e)
<1>1. CASE x \in Consts(ty)
  <2>1. EmitAtom(e, x) = EmitConst(e, x)
    BY <1>1, ConstIs DEF EmitAtom
  <2>2. Still(e, EmitAtom(e, x).e) /\ Carries(EmitAtom(e, x).v, ty) /\ EmitAtom(e, x).v.def = <<>>
    BY <1>1, <2>1, ConstIs, StillSelf
  <2>3. IsPrefix(<<>>, e.blk)
    BY PrefixNone DEF InState
  <2> QED BY <2>2, <2>3 DEF Dominates
<1>2. CASE x \in Tmps(ty)
  <2>1. PICK t \in DOMAIN g.tmp : g.tmp[t].ty = ty /\ x = [k |-> "RdTmp", t |-> t]
    BY <1>2 DEF Tmps
  <2>2. EmitAtom(e, x) = RdTmp(e, t)
    BY <2>1 DEF EmitAtom
  <2>3. Carries(em.vals[t], ty)
    BY <2>1 DEF Temps
  <2> QED BY <2>2, <2>3, TmpIs
<1> QED BY <1>1, <1>2 DEF Atoms

(***************************************************************************)
(* Access to the guest registers and to guest memory.                      *)
(***************************************************************************)
LEMMA FreshIs ==
    ASSUME NEW e, e.blk \in Seq(Names), NEW ty, NEW b
    PROVE  /\ Fresh(e, ty, b).e = e /\ Fields(Fresh(e, ty, b).v)
           /\ Fresh(e, ty, b).v.ty = ty /\ Fresh(e, ty, b).v.b = b
           /\ Fresh(e, ty, b).v.def = e.blk
  BY DEF Fresh, Fields

\* A cast of the context pointer is no pointer into it.
LEMMA TyGEPIs ==
    ASSUME NEW e, InState(e), NEW off, NEW ty
    PROVE  /\ Still(e, getCtxTyGEP(e, off, ty).e)
           /\ getCtxTyGEP(e, off, ty).e.bad = e.bad /\ getCtxTyGEP(e, off, ty).e.gep = e.gep
           /\ getCtxTyGEP(e, off, ty).p = [at |-> off * Bytes[ty], ty |-> ty, def |-> e.blk]
<1> DEFINE f == getCtxTyGEP(e, off, ty).e
<1>1. /\ f \in [blk : Seq(Names), vals : {em.vals}, gep : {f.gep}, cast : {f.cast}, bad : KnownIllFormed]
      /\ f.blk = e.blk /\ f.gep = e.gep /\ f.bad = e.bad
  BY DEF InState, getCtxTyGEP
<1>2. getCtxTyGEP(e, off, ty).p = [at |-> off * Bytes[ty], ty |-> ty, def |-> e.blk]
  BY DEF getCtxTyGEP
<1> HIDE DEF f
<1>3. Cached(f)
  BY <1>1 DEF Cached, InState
<1>4. InState(f)
  BY <1>1, <1>3 DEF InState
<1>5. Still(e, f)
  BY <1>1, <1>4 DEF Still
<1> QED BY <1>1, <1>2, <1>5 DEF f

\* The pointer to a register, cached or new, is of the type asked for,
\* dominates the insert block and points at the register.
LEMMA ByteGEPIs ==
    ASSUME NEW e, InState(e), NEW off, NEW ty
    PROVE  /\ Still(e, getCtxByteGEP(e, off, ty).e)
           /\ getCtxByteGEP(e, off, ty).e.bad = e.bad
           /\ getCtxByteGEP(e, off, ty).p.ty = ty
           /\ getCtxByteGEP(e, off, ty).p.def = e.blk
           /\ getCtxByteGEP(e, off, ty).p.at = (off \div Bytes[ty]) * Bytes[ty]
<1> DEFINE key == Key(off, ty)
           new == getCtxTyGEP(e, off \div Bytes[ty], ty)
           r == getCtxByteGEP(e, off, ty)
<1>0. key[1] = off /\ key[2] = Bytes[ty]
  BY DEF Key
<1>1. /\ Still(e, new.e) /\ new.e.bad = e.bad /\ new.e.gep = e.gep
      /\ new.p = [at |-> (off \div Bytes[ty]) * Bytes[ty], ty |-> ty, def |-> e.blk]
  BY TyGEPIs
<1>2. new = [e |-> new.e, p |-> new.p]
  BY DEF getCtxTyGEP
<1>3. CASE key \in DOMAIN e.gep /\ InEntry(e) /\ e.gep[key].ty = ty
  <2>1. r.e = e /\ r.p = e.gep[key]
    BY <1>3 DEF getCtxByteGEP
  <2>2. Cached(e) /\ Len(e.blk) = 1
    BY <1>3 DEF InState, InEntry
  <2>3. r.p.def = e.blk /\ r.p.at = (off \div Bytes[ty]) * Bytes[ty]
    <3> HIDE DEF r, key
    <3> QED BY <1>0, <1>3, <2>1, <2>2 DEF Cached
  <2> HIDE DEF r
  <2> QED BY <1>3, <2>1, <2>3, StillSelf DEF r
<1>4. CASE key \in DOMAIN e.gep /\ ~(InEntry(e) /\ e.gep[key].ty = ty)
  <2>1. r.e = new.e /\ r.p = new.p
    BY <1>4 DEF getCtxByteGEP
  <2> HIDE DEF new
  <2> QED BY <1>1, <2>1 DEF r
<1>5. CASE key \notin DOMAIN e.gep
  <2> DEFINE n == new.e
             q == new.p
             gep == [k \in DOMAIN e.gep \cup {key} |-> IF k = key THEN q ELSE e.gep[k]]
  <2>1. r = [new EXCEPT !.e.gep = [k \in DOMAIN @ \cup {key} |-> IF k = key THEN new.p ELSE @[k]]]
    BY <1>5 DEF getCtxByteGEP
  <2>2. /\ n \in [blk : Seq(Names), vals : {em.vals}, gep : {n.gep}, cast : {n.cast}, bad : KnownIllFormed]
        /\ n.blk = e.blk
    BY <1>1 DEF Still, InState
  <2> HIDE DEF key
  <2>3. r.p = q /\ r.e = [n EXCEPT !.gep = [k \in DOMAIN @ \cup {key} |-> IF k = key THEN q ELSE @[k]]]
    BY <1>2, <2>1
  <2>4. r.e = [n EXCEPT !.gep = gep]
    <3> HIDE DEF n, q, r
    <3> QED BY <1>1, <2>2, <2>3 DEF n
  <2>5. Cached(e)
    BY DEF InState
  <2> DEFINE f == r.e
  <2> HIDE DEF n
  <2>6. /\ f \in [blk : Seq(Names), vals : {em.vals}, gep : {f.gep}, cast : {f.cast}, bad : KnownIllFormed]
        /\ f.gep = gep /\ f.blk = e.blk /\ f.bad = n.bad
    <3> HIDE DEF gep, q, r, new
    <3> QED BY <2>2, <2>4
  <2>7. Cached(f)
    <3> SUFFICES ASSUME NEW k \in DOMAIN f.gep
                 PROVE  f.gep[k].at = (k[1] \div k[2]) * k[2] /\ (Len(f.blk) = 1 => f.gep[k].def = f.blk)
      BY DEF Cached
    <3>1. CASE k = key
      <4>1. f.gep[k] = q
        BY <2>6, <3>1
      <4>2. q.at = (off \div Bytes[ty]) * Bytes[ty] /\ q.def = e.blk
        BY <1>1
      <4> QED BY <1>0, <2>6, <3>1, <4>1, <4>2
    <3>2. CASE k # key
      <4>1. f.gep[k] = e.gep[k] /\ k \in DOMAIN e.gep
        BY <2>6, <3>2
      <4> QED BY <2>5, <2>6, <4>1 DEF Cached
    <3> QED BY <3>1, <3>2
  <2>8. InState(f)
    BY <2>6, <2>7 DEF InState
  <2>9. f.bad = e.bad
    BY <1>1, <2>6 DEF n
  <2>10. Still(e, f)
    <3> HIDE DEF f
    <3> QED BY <2>6, <2>8, <2>9 DEF Still
  <2>11. q.ty = ty /\ q.def = e.blk /\ q.at = (off \div Bytes[ty]) * Bytes[ty]
    BY <1>1
  <2> HIDE DEF q, r
  <2>12. r.p.ty = ty /\ r.p.def = e.blk /\ r.p.at = (off \div Bytes[ty]) * Bytes[ty]
    BY <2>3, <2>11, Zenon
  <2> QED BY <2>9, <2>10, <2>12, Zenon DEF r
<1> QED BY <1>3, <1>4, <1>5

\* A pointer that dominates and has the right type can be used.
LEMMA ThroughIs ==
    ASSUME NEW e, InState(e), NEW p, p.def = e.blk, NEW ty, p.ty = ty
    PROVE  Through(e, p, ty) = e
<1>1. Dominates(p.def, e)
  BY PrefixSelf DEF InState, Dominates
<1> QED BY <1>1 DEF Through, Check

LEMMA ReadCtxIs ==
    ASSUME NEW e, InState(e), NEW off, NEW ty
    PROVE  /\ Still(e, readCtx(e, off, ty).e) /\ Fields(readCtx(e, off, ty).v)
           /\ readCtx(e, off, ty).v.ty = ty /\ readCtx(e, off, ty).v.def = e.blk
           /\ readCtx(e, off, ty).v.b = Read(run.ctx, (off \div Bytes[ty]) * Bytes[ty], Bytes[ty])
<1> DEFINE r == getCtxByteGEP(e, off, ty)
           f == r.e
           p == r.p
<1>1. /\ Still(e, f) /\ p.ty = ty /\ p.def = e.blk /\ p.at = (off \div Bytes[ty]) * Bytes[ty]
  BY ByteGEPIs
<1>2. readCtx(e, off, ty) = Fresh(Through(f, p, ty), ty, Read(run.ctx, p.at, Bytes[ty]))
  BY DEF readCtx
<1> HIDE DEF r, f, p
<1>3. InState(f) /\ f.blk = e.blk /\ f.blk \in Seq(Names)
  BY <1>1 DEF Still, InState
<1>4. Through(f, p, ty) = f
  BY <1>1, <1>3, ThroughIs
<1> DEFINE b == Read(run.ctx, p.at, Bytes[ty])
<1>5. readCtx(e, off, ty) = Fresh(f, ty, b)
  BY <1>2, <1>4
<1> HIDE DEF b
<1>6. /\ Fresh(f, ty, b).e = f /\ Fields(Fresh(f, ty, b).v) /\ Fresh(f, ty, b).v.ty = ty
      /\ Fresh(f, ty, b).v.b = b /\ Fresh(f, ty, b).v.def = f.blk
  BY <1>3, FreshIs
<1> QED BY <1>1, <1>3, <1>5, <1>6 DEF b

LEMMA WriteCtxIs ==
    ASSUME NEW e, InState(e), NEW off, NEW v
    PROVE  /\ Still(e, writeCtx(e, off, v).e)
           /\ writeCtx(e, off, v).ctx = Write(run.ctx, (off \div Bytes[v.ty]) * Bytes[v.ty], v.b)
<1> DEFINE r == getCtxByteGEP(e, off, v.ty)
           f == r.e
           p == r.p
<1>1. /\ Still(e, f) /\ p.ty = v.ty /\ p.def = e.blk /\ p.at = (off \div Bytes[v.ty]) * Bytes[v.ty]
  BY ByteGEPIs
<1>2. writeCtx(e, off, v).e = Through(f, p, v.ty) /\ writeCtx(e, off, v).ctx = Write(run.ctx, p.at, v.b)
  BY DEF writeCtx
<1> HIDE DEF r, f, p
<1>3. InState(f) /\ f.blk = e.blk
  BY <1>1 DEF Still
<1>4. Through(f, p, v.ty) = f
  BY <1>1, <1>3, ThroughIs
<1> QED BY <1>1, <1>2, <1>4, Zenon

LEMMA ElementIs ==
    ASSUME NEW e, InState(e), NEW off, NEW bias, NEW len, NEW ix, NEW ty, off % Bytes[ty] = 0
    PROVE  /\ Still(e, ElementGEP(e, off, bias, len, ix, ty).e)
           /\ ElementGEP(e, off, bias, len, ix, ty).p.at
                = indexCtx(off, bias, len, ix.b, ty) * Bytes[ty]
<1>1. ElementGEP(e, off, bias, len, ix, ty) = getCtxTyGEP(e, indexCtx(off, bias, len, ix.b, ty), ty)
  BY DEF ElementGEP, Check
<1> DEFINE i == indexCtx(off, bias, len, ix.b, ty)
<1>2. ElementGEP(e, off, bias, len, ix, ty) = getCtxTyGEP(e, i, ty)
  BY <1>1
<1> HIDE DEF i
<1>3. Still(e, getCtxTyGEP(e, i, ty).e)
  BY TyGEPIs
<1>4. getCtxTyGEP(e, i, ty).p.at = i * Bytes[ty]
  BY DEF getCtxTyGEP
<1> QED BY <1>2, <1>3, <1>4, Zenon DEF i

LEMMA ReadCtxIIs ==
    ASSUME NEW e, InState(e), NEW off, NEW bias, NEW len, NEW ix, NEW ty, off % Bytes[ty] = 0
    PROVE  LET r == readCtxI(e, off, bias, len, ix, ty)
           IN  /\ Still(e, r.e) /\ Fields(r.v) /\ r.v.ty = ty /\ r.v.def = e.blk
               /\ r.v.b = Read(run.ctx, indexCtx(off, bias, len, ix.b, ty) * Bytes[ty], Bytes[ty])
<1> DEFINE q == ElementGEP(e, off, bias, len, ix, ty)
           f == q.e
           i == indexCtx(off, bias, len, ix.b, ty)
           b == Read(run.ctx, i * Bytes[ty], Bytes[ty])
<1>1. Still(e, f) /\ q.p.at = i * Bytes[ty]
  BY ElementIs
<1>2. readCtxI(e, off, bias, len, ix, ty) = Fresh(f, ty, b)
  BY <1>1 DEF readCtxI
<1> HIDE DEF b, q, f, i
<1>3. f.blk \in Seq(Names) /\ f.blk = e.blk
  BY <1>1 DEF Still, InState
<1>4. /\ Fresh(f, ty, b).e = f /\ Fields(Fresh(f, ty, b).v) /\ Fresh(f, ty, b).v.ty = ty
      /\ Fresh(f, ty, b).v.b = b /\ Fresh(f, ty, b).v.def = f.blk
  BY <1>3, FreshIs
<1> QED BY <1>1, <1>2, <1>3, <1>4 DEF b, i

LEMMA WriteCtxIIs ==
    ASSUME NEW e, InState(e), NEW off, NEW bias, NEW len, NEW ix, NEW v, off % Bytes[v.ty] = 0
    PROVE  /\ Still(e, writeCtxI(e, off, bias, len, ix, v).e)
           /\ writeCtxI(e, off, bias, len, ix, v).ctx
                = Write(run.ctx, indexCtx(off, bias, len, ix.b, v.ty) * Bytes[v.ty], v.b)
<1> DEFINE q == ElementGEP(e, off, bias, len, ix, v.ty)
           f == q.e
           i == indexCtx(off, bias, len, ix.b, v.ty)
<1>1. Still(e, f) /\ q.p.at = i * Bytes[v.ty]
  BY ElementIs
<1>2. /\ writeCtxI(e, off, bias, len, ix, v).e = f
      /\ writeCtxI(e, off, bias, len, ix, v).ctx = Write(run.ctx, q.p.at, v.b)
  BY DEF writeCtxI
<1> HIDE DEF q, f, i
<1> QED BY <1>1, <1>2 DEF i

\* The vsyscall page is read while translating, other memory by the code.
Faked(addr) == fake_vsys_reads /\ addr.const /\ Num(addr.b) = SysAddr
LEMMA LoadIs ==
    ASSUME NEW e, InState(e), NEW addr, NEW ty
    PROVE  /\ Still(e, load(e, addr, ty).e) /\ Fields(load(e, addr, ty).v)
           /\ load(e, addr, ty).v.ty = ty /\ Dominates(load(e, addr, ty).v.def, e)
           /\ load(e, addr, ty).v.b = IF Faked(addr) THEN <<SysByte>>
                                      ELSE Read(run.mem, Base + Num(addr.b), Bytes[ty])
<1> DEFINE f == Integer(e, addr)
           r == load(e, addr, ty)
<1>1. Still(e, f)
  BY IntegerIs
<1>2. f.blk = e.blk /\ e.blk \in Seq(Names)
  BY <1>1 DEF Still, InState
<1>3. CASE Faked(addr)
  <2>1. r.e = f /\ r.v = Constant(ty, <<SysByte>>)
    BY <1>3 DEF load, Faked
  <2> HIDE DEF f, r
  <2> DEFINE b == <<SysByte>>
             v == Constant(ty, b)
  <2>2. r.v = v
    BY <2>1
  <2>3. r.v.b = IF Faked(addr) THEN <<SysByte>> ELSE Read(run.mem, Base + Num(addr.b), Bytes[ty])
    BY <1>3, <2>1 DEF Constant
  <2>4. v.def = <<>>
    BY DEF Constant
  <2> HIDE DEF b
  <2>5. Fields(v) /\ v.ty = ty
    BY ConstantIs
  <2>6. IsPrefix(<<>>, e.blk)
    BY <1>2, PrefixNone
  <2>7. Dominates(v.def, e)
    BY <2>4, <2>6 DEF Dominates
  <2> HIDE DEF v
  <2> QED BY <1>1, <2>1, <2>2, <2>3, <2>5, <2>7 DEF r
<1>4. CASE ~Faked(addr)
  <2> DEFINE b == Read(run.mem, Base + Num(addr.b), Bytes[ty])
  <2>1. r = Fresh(f, ty, b)
    BY <1>4 DEF load, Faked
  <2> HIDE DEF f, r, b
  <2>2. /\ Fresh(f, ty, b).e = f /\ Fields(Fresh(f, ty, b).v) /\ Fresh(f, ty, b).v.ty = ty
        /\ Fresh(f, ty, b).v.b = b /\ Fresh(f, ty, b).v.def = f.blk
    BY <1>2, FreshIs
  <2>3. IsPrefix(e.blk, e.blk)
    BY <1>2, PrefixSelf
  <2>4. Dominates(r.v.def, e)
    BY <1>2, <2>1, <2>2, <2>3, Zenon DEF Dominates
  <2> QED BY <1>1, <1>4, <2>1, <2>2, <2>4 DEF r, b
<1> QED BY <1>3, <1>4

(***************************************************************************)
(* Bytes.                                                                  *)
(***************************************************************************)
Digit == 0 .. 3
BytesOf(ty) == IF ty = "I1" THEN [1 .. 1 -> 0 .. 1] ELSE [1 .. Size[ty] -> Digit]

LEMMA BytesAre ==
    ASSUME NEW S, NEW n \in Nat, NEW b \in [1 .. n -> S]
    PROVE  b \in Seq(S) /\ Len(b) = n
<1>1. b \in Seq(S)
  BY SeqDef
<1>2. DOMAIN b = 1 .. n /\ DOMAIN b = 1 .. Len(b) /\ Len(b) \in Nat
  BY <1>1, LenProperties
<1> QED BY <1>1, <1>2

LEMMA ByteBytes == BytesOf("I8") = [1 .. 1 -> Digit]
  BY DEF BytesOf, Size
LEMMA WordBytes == BytesOf("I16") = [1 .. 2 -> Digit]
  BY DEF BytesOf, Size
LEMMA VectorBytes == BytesOf("V") = [1 .. 4 -> Digit]
  BY DEF BytesOf, Size
LEMMA FlagBytes == BytesOf("I1") = [1 .. 1 -> 0 .. 1]
  BY DEF BytesOf

LEMMA WordIs ==
    ASSUME NEW b \in BytesOf("I16")
    PROVE  Num(b) = b[1] + 4 * b[2] /\ Num(b) \in 0 .. 15 /\ b[1] \in Digit /\ b[2] \in Digit
<1>1. b \in [1 .. 2 -> Digit]
  BY WordBytes
<1>2. Len(b) = 2
  BY <1>1, BytesAre
<1> QED BY <1>1, <1>2 DEF Num, Digits, Digit

LEMMA TwoWords ==
    ASSUME NEW s \in Seq(Digit), NEW t \in Seq(Digit), Len(s) = 2, Len(t) = 2
    PROVE  s \o t = <<s[1], s[2], t[1], t[2]>>
<1> DEFINE u == s \o t
<1>1. /\ u \in Seq(Digit) /\ Len(u) = Len(s) + Len(t)
      /\ \A i \in 1 .. Len(s) + Len(t) : u[i] = IF i <= Len(s) THEN s[i] ELSE t[i - Len(s)]
  BY ConcatProperties, Zenon
<1> HIDE DEF u
<1>2. u[1] = s[1] /\ u[2] = s[2] /\ u[3] = t[1] /\ u[4] = t[2] /\ Len(u) = 4
  BY <1>1
<1>3. u = <<u[1], u[2], u[3], u[4]>>
  BY <1>1, <1>2
<1>4. u = <<s[1], s[2], t[1], t[2]>>
  BY <1>3, <1>2, Zenon
<1> QED BY <1>4 DEF u

LEMMA TwoBytes ==
    ASSUME NEW s \in Seq(Digit), NEW t \in Seq(Digit), Len(s) = 1, Len(t) = 1
    PROVE  s \o t = <<s[1], t[1]>>
<1> DEFINE u == s \o t
<1>1. /\ u \in Seq(Digit) /\ Len(u) = Len(s) + Len(t)
      /\ \A i \in 1 .. Len(s) + Len(t) : u[i] = IF i <= Len(s) THEN s[i] ELSE t[i - Len(s)]
  BY ConcatProperties, Zenon
<1> HIDE DEF u
<1>2. u[1] = s[1] /\ u[2] = t[1] /\ Len(u) = 2
  BY <1>1
<1>3. u = <<u[1], u[2]>>
  BY <1>1, <1>2
<1>4. u = <<s[1], t[1]>>
  BY <1>3, <1>2, Zenon
<1> QED BY <1>4 DEF u

\* The constant that stands for the vector's bytes is those bytes.
LEMMA MaskIs == ConstV128(9) = Constant("v4x8", <<3, 0, 0, 3>>)
<1> DEFINE s == bitmask8_to_bytemask64(9 % 4)
           t == bitmask8_to_bytemask64((9 \div 4) % 4)
<1>1. s \in [1 .. 2 -> Digit] /\ s[1] = 3 /\ s[2] = 0
  <2>1. 9 % 4 = 1 /\ 2^0 = 1 /\ 2^1 = 2
    OBVIOUS
  <2> QED BY <2>1 DEF bitmask8_to_bytemask64, Digits, Digit
<1>2. t \in [1 .. 2 -> Digit] /\ t[1] = 0 /\ t[2] = 3
  <2>1. (9 \div 4) % 4 = 2 /\ 2^0 = 1 /\ 2^1 = 2
    OBVIOUS
  <2> QED BY <2>1 DEF bitmask8_to_bytemask64, Digits, Digit
<1>3. ConstV128(9) = Constant("v4x8", s \o t)
  BY DEF ConstV128
<1> HIDE DEF s, t
<1>4. s \in Seq(Digit) /\ Len(s) = 2 /\ t \in Seq(Digit) /\ Len(t) = 2
  BY <1>1, <1>2, BytesAre
<1>5. s \o t = <<s[1], s[2], t[1], t[2]>>
  BY <1>4, TwoWords
<1>6. s \o t = <<3, 0, 0, 3>>
  BY <1>1, <1>2, <1>5, Zenon
<1> QED BY <1>3, <1>6, Zenon

LEMMA ConstBytes ==
    ASSUME NEW e, NEW ty \in Types, NEW x \in Consts(ty)
    PROVE  EmitConst(e, x).v.b = x.b /\ x.b \in BytesOf(ty)
<1>1. x.k = "Const" /\ x.ty = ty
  BY ConstShape
<1>2. CASE ty = "V"
  <2>1. Consts(ty) = {[k |-> "Const", ty |-> ty, b |-> <<3, 0, 0, 3>>, mask |-> 9]}
    BY <1>2 DEF Consts
  <2>2. x = [k |-> "Const", ty |-> ty, b |-> <<3, 0, 0, 3>>, mask |-> 9]
    BY <2>1
  <2>3. x.mask = 9 /\ x.b = <<3, 0, 0, 3>>
    BY <2>2
  <2>4. EmitConst(e, x).v = ConstV128(9)
    BY <1>1, <1>2, <2>3 DEF EmitConst
  <2>5. EmitConst(e, x).v.b = <<3, 0, 0, 3>>
    BY <2>4, MaskIs DEF Constant
  <2>6. <<3, 0, 0, 3>> \in [1 .. 4 -> Digit]
    BY DEF Digit
  <2> QED BY <1>2, <2>3, <2>5, <2>6, VectorBytes, Zenon
<1>3. CASE ty # "V"
  <2>1. EmitConst(e, x).v.b = x.b
    BY <1>1, <1>3 DEF EmitConst, Constant
  <2>2. x.b \in BytesOf(ty)
    <3>1. CASE ty = "I1"
      BY <3>1, FlagBytes DEF Consts
    <3>2. CASE ty = "I8"
      BY <3>2, ByteBytes DEF Consts, Digit
    <3>3. CASE ty = "I16"
      <4>1. Consts(ty) = {[k |-> "Const", ty |-> ty, b |-> <<n, 0>>] : n \in {0, 2}}
        BY <3>3 DEF Consts
      <4>2. PICK n \in {0, 2} : x = [k |-> "Const", ty |-> ty, b |-> <<n, 0>>]
        BY <4>1
      <4>3. x.b = <<n, 0>>
        BY <4>2
      <4>4. <<n, 0>> \in [1 .. 2 -> Digit]
        BY DEF Digit
      <4> QED BY <3>3, <4>3, <4>4, WordBytes, Zenon
    <3> QED BY <1>3, <3>1, <3>2, <3>3 DEF Types
  <2> QED BY <2>1, <2>2
<1> QED BY <1>2, <1>3

\* Machines r and h agree on memory and registers, all of them digits.
SameMachine(r, h) ==
    /\ r.mem \in [HostAddresses -> Digit]
    /\ h.mem \in [Addresses \cup {SysAddr} -> Digit] /\ h.mem[SysAddr] = SysByte
    /\ \A a \in Addresses : r.mem[Base + a] = h.mem[a]
    /\ DOMAIN r.ctx = Offsets \cup {ExitTypeOffset} /\ h.ctx \in [Offsets -> Digit]
    /\ \A i \in Offsets : r.ctx[i] = h.ctx[i]

\* They agree on every temporary that can be used.
SameTemps ==
    \A t \in DOMAIN g.tmp :
        /\ g.tmp[t].b \in BytesOf(g.tmp[t].ty)
        /\ Dominates(em.vals[t].def, em) => em.vals[t].b = g.tmp[t].b

Agreed == fake_vsys_reads /\ SameMachine(run, g) /\ SameTemps

\* What dominates a block opened since, and was there, dominated before.
LEMMA DominatedBefore ==
    ASSUME em.blk \in Seq(Names), NEW e, InState(e), NEW v, v.def \in Seq(Names), Placed(v, em),
           Dominates(v.def, e)
    PROVE  Dominates(v.def, em)
<1>1. CASE Dominates(v.def, em)
  BY <1>1
<1>2. CASE Len(v.def) <= Len(em.blk)
  <2>1. e.blk \in Seq(Names) /\ IsPrefix(em.blk, e.blk) /\ IsPrefix(v.def, e.blk)
    BY DEF InState, Dominates
  <2>2. IsPrefix(v.def, em.blk)
    BY <1>2, <2>1, PrefixShorter
  <2> QED BY <2>2 DEF Dominates
<1> QED BY <1>1, <1>2 DEF Placed

LEMMA AtomValue ==
    ASSUME Agreed, NEW ty \in Types, NEW x \in Atoms(ty)
    PROVE  ValueOf(g, x) \in BytesOf(ty)
<1>1. CASE x \in Consts(ty)
  <2>1. x.k = "Const" /\ x.b \in BytesOf(ty)
    BY <1>1, ConstShape, ConstBytes
  <2>2. ValueOf(g, x) = x.b
    BY <2>1 DEF ValueOf
  <2> QED BY <2>1, <2>2
<1>2. CASE x \in Tmps(ty)
  <2>1. PICK t \in DOMAIN g.tmp : g.tmp[t].ty = ty /\ x = [k |-> "RdTmp", t |-> t]
    BY <1>2 DEF Tmps
  <2>2. ValueOf(g, x) = g.tmp[t].b
    BY <2>1 DEF ValueOf
  <2>3. g.tmp[t].b \in BytesOf(g.tmp[t].ty)
    BY DEF Agreed, SameMachine, SameTemps
  <2> QED BY <2>1, <2>2, <2>3
<1> QED BY <1>1, <1>2 DEF Atoms

LEMMA AtomType ==
    ASSUME NEW ty \in Types, NEW x \in Atoms(ty)
    PROVE  TypeOf(g, x) = ty /\ x.k \in {"RdTmp", "Const"}
<1>1. CASE x \in Consts(ty)
  BY <1>1, ConstShape DEF TypeOf
<1>2. CASE x \in Tmps(ty)
  <2>1. PICK t \in DOMAIN g.tmp : g.tmp[t].ty = ty /\ x = [k |-> "RdTmp", t |-> t]
    BY <1>2 DEF Tmps
  <2> QED BY <2>1 DEF TypeOf
<1> QED BY <1>1, <1>2 DEF Atoms

\* An argument that is well formed is the guest's value.
LEMMA AtomBytes ==
    ASSUME em.blk \in Seq(Names), Temps, NEW e, InState(e), NEW ty \in Types, NEW x \in Atoms(ty),
           Agreed, EmitAtom(e, x).e.bad = ""
    PROVE  EmitAtom(e, x).v.b = ValueOf(g, x)
<1>1. CASE x \in Consts(ty)
  <2>1. x.k = "Const" /\ EmitConst(e, x).v.b = x.b
    BY <1>1, ConstShape, ConstBytes
  <2> QED BY <2>1 DEF EmitAtom, ValueOf
<1>2. CASE x \in Tmps(ty)
  <2>1. PICK t \in DOMAIN g.tmp : g.tmp[t].ty = ty /\ x = [k |-> "RdTmp", t |-> t]
    BY <1>2 DEF Tmps
  <2>2. EmitAtom(e, x) = RdTmp(e, t) /\ ValueOf(g, x) = g.tmp[t].b
    BY <2>1 DEF EmitAtom, ValueOf
  <2>3. RdTmp(e, t).v = em.vals[t] /\ Dominates(em.vals[t].def, e)
    BY <2>2, TmpIs
  <2>4. em.vals[t].def \in Seq(Names) /\ Placed(em.vals[t], em)
    BY DEF Temps, Carries, Fields
  <2>5. Dominates(em.vals[t].def, em)
    BY <2>3, <2>4, DominatedBefore
  <2>6. em.vals[t].b = g.tmp[t].b
    BY <2>5 DEF Agreed, SameMachine, SameTemps
  <2> QED BY <2>2, <2>3, <2>6
<1> QED BY <1>1, <1>2 DEF Atoms

(***************************************************************************)
(* Expressions.                                                            *)
(***************************************************************************)
\* r, emitted from e, is a value of type ty whose bytes are b.
Yields(e, r, ty, b) ==
    /\ Still(e, r.e) /\ Carries(r.v, ty)
    /\ r.e.bad = "" => Dominates(r.v.def, e)
    /\ Agreed => b \in BytesOf(ty) /\ (r.e.bad = "" => r.v.b = b)

LEMMA AtomYields ==
    ASSUME em.blk \in Seq(Names), Temps, NEW e, InState(e), NEW ty \in Types, NEW x \in Atoms(ty)
    PROVE  Yields(e, EmitAtom(e, x), ty, ValueOf(g, x))
<1> DEFINE r == EmitAtom(e, x)
<1>1. Still(e, r.e) /\ Carries(r.v, ty) /\ (r.e.bad = "" => Dominates(r.v.def, e))
  BY AtomIs
<1>2. ASSUME Agreed PROVE ValueOf(g, x) \in BytesOf(ty)
  BY <1>2, AtomValue
<1>3. ASSUME Agreed, r.e.bad = "" PROVE r.v.b = ValueOf(g, x)
  BY <1>3, AtomBytes
<1> HIDE DEF r
<1>4. Yields(e, r, ty, ValueOf(g, x))
  BY <1>1, <1>2, <1>3 DEF Yields
<1> QED BY <1>4 DEF r

LEMMA ReadSame ==
    ASSUME NEW m, NEW a, NEW h, NEW c, NEW n \in Nat, \A i \in 1 .. n : m[a + i - 1] = h[c + i - 1]
    PROVE  Read(m, a, n) = Read(h, c, n)
  BY DEF Read

LEMMA ReadDigits ==
    ASSUME NEW D, NEW m \in [D -> Digit], NEW a, NEW n \in Nat, \A i \in 1 .. n : a + i - 1 \in D
    PROVE  Read(m, a, n) \in [1 .. n -> Digit]
  BY DEF Read

LEMMA CarrierOf ==
    \A ty \in Types : LLVMType[ty] \in Carrier[ty] /\ Bytes[LLVMType[ty]] = Size[ty]
  BY DEF Types, LLVMType, Carrier, Bytes, Size
LEMMA CarrierBytes ==
    \A ty \in Types : \A l \in Carrier[ty] : Bytes[l] = Size[ty]
  BY DEF Types, Carrier, Bytes, Size
LEMMA SizeIs == \A ty \in Types : Size[ty] \in {1, 2, 4}
  BY DEF Types, Size

LEMMA RegistersRead ==
    ASSUME Agreed, NEW a \in Nat, NEW n \in Nat, a + n <= 6
    PROVE  Read(run.ctx, a, n) = Read(g.ctx, a, n) /\ Read(g.ctx, a, n) \in [1 .. n -> Digit]
<1>1. \A i \in 1 .. n : a + i - 1 \in Offsets
  BY DEF Offsets
<1>2. \A i \in 1 .. n : run.ctx[a + i - 1] = g.ctx[a + i - 1]
  BY <1>1 DEF Agreed, SameMachine, SameTemps
<1>3. Read(run.ctx, a, n) = Read(g.ctx, a, n)
  BY <1>2 DEF Read
<1>4. g.ctx \in [Offsets -> Digit]
  BY DEF Agreed, SameMachine, SameTemps
<1> QED BY <1>1, <1>3, <1>4, ReadDigits

LEMMA MemoryRead ==
    ASSUME Agreed, NEW a \in Nat, NEW n \in Nat, a + n <= 4
    PROVE  Read(run.mem, Base + a, n) = Read(g.mem, a, n) /\ Read(g.mem, a, n) \in [1 .. n -> Digit]
<1>0. Base \in Nat
  BY EmitAssumption
<1>1. \A i \in 1 .. n : a + i - 1 \in Addresses
  BY DEF Addresses
<1>2. \A i \in 1 .. n : run.mem[Base + (a + i - 1)] = g.mem[a + i - 1]
  BY <1>1 DEF Agreed, SameMachine, SameTemps
<1>3. \A i \in 1 .. n : Base + (a + i - 1) = (Base + a) + i - 1
  BY <1>0
<1>4. \A i \in 1 .. n : run.mem[(Base + a) + i - 1] = g.mem[a + i - 1]
  BY <1>2, <1>3
<1>5. Read(run.mem, Base + a, n) = Read(g.mem, a, n)
  <2> DEFINE m == run.mem
             h == g.mem
             c == Base + a
  <2>1. \A i \in 1 .. n : m[c + i - 1] = h[a + i - 1]
    BY <1>4
  <2> HIDE DEF m, h, c
  <2>2. Read(m, c, n) = Read(h, a, n)
    BY <2>1, ReadSame
  <2> QED BY <2>2 DEF m, h, c
<1>6. g.mem \in [Addresses \cup {SysAddr} -> Digit]
  BY DEF Agreed, SameMachine, SameTemps
<1>7. \A i \in 1 .. n : a + i - 1 \in Addresses \cup {SysAddr}
  BY <1>1
<1> QED BY <1>5, <1>6, <1>7, ReadDigits

LEMMA GetYields ==
    ASSUME NEW e, InState(e), NEW x \in Gets
    PROVE  /\ x.ty \in Types /\ Yields(e, EmitLeaf(e, x), x.ty, EvalLeaf(g, x))
           /\ x.k = "Get"
<1> DEFINE l == LLVMType[x.ty]
           r == readCtx(e, x.off, l)
           b == Read(g.ctx, x.off, Size[x.ty])
<1>1. /\ x.k = "Get" /\ x.ty \in Types /\ x.off \in Nat
      /\ x.off + Size[x.ty] <= 6 /\ (x.off \div Size[x.ty]) * Size[x.ty] = x.off
  BY DEF Gets, Types, Size
<1>2. EmitLeaf(e, x) = r /\ EvalLeaf(g, x) = b
  BY <1>1 DEF EmitLeaf, EvalLeaf
<1>3. l \in Carrier[x.ty] /\ Bytes[l] = Size[x.ty] /\ Size[x.ty] \in {1, 2, 4}
  BY <1>1, CarrierOf, SizeIs
<1>4. /\ Still(e, r.e) /\ Fields(r.v) /\ r.v.ty = l /\ r.v.def = e.blk
      /\ r.v.b = Read(run.ctx, (x.off \div Bytes[l]) * Bytes[l], Bytes[l])
  BY ReadCtxIs
<1>5. r.v.b = Read(run.ctx, x.off, Size[x.ty])
  BY <1>1, <1>3, <1>4
<1>6. Agreed => Read(run.ctx, x.off, Size[x.ty]) = b /\ b \in [1 .. Size[x.ty] -> Digit]
  BY <1>1, <1>3, RegistersRead
<1>7. x.ty # "I1"
  BY DEF Gets
<1>8. [1 .. Size[x.ty] -> Digit] = BytesOf(x.ty)
  BY <1>7 DEF BytesOf
<1>9. Dominates(r.v.def, e)
  BY <1>4, PrefixSelf DEF Dominates, InState
<1>10. Carries(r.v, x.ty)
  BY <1>3, <1>4 DEF Carries
<1> HIDE DEF l, r, b
<1>11. Yields(e, r, x.ty, b)
  BY <1>4, <1>5, <1>6, <1>8, <1>9, <1>10 DEF Yields
<1> QED BY <1>1, <1>2, <1>11

\* The element computed in the width of an int is the one VEX addresses.
LEMMA ElementAgrees ==
    ASSUME NEW a \in Arrays, NEW bias \in Biases, NEW ix \in BytesOf("I16"),
           NEW n, n = Size[a.ty], NEW l, Bytes[l] = n
    PROVE  /\ indexCtx(a.base, bias, a.len, ix, l) * Bytes[l] = Element(a.base, a.ty, a.len, ix, bias)
           /\ Element(a.base, a.ty, a.len, ix, bias) \in Nat
           /\ Element(a.base, a.ty, a.len, ix, bias) + n <= 6
<1>1. a.base = 2 /\ a.len = 2 /\ a.ty \in {"I8", "I16"}
  BY DEF Arrays
<1>2. Num(ix) \in 0 .. 15
  BY WordIs
<1> DEFINE i == Num(ix) + bias
<1>3. i \in -1 .. 15
  BY <1>2 DEF Biases
<1>4. (i % 16) % 2 = i % 2 /\ i % 2 \in {0, 1}
  BY <1>3
<1>5. n \in {1, 2}
  BY <1>1 DEF Size
<1>6. /\ indexCtx(a.base, bias, a.len, ix, l) = ((i % 16) % 2) + (2 \div n)
      /\ Element(a.base, a.ty, a.len, ix, bias) = 2 + n * (i % 2)
  BY <1>1 DEF indexCtx, Element, Word, Digits
<1> DEFINE p == indexCtx(a.base, bias, a.len, ix, l)
           q == Element(a.base, a.ty, a.len, ix, bias)
           j == i % 2
<1>7. p = j + 2 \div n /\ q = 2 + n * j /\ j \in {0, 1}
  BY <1>4, <1>6
<1> HIDE DEF i, j, p, q
<1>8. p * n = q /\ q \in Nat /\ q + n <= 6
  <2>1. CASE n = 1 BY <1>7, <2>1
  <2>2. CASE n = 2 BY <1>7, <2>2
  <2> QED BY <1>5, <2>1, <2>2
<1> QED BY <1>8 DEF p, q

LEMMA ArrayIs ==
    ASSUME NEW a \in Arrays
    PROVE  /\ a.ty \in Types /\ a.ty # "I1"
           /\ \A l \in Carrier[a.ty] : a.base % Bytes[l] = 0
  BY DEF Arrays, Types, Carrier, Bytes

LEMMA GetIYields ==
    ASSUME em.blk \in Seq(Names), Temps, NEW e, InState(e), NEW x \in GetIs
    PROVE  x.ty \in Types /\ Yields(e, EmitLeaf(e, x), x.ty, EvalLeaf(g, x)) /\ x.k = "GetI"
<1>1. PICK a \in Arrays, ix \in Atoms("I16"), bias \in Biases :
        x = [k |-> "GetI", base |-> a.base, ty |-> a.ty, len |-> a.len, ix |-> ix, bias |-> bias]
  BY DEF GetIs
<1>2. /\ x.k = "GetI" /\ x.base = a.base /\ x.ty = a.ty /\ x.len = a.len /\ x.ix = ix /\ x.bias = bias
  BY <1>1
<1> DEFINE l == LLVMType[a.ty]
           i == EmitAtom(e, ix)
           r == readCtxI(i.e, a.base, bias, a.len, i.v, l)
           c == ValueOf(g, ix)
           b == Read(g.ctx, Element(a.base, a.ty, a.len, c, bias), Size[a.ty])
<1>3. EmitLeaf(e, x) = r /\ EvalLeaf(g, x) = b
  BY <1>2 DEF EmitLeaf, EmitGetI, EvalLeaf
<1>4. /\ a.ty \in Types /\ a.ty # "I1" /\ l \in Carrier[a.ty] /\ Bytes[l] = Size[a.ty]
      /\ a.base % Bytes[l] = 0 /\ Size[a.ty] \in Nat
  BY ArrayIs, CarrierOf, SizeIs
<1>5. Yields(e, i, "I16", c)
  BY AtomYields DEF Types
<1> HIDE DEF l, i, c
<1>6. Still(e, i.e) /\ InState(i.e)
  BY <1>5 DEF Yields, Still
<1>7. /\ Still(i.e, r.e) /\ Fields(r.v) /\ r.v.ty = l /\ r.v.def = i.e.blk
      /\ r.v.b = Read(run.ctx, indexCtx(a.base, bias, a.len, i.v.b, l) * Bytes[l], Bytes[l])
  BY <1>4, <1>6, ReadCtxIIs
<1>8. Still(e, r.e) /\ r.v.def = e.blk /\ (r.e.bad = "" => i.e.bad = "")
  BY <1>6, <1>7 DEF Still
<1>9. Dominates(r.v.def, e)
  BY <1>8, PrefixSelf DEF Dominates, InState
<1>10. Carries(r.v, a.ty)
  BY <1>4, <1>7 DEF Carries
<1>11. Agreed => b \in BytesOf(a.ty) /\ (r.e.bad = "" => r.v.b = b)
  <2> SUFFICES ASSUME Agreed PROVE b \in BytesOf(a.ty) /\ (r.e.bad = "" => r.v.b = b)
    OBVIOUS
  <2> DEFINE at == Element(a.base, a.ty, a.len, c, bias)
  <2>1. c \in BytesOf("I16") /\ (r.e.bad = "" => i.v.b = c)
    BY <1>5, <1>8 DEF Yields
  <2>2. /\ indexCtx(a.base, bias, a.len, c, l) * Bytes[l] = at /\ at \in Nat
        /\ at + Size[a.ty] <= 6
    BY <1>4, <2>1, ElementAgrees
  <2> HIDE DEF at
  <2>3. /\ Read(run.ctx, at, Size[a.ty]) = Read(g.ctx, at, Size[a.ty])
        /\ Read(g.ctx, at, Size[a.ty]) \in [1 .. Size[a.ty] -> Digit]
    BY <1>4, <2>2, RegistersRead
  <2>4. b \in BytesOf(a.ty)
    BY <1>4, <2>3 DEF BytesOf, at
  <2>5. ASSUME r.e.bad = "" PROVE r.v.b = b
    <3> HIDE DEF r
    <3>1. r.v.b = Read(run.ctx, at, Size[a.ty])
      BY <1>4, <1>7, <2>1, <2>2, <2>5
    <3> QED BY <3>1, <2>3 DEF at
  <2> QED BY <2>4, <2>5
<1> HIDE DEF r, b
<1>12. Yields(e, r, a.ty, b)
  BY <1>8, <1>9, <1>10, <1>11 DEF Yields
<1> QED BY <1>2, <1>3, <1>4, <1>12

LEMMA PlaceIs ==
    ASSUME Agreed, NEW ty \in Types, NEW a \in Places(ty)
    PROVE  /\ ValueOf(g, a) \in BytesOf("I16") /\ Num(ValueOf(g, a)) \in Nat
           /\ Num(ValueOf(g, a)) + Size[ty] <= 4
<1>1. a \in Atoms("I16") /\ Num(ValueOf(g, a)) + Size[ty] - 1 \in 0 .. 3
  BY DEF Places, InMemory, Addresses
<1>2. ValueOf(g, a) \in BytesOf("I16")
  BY <1>1, AtomValue DEF Types
<1>3. Num(ValueOf(g, a)) \in 0 .. 15
  BY <1>2, WordIs
<1>4. Size[ty] \in {1, 2, 4}
  BY SizeIs
<1> QED BY <1>1, <1>2, <1>3, <1>4

\* What the emitted load reads where the guest has memory.
LEMMA LoadBytes ==
    ASSUME Agreed, NEW e, InState(e), NEW ty \in Types, ty # "I1", NEW l, Bytes[l] = Size[ty],
           NEW p, Num(p.b) \in Nat, Num(p.b) + Size[ty] <= 4
    PROVE  /\ load(e, p, l).v.b = Read(g.mem, Num(p.b), Size[ty])
           /\ Read(g.mem, Num(p.b), Size[ty]) \in BytesOf(ty)
<1> DEFINE a == Num(p.b)
           n == Size[ty]
<1>1. n \in {1, 2, 4} /\ a \in Nat /\ a + n <= 4
  BY SizeIs
<1>2. ~Faked(p)
  <2>1. a # 4
    BY <1>1
  <2> QED BY <2>1 DEF Faked, SysAddr
<1>3. load(e, p, l).v.b = Read(run.mem, Base + a, n)
  BY <1>2, LoadIs
<1> HIDE DEF a, n
<1>4. Read(run.mem, Base + a, n) = Read(g.mem, a, n) /\ Read(g.mem, a, n) \in [1 .. n -> Digit]
  BY <1>1, MemoryRead
<1>5. Read(g.mem, a, n) \in BytesOf(ty)
  BY <1>4 DEF BytesOf, n
<1> QED BY <1>3, <1>4, <1>5 DEF a, n

LEMMA ConstAtom ==
    ASSUME NEW e, NEW x, x.k = "Const", x.ty = "I16"
    PROVE  EmitAtom(e, x).e = e /\ EmitAtom(e, x).v = Constant("i16", x.b)
  BY DEF EmitAtom, EmitConst, LLVMType

LEMMA SysLoad ==
    ASSUME Agreed, NEW e, InState(e), NEW p, p.const = TRUE, Num(p.b) = SysAddr
    PROVE  /\ load(e, p, "i8").v.b = Read(g.mem, SysAddr, 1)
           /\ Read(g.mem, SysAddr, 1) \in BytesOf("I8")
<1>1. Faked(p)
  BY DEF Faked, Agreed
<1>2. load(e, p, "i8").v.b = <<SysByte>>
  BY <1>1, LoadIs
<1>3. Read(g.mem, SysAddr, 1) = <<SysByte>>
  <2>1. g.mem[SysAddr] = SysByte
    BY DEF Agreed, SameMachine, SameTemps
  <2> QED BY <2>1 DEF Read, SysAddr, SysByte
<1>4. <<SysByte>> \in [1 .. 1 -> Digit]
  BY DEF SysByte, Digit
<1> QED BY <1>2, <1>3, <1>4, ByteBytes, Zenon

\* A load through an address that has been emitted.
LEMMA LoadThrough ==
    ASSUME NEW e, NEW p, Still(e, p.e), NEW ty \in Types
    PROVE  LET r == load(p.e, p.v, LLVMType[ty])
           IN  /\ Still(e, r.e) /\ Carries(r.v, ty) /\ Dominates(r.v.def, e)
               /\ r.e.bad = "" => p.e.bad = ""
<1> DEFINE l == LLVMType[ty]
           r == load(p.e, p.v, l)
<1>1. InState(p.e) /\ p.e.blk = e.blk
  BY DEF Still
<1>2. Still(p.e, r.e) /\ Fields(r.v) /\ r.v.ty = l /\ Dominates(r.v.def, p.e)
  BY <1>1, LoadIs
<1>3. l \in Carrier[ty]
  BY CarrierOf
<1> HIDE DEF r, l
<1>4. Still(e, r.e) /\ (r.e.bad = "" => p.e.bad = "")
  BY <1>2 DEF Still
<1>5. Dominates(r.v.def, e)
  BY <1>1, <1>2 DEF Dominates
<1>6. Carries(r.v, ty)
  BY <1>2, <1>3 DEF Carries
<1> QED BY <1>4, <1>5, <1>6 DEF r, l

LEMMA LoadYields ==
    ASSUME em.blk \in Seq(Names), Temps, NEW e, InState(e), NEW x \in Loads
    PROVE  x.ty \in Types /\ Yields(e, EmitLeaf(e, x), x.ty, EvalLeaf(g, x)) /\ x.k = "Load"
<1>1. ASSUME NEW ty \in {"I8", "I16"}, NEW a \in Places(ty),
             x = [k |-> "Load", ty |-> ty, addr |-> a]
      PROVE  x.ty \in Types /\ Yields(e, EmitLeaf(e, x), x.ty, EvalLeaf(g, x)) /\ x.k = "Load"
  <2>1. x.k = "Load" /\ x.ty = ty /\ x.addr = a /\ ty \in Types /\ ty # "I1"
    BY <1>1 DEF Types
  <2> DEFINE l == LLVMType[ty]
             c == ValueOf(g, a)
             p == EmitAtom(e, a)
             r == load(p.e, p.v, l)
             b == Read(g.mem, Num(c), Size[ty])
  <2>2. EmitLeaf(e, x) = r /\ EvalLeaf(g, x) = b
    BY <2>1 DEF EmitLeaf, EmitLoad, EvalLeaf
  <2>3. Yields(e, p, "I16", c)
    BY AtomYields DEF Places, Types
  <2>4. Still(e, p.e) /\ InState(p.e) /\ (Agreed => (p.e.bad = "" => p.v.b = c))
    BY <2>3 DEF Yields, Still
  <2>5. /\ Still(e, r.e) /\ Carries(r.v, ty) /\ Dominates(r.v.def, e)
        /\ r.e.bad = "" => p.e.bad = ""
    BY <2>1, <2>4, LoadThrough
  <2>6. Agreed => b \in BytesOf(ty) /\ (r.e.bad = "" => r.v.b = b)
    <3> SUFFICES ASSUME Agreed PROVE b \in BytesOf(ty) /\ (r.e.bad = "" => r.v.b = b)
      OBVIOUS
    <3>1. Num(c) \in Nat /\ Num(c) + Size[ty] <= 4 /\ Size[ty] \in Nat
      BY <2>1, PlaceIs, SizeIs
    <3>2. Bytes[l] = Size[ty]
      BY <2>1, CarrierOf
    <3>3. b \in BytesOf(ty)
      <4> HIDE DEF c
      <4>1. Read(g.mem, Num(c), Size[ty]) \in [1 .. Size[ty] -> Digit]
        BY <3>1, MemoryRead
      <4> QED BY <2>1, <4>1 DEF BytesOf
    <3>4. ASSUME r.e.bad = "" PROVE r.v.b = b
      <4>1. p.v.b = c
        BY <2>4, <2>5, <3>4
      <4> HIDE DEF p, c, l
      <4>2. Num(p.v.b) \in Nat /\ Num(p.v.b) + Size[ty] <= 4
        BY <3>1, <4>1
      <4> DEFINE f == p.e
                 v == p.v
      <4>3. InState(f) /\ Num(v.b) \in Nat /\ Num(v.b) + Size[ty] <= 4
        BY <2>4, <4>2
      <4> HIDE DEF f, v
      <4>4. load(f, v, l).v.b = Read(g.mem, Num(v.b), Size[ty])
        BY <2>1, <3>2, <4>3, LoadBytes
      <4> QED BY <4>1, <4>4, Zenon DEF f, v
    <3> QED BY <3>3, <3>4
  <2> HIDE DEF r, b
  <2>7. Yields(e, r, ty, b)
    BY <2>5, <2>6 DEF Yields
  <2> QED BY <2>1, <2>2, <2>7
<1>2. ASSUME NEW a, a = [k |-> "Const", ty |-> "I16", b |-> <<0, 1>>],
             x = [k |-> "Load", ty |-> "I8", addr |-> a]
      PROVE  x.ty \in Types /\ Yields(e, EmitLeaf(e, x), x.ty, EvalLeaf(g, x)) /\ x.k = "Load"
  <2>1. x.k = "Load" /\ x.ty = "I8" /\ x.addr = a /\ "I8" \in Types
    BY <1>2 DEF Types
  <2>2. a.k = "Const" /\ a.ty = "I16" /\ a.b = <<0, 1>>
    BY <1>2
  <2>3. ValueOf(g, a) = <<0, 1>>
    BY <2>2 DEF ValueOf
  <2>4. Num(<<0, 1>>) = SysAddr
    BY DEF Num, Digits, SysAddr
  <2> DEFINE p == EmitAtom(e, a)
             r == load(p.e, p.v, "i8")
             b == Read(g.mem, SysAddr, 1)
  <2>5. p.e = e /\ p.v = Constant("i16", a.b)
    BY <2>2, ConstAtom
  <2>6. p.v.const = TRUE /\ p.v.b = a.b
    BY <2>5 DEF Constant
  <2>7. EmitLeaf(e, x) = r /\ LLVMType["I8"] = "i8"
    BY <2>1 DEF EmitLeaf, EmitLoad, LLVMType
  <2>8. EvalLeaf(g, x) = b
    BY <2>1, <2>3, <2>4 DEF EvalLeaf, Size
  <2>9. Still(e, p.e) /\ InState(p.e)
    BY <2>5, StillSelf
  <2>10. Still(e, r.e) /\ Carries(r.v, "I8") /\ Dominates(r.v.def, e)
    <3> HIDE DEF p
    <3>1. /\ Still(e, load(p.e, p.v, LLVMType["I8"]).e) /\ Carries(load(p.e, p.v, LLVMType["I8"]).v, "I8")
          /\ Dominates(load(p.e, p.v, LLVMType["I8"]).v.def, e)
      BY <2>1, <2>9, LoadThrough
    <3> QED BY <2>7, <3>1, Zenon
  <2>11. Num(p.v.b) = SysAddr
    BY <2>2, <2>4, <2>6
  <2>12. Agreed => r.v.b = b /\ b \in BytesOf("I8")
    BY <2>6, <2>9, <2>11, SysLoad
  <2> HIDE DEF p, r, b
  <2>13. Yields(e, r, "I8", b)
    BY <2>10, <2>12 DEF Yields
  <2> QED BY <2>1, <2>7, <2>8, <2>13
<1> DEFINE S == [k |-> "Const", ty |-> "I16", b |-> <<0, 1>>]
<1>3. \/ \E ty \in {"I8", "I16"} : \E a \in Places(ty) : x = [k |-> "Load", ty |-> ty, addr |-> a]
      \/ x = [k |-> "Load", ty |-> "I8", addr |-> S]
  <2> DEFINE L == UNION {{[k |-> "Load", ty |-> ty, addr |-> a] : a \in Places(ty)} : ty \in {"I8", "I16"}}
             M == [k |-> "Load", ty |-> "I8", addr |-> S]
  <2>1. Loads = L \cup {M}
    BY DEF Loads
  <2>2. x \in L => \E ty \in {"I8", "I16"} : \E a \in Places(ty) : x = [k |-> "Load", ty |-> ty, addr |-> a]
    BY Zenon
  <2> HIDE DEF L
  <2> QED BY <2>1, <2>2, Zenon
<1> HIDE DEF S
<1>4. S = [k |-> "Const", ty |-> "I16", b |-> <<0, 1>>]
  BY DEF S
<1> QED BY <1>1, <1>2, <1>3, <1>4

LEMMA OpBytes ==
    ASSUME NEW o \in DOMAIN ArgType, NEW c \in BytesOf(ArgType[o])
    PROVE  ApplyOp(o, c) \in BytesOf(OpType[o])
<1>1. CASE o = "CmpNEZ8"
  <2>1. OpType[o] = "I1" /\ ApplyOp(o, c) = <<IF c[1] = 0 THEN 0 ELSE 1>>
    BY <1>1 DEF OpType, ApplyOp
  <2>2. <<IF c[1] = 0 THEN 0 ELSE 1>> \in [1 .. 1 -> 0 .. 1]
    OBVIOUS
  <2> QED BY <2>1, <2>2, FlagBytes
<1>2. CASE o = "Lanes16"
  <2>1. OpType[o] = "I16" /\ c \in [1 .. 2 -> Digit]
    BY <1>2, WordBytes DEF OpType, ArgType
  <2>2. ApplyOp(o, c) = [i \in 1 .. 2 |-> 3 - c[i]]
    BY <1>2, <2>1 DEF ApplyOp, Digits
  <2>3. [i \in 1 .. 2 |-> 3 - c[i]] \in [1 .. 2 -> Digit]
    BY <2>1 DEF Digit
  <2> QED BY <2>1, <2>2, <2>3, WordBytes
<1>3. CASE o = "LanesV"
  <2>1. OpType[o] = "V" /\ c \in [1 .. 4 -> Digit]
    BY <1>3, VectorBytes DEF OpType, ArgType
  <2>2. ApplyOp(o, c) = [i \in 1 .. 4 |-> 3 - c[i]]
    BY <1>3, <2>1 DEF ApplyOp, Digits
  <2>3. [i \in 1 .. 4 |-> 3 - c[i]] \in [1 .. 4 -> Digit]
    BY <2>1 DEF Digit
  <2> QED BY <2>1, <2>2, <2>3, VectorBytes
<1>4. o \in {"CmpNEZ8", "Lanes16", "LanesV"}
  BY DEF ArgType
<1> QED BY <1>1, <1>2, <1>3, <1>4

\* A new value of type l made of what was emitted last.
LEMMA FreshYields ==
    ASSUME NEW e, NEW f, Still(e, f), NEW ty, NEW l \in Carrier[ty], NEW b, NEW c,
           Agreed => c \in BytesOf(ty) /\ (f.bad = "" => b = c)
    PROVE  Yields(e, Fresh(f, l, b), ty, c)
<1> DEFINE r == Fresh(f, l, b)
<1>1. f.blk \in Seq(Names) /\ f.blk = e.blk
  BY DEF Still, InState
<1>2. r.e = f /\ Fields(r.v) /\ r.v.ty = l /\ r.v.b = b /\ r.v.def = f.blk
  BY <1>1 DEF Fresh, Fields
<1> HIDE DEF r
<1>3. IsPrefix(e.blk, e.blk)
  BY <1>1, PrefixSelf
<1>4. Dominates(r.v.def, e)
  BY <1>1, <1>2, <1>3 DEF Dominates
<1>5. Carries(r.v, ty)
  BY <1>2 DEF Carries
<1>6. Yields(e, r, ty, c)
  BY <1>2, <1>4, <1>5 DEF Yields
<1> QED BY <1>6 DEF r

LEMMA OpYields ==
    ASSUME em.blk \in Seq(Names), Temps, NEW e, InState(e), NEW x \in Ops
    PROVE  x.ty \in Types /\ Yields(e, EmitLeaf(e, x), x.ty, EvalLeaf(g, x)) /\ x.k = "Op"
<1>1. PICK o \in DOMAIN ArgType : \E a \in Atoms(ArgType[o]) :
        x = [k |-> "Op", op |-> o, x |-> a, ty |-> OpType[o]]
  BY Zenon DEF Ops
<1>2. PICK a \in Atoms(ArgType[o]) : x = [k |-> "Op", op |-> o, x |-> a, ty |-> OpType[o]]
  BY <1>1
<1>3. x.k = "Op" /\ x.op = o /\ x.x = a /\ x.ty = OpType[o]
  BY <1>2
<1>4. ArgType[o] \in Types /\ OpType[o] \in Types /\ OpLLVMType[o] \in Carrier[OpType[o]]
  BY DEF ArgType, OpType, OpLLVMType, Carrier, Types
<1> DEFINE i == EmitAtom(e, a)
           c == ValueOf(g, a)
           l == OpLLVMType[o]
           ty == OpType[o]
           b == ApplyOp(o, c)
           r == Fresh(i.e, l, ApplyOp(o, i.v.b))
<1>5. EmitLeaf(e, x) = r /\ EvalLeaf(g, x) = b
  BY <1>3 DEF EmitLeaf, EmitOp, EvalLeaf
<1>6. Yields(e, i, ArgType[o], c)
  BY <1>4, AtomYields
<1> HIDE DEF i, c, l, ty
<1>7. Still(e, i.e)
  BY <1>6 DEF Yields
<1>8. Agreed => b \in BytesOf(ty) /\ (i.e.bad = "" => ApplyOp(o, i.v.b) = b)
  BY <1>6, OpBytes DEF Yields, ty
<1>9. l \in Carrier[ty]
  BY <1>4 DEF l, ty
<1> DEFINE d == ApplyOp(o, i.v.b)
<1> HIDE DEF b, d
<1>10. Yields(e, Fresh(i.e, l, d), ty, b)
  BY <1>7, <1>8, <1>9, FreshYields DEF d
<1>11. r = Fresh(i.e, l, d)
  BY DEF d
<1> HIDE DEF r
<1> QED BY <1>3, <1>4, <1>5, <1>10, <1>11 DEF ty

LEMMA CCallYields ==
    ASSUME em.blk \in Seq(Names), Temps, NEW e, InState(e), NEW x \in CCalls
    PROVE  x.ty \in Types /\ Yields(e, EmitLeaf(e, x), x.ty, EvalLeaf(g, x)) /\ x.k = "CCall"
<1>1. PICK a \in Atoms("I16"), b \in Consts("I16") :
        x = [k |-> "CCall", x |-> a, y |-> b, ty |-> "I16"]
  BY DEF CCalls
<1>2. x.k = "CCall" /\ x.x = a /\ x.y = b /\ x.ty = "I16"
  BY <1>1
<1> DEFINE p == EmitAtom(e, a)
           q == EmitAtom(p.e, b)
           f1 == Integer(q.e, p.v)
           f == Integer(f1, q.v)
           c == ValueOf(g, a)
           d == ValueOf(g, b)
           h == Helper(p.v.b, q.v.b)
           r == Fresh(f, "i16", h)
<1>3. EmitLeaf(e, x) = r /\ EvalLeaf(g, x) = Helper(c, d)
  BY <1>2 DEF EmitLeaf, EmitCCall, EvalLeaf
<1>4. "I16" \in Types /\ "i16" \in Carrier["I16"] /\ b \in Atoms("I16")
  BY DEF Types, Carrier, Atoms
<1>5. Yields(e, p, "I16", c)
  BY <1>4, AtomYields
<1> HIDE DEF p, c
<1>6. InState(p.e)
  BY <1>5 DEF Yields, Still
<1>7. Yields(p.e, q, "I16", d)
  BY <1>4, <1>6, AtomYields
<1> HIDE DEF q, d
<1>8. Still(e, p.e) /\ Still(p.e, q.e) /\ InState(q.e)
  BY <1>5, <1>7 DEF Yields, Still
<1>9. Still(q.e, f1) /\ InState(f1)
  BY <1>8, IntegerIs DEF Still
<1>10. Still(f1, f)
  BY <1>9, IntegerIs
<1> HIDE DEF f1, f
<1>11. Still(e, f) /\ (f.bad = "" => p.e.bad = "" /\ q.e.bad = "")
  BY <1>8, <1>9, <1>10 DEF Still
<1>12. Agreed => Helper(c, d) \in BytesOf("I16") /\ (f.bad = "" => h = Helper(c, d))
  <2> SUFFICES ASSUME Agreed PROVE Helper(c, d) \in BytesOf("I16") /\ (f.bad = "" => h = Helper(c, d))
    OBVIOUS
  <2>1. c \in BytesOf("I16") /\ d \in BytesOf("I16") /\ (f.bad = "" => p.v.b = c /\ q.v.b = d)
    BY <1>5, <1>7, <1>11 DEF Yields
  <2>2. c[1] \in Digit /\ d[1] \in Digit
    BY <2>1, WordIs
  <2>3. <<c[1], d[1]>> \in [1 .. 2 -> Digit]
    BY <2>2
  <2>4. Helper(c, d) \in BytesOf("I16")
    BY <2>3, WordBytes DEF Helper
  <2> QED BY <2>1, <2>4
<1> DEFINE hh == Helper(c, d)
<1> HIDE DEF h, hh
<1>13. Yields(e, Fresh(f, "i16", h), "I16", hh)
  BY <1>4, <1>11, <1>12, FreshYields DEF hh
<1> HIDE DEF r
<1>14. EmitLeaf(e, x) = Fresh(f, "i16", h) /\ EvalLeaf(g, x) = hh
  BY <1>3 DEF r, hh
<1> QED BY <1>2, <1>4, <1>13, <1>14

\* The expressions that open no block.
Leaf(ty) ==
    Atoms(ty) \cup {x \in Gets \cup GetIs \cup Loads \cup Ops \cup CCalls : x.ty = ty}

LEMMA LeafYields ==
    ASSUME em.blk \in Seq(Names), Temps, NEW e, InState(e), NEW ty \in Types, NEW x \in Leaf(ty)
    PROVE  Yields(e, EmitLeaf(e, x), ty, EvalLeaf(g, x)) /\ x.k # "ITE"
<1>1. CASE x \in Atoms(ty)
  <2>1. x.k \in {"RdTmp", "Const"}
    BY <1>1, AtomType
  <2>2. EmitLeaf(e, x) = EmitAtom(e, x) /\ EvalLeaf(g, x) = ValueOf(g, x)
    BY <2>1 DEF EmitLeaf, EvalLeaf
  <2>3. Yields(e, EmitAtom(e, x), ty, ValueOf(g, x))
    BY <1>1, AtomYields
  <2> QED BY <2>1, <2>2, <2>3
<1>2. CASE x \in Gets /\ x.ty = ty
  BY <1>2, GetYields
<1>3. CASE x \in GetIs /\ x.ty = ty
  BY <1>3, GetIYields
<1>4. CASE x \in Loads /\ x.ty = ty
  BY <1>4, LoadYields
<1>5. CASE x \in Ops /\ x.ty = ty
  BY <1>5, OpYields
<1>6. CASE x \in CCalls /\ x.ty = ty
  BY <1>6, CCallYields
<1> QED BY <1>1, <1>2, <1>3, <1>4, <1>5, <1>6 DEF Leaf

\* A block opened from e, or where what was opened from it meets again.
LEMMA AtIs ==
    ASSUME em.blk \in Seq(Names), NEW e, InState(e), NEW f, InState(f), NEW label \in Names
    PROVE  /\ InState(At(f, Append(e.blk, label))) /\ At(f, Append(e.blk, label)).bad = f.bad
           /\ At(f, Append(e.blk, label)).blk = Append(e.blk, label)
           /\ IsPrefix(e.blk, At(f, Append(e.blk, label)).blk)
<1> DEFINE b == Append(e.blk, label)
           h == At(f, b)
<1>1. e.blk \in Seq(Names) /\ Len(e.blk) > 0 /\ IsPrefix(em.blk, e.blk) /\ IsPrefix(e.blk, e.blk)
  BY PrefixSelf DEF InState
<1>2. b \in Seq(Names) /\ Len(b) > 1 /\ Len(b) # 1 /\ Len(b) > 0
  BY <1>1
<1>3. IsPrefix(em.blk, b) /\ IsPrefix(e.blk, b)
  BY <1>1, PrefixAppend
<1> HIDE DEF b
<1>4. /\ h \in [blk : Seq(Names), vals : {em.vals}, gep : {h.gep}, cast : {h.cast}, bad : KnownIllFormed]
      /\ h.blk = b /\ h.gep = f.gep /\ h.bad = f.bad
  BY <1>2 DEF At, InState
<1> HIDE DEF h
<1>5. Len(b) # 1 /\ Len(b) > 0
  BY <1>2, Zenon
<1>6. Cached(f)
  BY DEF InState
<1>7. Cached(h)
  <2> SUFFICES ASSUME NEW k \in DOMAIN h.gep
               PROVE  h.gep[k].at = (k[1] \div k[2]) * k[2] /\ (Len(h.blk) = 1 => h.gep[k].def = h.blk)
    BY DEF Cached
  <2>1. k \in DOMAIN f.gep /\ h.gep[k] = f.gep[k]
    BY <1>4
  <2> QED BY <1>4, <1>5, <1>6, <2>1 DEF Cached
<1>8. InState(h)
  BY <1>3, <1>4, <1>5, <1>7 DEF InState
<1> QED BY <1>3, <1>4, <1>8 DEF h, b

LEMMA OpenIsAt == \A e, label : Open(e, label) = At(e, Append(e.blk, label))
  BY DEF Open, At

\* r, emitted from e, is a value of type ty whose bytes are b, in a block that
\* e leads to.
Makes(e, r, ty, b) ==
    /\ InState(r.e) /\ IsPrefix(e.blk, r.e.blk) /\ (r.e.bad = "" => e.bad = "")
    /\ Carries(r.v, ty) /\ (r.e.bad = "" => Dominates(r.v.def, r.e))
    /\ Agreed => b \in BytesOf(ty) /\ (r.e.bad = "" => r.v.b = b)

LEMMA YieldsMakes ==
    ASSUME NEW e, NEW r, NEW ty, NEW b, Yields(e, r, ty, b)
    PROVE  Makes(e, r, ty, b)
<1>1. InState(r.e) /\ r.e.blk = e.blk /\ (r.e.bad = "" => e.bad = "")
  BY DEF Yields, Still
<1>2. IsPrefix(r.e.blk, r.e.blk)
  BY <1>1, PrefixSelf DEF InState
<1>3. r.e.bad = "" => Dominates(r.v.def, r.e)
  BY <1>1 DEF Yields, Dominates
<1> QED BY <1>1, <1>2, <1>3 DEF Yields, Makes

\* Of two values of a guest type the flattened LLVM types are equal, unless
\* they are wide.
LEMMA Flattened ==
    ASSUME NEW ty \in Types, NEW v, Carries(v, ty)
    PROVE  /\ Carries(flattenType(v), ty) /\ flattenType(v).b = v.b
           /\ ty # "V" => flattenType(v).ty = LLVMType[ty]
           /\ ty = "V" => Bytes[flattenType(v).ty] = 4
<1>1. v \in [ty : {v.ty}, b : {v.b}, def : Seq(Names), const : {v.const}] /\ v.ty \in Carrier[ty]
  BY DEF Carries, Fields
<1> DEFINE w == flattenType(v)
<1>2. CASE v.ty = "v2x8"
  <2>1. w = [v EXCEPT !.ty = "i16"]
    BY <1>2 DEF flattenType
  <2>2. ty = "I16"
    BY <1>1, <1>2 DEF Carrier, Types
  <2>3. w \in [ty : {w.ty}, b : {w.b}, def : Seq(Names), const : {w.const}] /\ w.ty = "i16" /\ w.b = v.b
    BY <1>1, <2>1
  <2> HIDE DEF w
  <2>4. Fields(w)
    BY <2>3 DEF Fields
  <2> QED BY <2>2, <2>3, <2>4 DEF Carries, Carrier, LLVMType, w
<1>3. CASE v.ty # "v2x8"
  <2>1. w = v
    BY <1>3 DEF flattenType
  <2>2. (ty # "V" => v.ty = LLVMType[ty]) /\ (ty = "V" => Bytes[v.ty] = 4)
    BY <1>1, <1>3 DEF Carrier, LLVMType, Bytes, Types
  <2> QED BY <2>1, <2>2
<1> QED BY <1>2, <1>3

LEMMA MuxMakes ==
    ASSUME em.blk \in Seq(Names), NEW e, InState(e), NEW ty \in Types,
           NEW c, NEW cb, Yields(e, c, "I1", cb),
           NEW nz, NEW tb, Makes(MuxThen(c), nz, ty, tb),
           NEW z, NEW fb, Makes(MuxElse(c, nz), z, ty, fb)
    PROVE  Makes(e, EmitMux(c, nz, z), ty, IF cb[1] # 0 THEN tb ELSE fb)
<1> DEFINE nzv == flattenType(nz.v)
           zv == flattenType(z.v)
           merge == At(z.e, Append(c.e.blk, "mux0X_merge"))
           ok2 == Check(merge, zv.ty = nzv.ty, IF Bytes[zv.ty] > 2 THEN "wide phi" ELSE "type")
           b == IF c.v.b[1] = 0 THEN zv.b ELSE nzv.b
           r == EmitMux(c, nz, z)
           d == IF cb[1] # 0 THEN tb ELSE fb
<1>1. r = Fresh(ok2, zv.ty, b)
  BY DEF EmitMux, ArmEnds, Check
<1>2. InState(c.e) /\ c.e.blk = e.blk /\ (c.e.bad = "" => e.bad = "")
  BY DEF Yields, Still
<1>3. InState(nz.e) /\ InState(z.e) /\ Carries(nz.v, ty) /\ Carries(z.v, ty)
  BY DEF Makes
<1>4. "mux0X_merge" \in Names /\ "mux0X_nonzero" \in Names /\ "mux0X_zero" \in Names
  BY DEF Names, Labels
<1> DEFINE ce == c.e
           ze == z.e
           ne == nz.e
<1>5. InState(ce) /\ InState(ze) /\ InState(ne) /\ ce.blk = e.blk
  BY <1>2, <1>3
<1>6. /\ InState(merge) /\ merge.bad = z.e.bad /\ IsPrefix(e.blk, merge.blk)
      /\ MuxThen(c).bad = c.e.bad /\ MuxElse(c, nz).bad = nz.e.bad
  <2>1. /\ merge = At(ze, Append(ce.blk, "mux0X_merge"))
        /\ MuxThen(c) = At(ce, Append(ce.blk, "mux0X_nonzero"))
        /\ MuxElse(c, nz) = At(ne, Append(ce.blk, "mux0X_zero"))
    BY OpenIsAt DEF MuxThen, MuxElse
  <2> HIDE DEF ce, ze, ne, merge
  <2>2. /\ InState(merge) /\ merge.bad = ze.bad /\ IsPrefix(ce.blk, merge.blk)
    BY <1>4, <1>5, <2>1, AtIs
  <2>3. At(ce, Append(ce.blk, "mux0X_nonzero")).bad = ce.bad
    BY <1>4, <1>5, AtIs
  <2>4. At(ne, Append(ce.blk, "mux0X_zero")).bad = ne.bad
    BY <1>4, <1>5, AtIs
  <2>5. MuxThen(c).bad = ce.bad /\ MuxElse(c, nz).bad = ne.bad
    BY <2>1, <2>3, <2>4, Zenon
  <2> QED BY <1>5, <2>2, <2>5 DEF ce, ze, ne
<1>7. z.e.bad = "" => nz.e.bad = "" /\ c.e.bad = "" /\ e.bad = ""
  BY <1>2, <1>6 DEF Makes
<1>8. /\ Carries(nzv, ty) /\ Carries(zv, ty) /\ nzv.b = nz.v.b /\ zv.b = z.v.b
      /\ zv.ty # nzv.ty => Bytes[zv.ty] = 4
  BY <1>3, Flattened
<1>9. zv.ty # nzv.ty => ok2 = Fail(merge, "wide phi")
  <2> HIDE DEF merge, zv, nzv
  <2>1. Bytes[zv.ty] = 4 => Bytes[zv.ty] > 2
    OBVIOUS
  <2> QED BY <1>8, <2>1 DEF Check
<1>10. zv.ty = nzv.ty => ok2 = merge
  BY DEF Check
<1> HIDE DEF merge, ok2, zv, nzv
<1>11. Still(merge, ok2)
  <2>1. "wide phi" \in KnownIllFormed \ {""}
    BY DEF KnownIllFormed
  <2>2. Still(merge, Fail(merge, "wide phi")) /\ Still(merge, merge)
    BY <1>6, <2>1, FailIs, StillSelf
  <2> QED BY <1>9, <1>10, <2>2, Zenon
<1>12. Agreed => d \in BytesOf(ty) /\ (ok2.bad = "" => b = d)
  <2> SUFFICES ASSUME Agreed PROVE d \in BytesOf(ty) /\ (ok2.bad = "" => b = d)
    OBVIOUS
  <2>1. tb \in BytesOf(ty) /\ fb \in BytesOf(ty)
    BY DEF Makes
  <2>2. d \in BytesOf(ty)
    BY <2>1
  <2>3. ASSUME ok2.bad = "" PROVE b = d
    <3>1. z.e.bad = "" /\ nz.e.bad = "" /\ c.e.bad = ""
      BY <1>6, <1>7, <1>11, <2>3 DEF Still
    <3>2. z.v.b = fb /\ nz.v.b = tb /\ c.v.b = cb
      BY <3>1 DEF Makes, Yields
    <3>3. zv.b = fb /\ nzv.b = tb /\ c.v.b[1] = cb[1]
      BY <1>8, <3>2
    <3> QED BY <3>3
  <2> QED BY <2>2, <2>3
<1> HIDE DEF b, d, r
<1>13. zv.ty \in Carrier[ty]
  BY <1>8 DEF Carries
<1> DEFINE lt == zv.ty
<1>14. lt \in Carrier[ty]
  BY <1>13
<1> HIDE DEF lt
<1>15. Yields(merge, Fresh(ok2, lt, b), ty, d)
  BY <1>11, <1>12, <1>14, FreshYields
<1>16. r = Fresh(ok2, lt, b)
  BY <1>1 DEF lt
<1>17. Yields(merge, r, ty, d)
  BY <1>15, <1>16, Zenon
<1>18. Makes(merge, r, ty, d)
  BY <1>17, YieldsMakes
<1>19. r.e.blk = merge.blk
  BY <1>17 DEF Yields, Still
<1>20. Makes(e, r, ty, d)
  BY <1>6, <1>7, <1>18, <1>19 DEF Makes
<1> QED BY <1>20 DEF r, d

LEMMA MuxOpens ==
    ASSUME em.blk \in Seq(Names), NEW e, NEW c, NEW ty, NEW b, Yields(e, c, ty, b)
    PROVE  /\ InState(MuxThen(c))
           /\ \A nz : InState(nz.e) => InState(MuxElse(c, nz))
<1> DEFINE ce == c.e
<1>1. InState(ce)
  BY DEF Yields, Still
<1>2. "mux0X_nonzero" \in Names /\ "mux0X_zero" \in Names
  BY DEF Names, Labels
<1>3. MuxThen(c) = At(ce, Append(ce.blk, "mux0X_nonzero"))
  BY OpenIsAt DEF MuxThen
<1> HIDE DEF ce
<1>4. InState(At(ce, Append(ce.blk, "mux0X_nonzero")))
  BY <1>1, <1>2, AtIs
<1>5. ASSUME NEW nz, InState(nz.e) PROVE InState(MuxElse(c, nz))
  <2> DEFINE ne == nz.e
  <2>1. MuxElse(c, nz) = At(ne, Append(ce.blk, "mux0X_zero"))
    BY DEF MuxElse, ce
  <2>2. InState(ne)
    BY <1>5
  <2> HIDE DEF ne
  <2>3. InState(At(ne, Append(ce.blk, "mux0X_zero")))
    BY <1>1, <1>2, <2>2, AtIs
  <2> QED BY <2>1, <2>3, Zenon
<1> QED BY <1>3, <1>4, <1>5, Zenon

\* Conditionals, and those with conditionals in their arms.
Arm(ty) == Leaf(ty) \cup Mux(ty, Leaf(ty))
Whole(ty) == Leaf(ty) \cup Mux(ty, Arm(ty))

LEMMA LeafMakes ==
    ASSUME em.blk \in Seq(Names), Temps, NEW e, InState(e), NEW ty \in Types, NEW x \in Leaf(ty)
    PROVE  Makes(e, EmitLeaf(e, x), ty, EvalLeaf(g, x))
<1> DEFINE r == EmitLeaf(e, x)
           b == EvalLeaf(g, x)
<1>1. Yields(e, r, ty, b)
  BY LeafYields
<1> HIDE DEF r, b
<1>2. Makes(e, r, ty, b)
  BY <1>1, YieldsMakes
<1> QED BY <1>2 DEF r, b

LEMMA ArmMakes ==
    ASSUME em.blk \in Seq(Names), Temps, NEW e, InState(e), NEW ty \in Types, NEW x \in Arm(ty)
    PROVE  Makes(e, EmitArm(e, x), ty, EvalArm(g, x))
<1>1. CASE x \in Leaf(ty)
  <2>1. Yields(e, EmitLeaf(e, x), ty, EvalLeaf(g, x)) /\ x.k # "ITE"
    BY <1>1, LeafYields
  <2>2. EmitArm(e, x) = EmitLeaf(e, x) /\ EvalArm(g, x) = EvalLeaf(g, x)
    BY <2>1 DEF EmitArm, EvalArm
  <2> DEFINE r == EmitLeaf(e, x)
             b == EvalLeaf(g, x)
  <2>3. Yields(e, r, ty, b)
    BY <2>1
  <2> HIDE DEF r, b
  <2>4. Makes(e, r, ty, b)
    BY <2>3, YieldsMakes
  <2> QED BY <2>2, <2>4 DEF r, b
<1>2. CASE x \in Mux(ty, Leaf(ty))
  <2>1. PICK cond \in Atoms("I1"), f \in Leaf(ty), t \in Leaf(ty) :
          x = [k |-> "ITE", ty |-> ty, cond |-> cond, iffalse |-> f, iftrue |-> t]
    BY <1>2 DEF Mux
  <2>2. x.k = "ITE" /\ x.cond = cond /\ x.iffalse = f /\ x.iftrue = t
    BY <2>1
  <2> DEFINE c == EmitAtom(e, cond)
             nz == EmitLeaf(MuxThen(c), t)
             z == EmitLeaf(MuxElse(c, nz), f)
             cb == ValueOf(g, cond)
             tb == EvalLeaf(g, t)
             fb == EvalLeaf(g, f)
  <2>3. EmitArm(e, x) = EmitMux(c, nz, z) /\ EvalArm(g, x) = IF cb[1] # 0 THEN tb ELSE fb
    BY <2>2 DEF EmitArm, EvalArm
  <2>4. Yields(e, c, "I1", cb)
    BY AtomYields DEF Types
  <2> HIDE DEF c, cb
  <2> DEFINE m == MuxThen(c)
  <2>5. InState(m)
    BY <2>4, MuxOpens
  <2> HIDE DEF m
  <2>6. Makes(m, EmitLeaf(m, t), ty, tb)
    BY <2>5, LeafMakes
  <2>7. Makes(m, nz, ty, tb)
    BY <2>6 DEF m
  <2> HIDE DEF nz, tb
  <2> DEFINE n == MuxElse(c, nz)
  <2>8. InState(n)
    <3>1. InState(nz.e)
      BY <2>7 DEF Makes
    <3> QED BY <2>4, <3>1, MuxOpens, Zenon
  <2> HIDE DEF n
  <2>9. Makes(n, EmitLeaf(n, f), ty, fb)
    BY <2>8, LeafMakes
  <2>10. Makes(n, z, ty, fb)
    BY <2>9 DEF n
  <2> HIDE DEF z, fb
  <2>11. Makes(e, EmitMux(c, nz, z), ty, IF cb[1] # 0 THEN tb ELSE fb)
    BY <2>4, <2>7, <2>10, MuxMakes DEF m, n
  <2> QED BY <2>3, <2>11
<1> QED BY <1>1, <1>2 DEF Arm

LEMMA WholeMakes ==
    ASSUME em.blk \in Seq(Names), Temps, NEW e, InState(e), NEW ty \in Types, NEW x \in Whole(ty)
    PROVE  Makes(e, Emit(e, x), ty, Eval(g, x))
<1>1. CASE x \in Leaf(ty)
  <2>1. Yields(e, EmitLeaf(e, x), ty, EvalLeaf(g, x)) /\ x.k # "ITE"
    BY <1>1, LeafYields
  <2>2. Emit(e, x) = EmitLeaf(e, x) /\ Eval(g, x) = EvalLeaf(g, x)
    BY <2>1 DEF Emit, Eval
  <2> DEFINE r == EmitLeaf(e, x)
             b == EvalLeaf(g, x)
  <2>3. Yields(e, r, ty, b)
    BY <2>1
  <2> HIDE DEF r, b
  <2>4. Makes(e, r, ty, b)
    BY <2>3, YieldsMakes
  <2> QED BY <2>2, <2>4 DEF r, b
<1>2. CASE x \in Mux(ty, Arm(ty))
  <2>1. PICK cond \in Atoms("I1"), f \in Arm(ty), t \in Arm(ty) :
          x = [k |-> "ITE", ty |-> ty, cond |-> cond, iffalse |-> f, iftrue |-> t]
    BY <1>2 DEF Mux
  <2>2. x.k = "ITE" /\ x.cond = cond /\ x.iffalse = f /\ x.iftrue = t
    BY <2>1
  <2> DEFINE c == EmitAtom(e, cond)
             nz == EmitArm(MuxThen(c), t)
             z == EmitArm(MuxElse(c, nz), f)
             cb == ValueOf(g, cond)
             tb == EvalArm(g, t)
             fb == EvalArm(g, f)
  <2>3. Emit(e, x) = EmitMux(c, nz, z) /\ Eval(g, x) = IF cb[1] # 0 THEN tb ELSE fb
    <3>1. Emit(e, x) = EmitMux(c, nz, z)
      BY <2>2 DEF Emit
    <3>2. Eval(g, x) = IF cb[1] # 0 THEN tb ELSE fb
      BY <2>2 DEF Eval
    <3> QED BY <3>1, <3>2
  <2>4. Yields(e, c, "I1", cb)
    BY AtomYields DEF Types
  <2> HIDE DEF c, cb
  <2> DEFINE m == MuxThen(c)
  <2>5. InState(m)
    BY <2>4, MuxOpens
  <2> HIDE DEF m
  <2>6. Makes(m, EmitArm(m, t), ty, tb)
    BY <2>5, ArmMakes
  <2>7. Makes(m, nz, ty, tb)
    BY <2>6 DEF m
  <2> HIDE DEF nz, tb
  <2> DEFINE n == MuxElse(c, nz)
  <2>8. InState(n)
    <3>1. InState(nz.e)
      BY <2>7 DEF Makes
    <3> QED BY <2>4, <3>1, MuxOpens, Zenon
  <2> HIDE DEF n
  <2>9. Makes(n, EmitArm(n, f), ty, fb)
    BY <2>8, ArmMakes
  <2>10. Makes(n, z, ty, fb)
    BY <2>9 DEF n
  <2> HIDE DEF z, fb
  <2>11. Makes(e, EmitMux(c, nz, z), ty, IF cb[1] # 0 THEN tb ELSE fb)
    BY <2>4, <2>7, <2>10, MuxMakes DEF m, n
  <2> QED BY <2>3, <2>11
<1> QED BY <1>1, <1>2 DEF Whole

\* Every expression of a statement is one of these.
LEMMA ExprIs ==
    ASSUME NEW x \in Exprs
    PROVE  ExprType(x) \in Types /\ x \in Whole(ExprType(x))
<1>1. CASE x \in Consts("I1")
  <2>1. x.ty = "I1" /\ x.k = "Const" /\ x \in Atoms("I1") /\ "I1" \in Types
    BY <1>1, ConstShape DEF Types, Atoms
  <2> QED BY <2>1 DEF ExprType, Whole, Leaf
<1>2. CASE x \in Tmps("I16")
  <2>1. PICK t \in DOMAIN g.tmp : g.tmp[t].ty = "I16" /\ x = [k |-> "RdTmp", t |-> t]
    BY <1>2 DEF Tmps
  <2>2. ExprType(x) = "I16" /\ x \in Atoms("I16") /\ "I16" \in Types
    BY <1>2, <2>1 DEF ExprType, Types, Atoms
  <2> QED BY <2>2 DEF Whole, Leaf
<1>3. CASE x \in Gets
  <2>1. x.k = "Get" /\ x.ty \in Types
    BY <1>3 DEF Gets, Types
  <2> QED BY <1>3, <2>1 DEF ExprType, Whole, Leaf
<1>4. CASE x \in GetIs
  <2>1. x.k = "GetI" /\ x.ty \in Types
    BY <1>4 DEF GetIs, Arrays, Types
  <2> QED BY <1>4, <2>1 DEF ExprType, Whole, Leaf
<1>5. CASE x \in Loads
  <2>1. x.k = "Load" /\ x.ty \in Types
    BY <1>5 DEF Loads, Types
  <2> QED BY <1>5, <2>1 DEF ExprType, Whole, Leaf
<1>6. CASE x \in Ops
  <2>1. x.k = "Op" /\ x.ty \in Types
    BY <1>6 DEF Ops, OpType, ArgType, Types
  <2> QED BY <1>6, <2>1 DEF ExprType, Whole, Leaf
<1>7. CASE x \in CCalls
  <2>1. x.k = "CCall" /\ x.ty \in Types
    BY <1>7 DEF CCalls, Types
  <2> QED BY <1>7, <2>1 DEF ExprType, Whole, Leaf
<1>8. CASE x \in Muxes
  <2>1. ASSUME NEW ty \in Types, NEW S \in SUBSET Leaf(ty), x \in Mux(ty, S)
        PROVE  ExprType(x) \in Types /\ x \in Whole(ExprType(x))
    <3>1. PICK c \in Atoms("I1"), f \in S, t \in S :
            x = [k |-> "ITE", ty |-> ty, cond |-> c, iffalse |-> f, iftrue |-> t]
      BY <2>1 DEF Mux
    <3>2. f \in Arm(ty) /\ t \in Arm(ty) /\ ExprType(x) = ty
      BY <3>1 DEF Arm, ExprType
    <3>3. x \in Mux(ty, Arm(ty))
      BY <3>1, <3>2 DEF Mux
    <3> QED BY <3>2, <3>3 DEF Whole
  <2>2. /\ Arms("V") \in SUBSET Leaf("V")
        /\ Tmps("I16") \cup {y \in Gets : y.ty = "I16"} \in SUBSET Leaf("I16")
        /\ "V" \in Types /\ "I16" \in Types
    BY DEF Arms, Leaf, Atoms, Types
  <2> QED BY <1>8, <2>1, <2>2 DEF Muxes
<1>9. CASE x \in Nested
  <2>1. PICK c \in Atoms("I1"), t \in Consts("I16"), f \in Mux("I16", Consts("I16")) :
          x = [k |-> "ITE", ty |-> "I16", cond |-> c, iffalse |-> f, iftrue |-> t]
    BY <1>9 DEF Nested
  <2>2. f \in Mux("I16", Leaf("I16"))
    <3>1. Consts("I16") \in SUBSET Leaf("I16")
      BY DEF Leaf, Atoms
    <3> QED BY <3>1 DEF Mux
  <2>3. f \in Arm("I16") /\ t \in Arm("I16") /\ ExprType(x) = "I16" /\ "I16" \in Types
    BY <2>1, <2>2 DEF Arm, Leaf, Atoms, ExprType, Types
  <2>4. x \in Mux("I16", Arm("I16"))
    BY <2>1, <2>3 DEF Mux
  <2> QED BY <2>3, <2>4 DEF Whole
<1> QED BY <1>1, <1>2, <1>3, <1>4, <1>5, <1>6, <1>7, <1>8, <1>9 DEF Exprs

(***************************************************************************)
(* The inductive invariant.                                                *)
(***************************************************************************)
IsGuest(h) == h \in [ctx : {h.ctx}, mem : {h.mem}, tmp : {h.tmp}, out : {h.out}, log : {h.log}]
IsMachine(r) == r \in [ctx : {r.ctx}, mem : {r.mem}, log : {r.log}, out : {r.out}]
IsCount(c) == c \in [stmts : Nat, here : Nat, blocks : Nat]

\* What was emitted is well formed or broken in a known way.
Struct ==
    /\ em \in [blk : Seq(Names), vals : {em.vals}, gep : {em.gep}, cast : {em.cast}, bad : KnownIllFormed]
    /\ IsGuest(g) /\ IsMachine(run) /\ IsCount(count)
    /\ em.bad = "" /\ em.blk = <<>> => em = endBB
    /\ em.bad = "" /\ em.blk # <<>> => Cached(em) /\ Temps

\* The exits taken, the exit type and the last store agree.
SameExit(r, h) ==
    /\ r.out = h.out.to
    /\ h.out.to = -1 => h.out = Live /\ r.ctx[ExitTypeOffset] = "GE_IGNORE"
    /\ h.out # Live => r.ctx[ExitTypeOffset] = ExitType[h.out.jk]
    /\ log_last_store => r.log = h.log

\* The machine that runs what was emitted and the guest agree, as long as the
\* code is well formed and no known divergence was met.
Mirror ==
    em.bad = "" /\ ~odd =>
        /\ SameMachine(run, g) /\ SameExit(run, g)
        /\ em.blk # <<>> => SameTemps

LEMMA NotEmpty == \A s \in Seq(Names) : s # <<>> <=> Len(s) > 0
  OBVIOUS

LEMMA Starts ==
    ASSUME Struct, Emitting
    PROVE  InState(em) /\ em.blk \in Seq(Names) /\ Temps /\ em.bad = "" /\ Len(em.blk) > 0
<1>1. em.blk \in Seq(Names) /\ em.blk # <<>> /\ em.bad = "" /\ Cached(em) /\ Temps
  BY DEF Struct, Emitting
<1>2. Len(em.blk) > 0 /\ IsPrefix(em.blk, em.blk)
  BY <1>1, NotEmpty, PrefixSelf
<1>3. InState(em)
  BY <1>1, <1>2 DEF Struct, InState
<1> QED BY <1>1, <1>2, <1>3

\* A statement that ends in emission state e, but for the temporaries it has
\* defined, keeps the invariant if what it defined is of its type, in place
\* and, where it can be used, the guest's value.
LEMMA Closes ==
    ASSUME Struct, Emitting, NEW e, InState(e),
           em' \in [blk : {e.blk}, vals : {em'.vals}, gep : {e.gep}, cast : {e.cast}, bad : {e.bad}],
           IsSeq(em'.vals), IsSeq(g'.tmp), Len(em'.vals) = Len(g'.tmp),
           IsGuest(g'), IsMachine(run'), IsCount(count'),
           \A t \in DOMAIN g'.tmp :
               \/ t \in DOMAIN g.tmp /\ em'.vals[t] = em.vals[t] /\ g'.tmp[t] = g.tmp[t]
               \/ /\ Carries(em'.vals[t], g'.tmp[t].ty)
                  /\ e.bad = "" => Placed(em'.vals[t], e)
                  /\ Agreed /\ e.bad = "" =>
                        /\ g'.tmp[t].b \in BytesOf(g'.tmp[t].ty)
                        /\ Dominates(em'.vals[t].def, e) => em'.vals[t].b = g'.tmp[t].b
    PROVE  /\ Struct'
           /\ /\ fake_vsys_reads /\ Mirror /\ (odd => odd')
              /\ Agreed /\ SameExit(run, g) /\ e.bad = "" /\ ~odd' =>
                    SameMachine(run', g') /\ SameExit(run', g')
              => Mirror'
<1>1. InState(em) /\ em.blk \in Seq(Names) /\ Temps /\ em.bad = "" /\ Len(em.blk) > 0 /\ em.blk # <<>>
  BY Starts DEF Emitting
<1>2. e.blk \in Seq(Names) /\ Len(e.blk) > 0 /\ IsPrefix(em.blk, e.blk) /\ Cached(e) /\ e.bad \in KnownIllFormed
  BY DEF InState
<1>3. em'.blk = e.blk /\ em'.gep = e.gep /\ em'.bad = e.bad
  OBVIOUS
<1>4. e.blk # <<>>
  BY <1>2, NotEmpty
<1>5. Cached(em)'
  BY <1>2, <1>3 DEF Cached
<1>6. \A v : Placed(v, em)' <=> Placed(v, e)
  BY <1>3 DEF Placed, Dominates
<1>7. \A d : Dominates(d, em)' <=> Dominates(d, e)
  BY <1>3 DEF Dominates
<1>8. em.bad' = "" => Temps'
  <2> SUFFICES ASSUME e.bad = "", NEW t \in DOMAIN g'.tmp
               PROVE  Carries(em'.vals[t], g'.tmp[t].ty) /\ Placed(em'.vals[t], em')
    BY <1>3 DEF Temps
  <2>1. CASE t \in DOMAIN g.tmp /\ em'.vals[t] = em.vals[t] /\ g'.tmp[t] = g.tmp[t]
    <3>1. Carries(em.vals[t], g.tmp[t].ty) /\ Placed(em.vals[t], em) /\ em.vals[t].def \in Seq(Names)
      BY <1>1, <2>1 DEF Temps, Carries, Fields
    <3> DEFINE v == em.vals[t]
    <3>2. Placed(v, e)
      BY <1>1, <3>1, StillPlaced
    <3> HIDE DEF v
    <3>3. Placed(v, em')
      BY <1>3, <3>2 DEF Placed, Dominates
    <3> QED BY <2>1, <3>1, <3>3, Zenon DEF v
  <2>2. CASE Carries(em'.vals[t], g'.tmp[t].ty) /\ Placed(em'.vals[t], e)
    BY <1>3, <2>2 DEF Placed, Dominates
  <2> QED BY <2>1, <2>2
<1>9. Struct'
  <2>1. (em \in [blk : Seq(Names), vals : {em.vals}, gep : {em.gep}, cast : {em.cast}, bad : KnownIllFormed])'
    BY <1>2
  <2> QED BY <1>3, <1>4, <1>5, <1>8, <2>1 DEF Struct, IsGuest, IsMachine, IsCount
<1>10. ASSUME fake_vsys_reads, Mirror, odd => odd',
              Agreed /\ SameExit(run, g) /\ e.bad = "" /\ ~odd' => SameMachine(run', g') /\ SameExit(run', g'),
              e.bad = "", ~odd'
       PROVE  SameMachine(run', g') /\ SameExit(run', g') /\ SameTemps'
  <2>1. Agreed /\ SameExit(run, g)
    BY <1>1, <1>10 DEF Mirror, Agreed
  <2>2. SameMachine(run', g') /\ SameExit(run', g')
    BY <1>10, <2>1
  <2>3. SameTemps'
    <3> SUFFICES ASSUME NEW t \in DOMAIN g'.tmp
                 PROVE  /\ g'.tmp[t].b \in BytesOf(g'.tmp[t].ty)
                        /\ Dominates(em'.vals[t].def, em') => em'.vals[t].b = g'.tmp[t].b
      BY DEF SameTemps
    <3>1. CASE t \in DOMAIN g.tmp /\ em'.vals[t] = em.vals[t] /\ g'.tmp[t] = g.tmp[t]
      <4> DEFINE v == em.vals[t]
      <4>1. v.def \in Seq(Names) /\ Placed(v, em)
        BY <1>1, <3>1 DEF Temps, Carries, Fields
      <4>2. g.tmp[t].b \in BytesOf(g.tmp[t].ty) /\ (Dominates(v.def, em) => v.b = g.tmp[t].b)
        BY <2>1, <3>1 DEF Agreed, SameTemps
      <4>3. em'.vals[t] = v
        BY <3>1
      <4> HIDE DEF v
      <4>4. Dominates(v.def, em') => Dominates(v.def, em)
        <5>1. Dominates(v.def, em') => Dominates(v.def, e)
          BY <1>3 DEF Dominates
        <5> QED BY <1>1, <4>1, <5>1, DominatedBefore
      <4> QED BY <3>1, <4>2, <4>3, <4>4
    <3>2. CASE /\ g'.tmp[t].b \in BytesOf(g'.tmp[t].ty)
               /\ Dominates(em'.vals[t].def, e) => em'.vals[t].b = g'.tmp[t].b
      <4>1. Dominates(em'.vals[t].def, em') => Dominates(em'.vals[t].def, e)
        BY <1>3 DEF Dominates
      <4> QED BY <3>2, <4>1
    <3> QED BY <1>10, <2>1, <3>1, <3>2
  <2> QED BY <2>2, <2>3
<1>11. ASSUME fake_vsys_reads, Mirror, odd => odd',
              Agreed /\ SameExit(run, g) /\ e.bad = "" /\ ~odd' => SameMachine(run', g') /\ SameExit(run', g')
       PROVE  Mirror'
  BY <1>3, <1>10, <1>11 DEF Mirror, SameMachine, SameExit
<1> QED BY <1>9, <1>11

LEMMA Counted ==
    ASSUME NEW c, IsCount(c)
    PROVE  IsCount([c EXCEPT !.stmts = @ + 1, !.here = @ + 1])
<1> DEFINE d == [c EXCEPT !.stmts = c.stmts + 1]
<1>1. d \in [stmts : Nat, here : Nat, blocks : Nat] /\ d.here = c.here
  BY DEF IsCount
<1>2. [c EXCEPT !.stmts = @ + 1, !.here = @ + 1] = [d EXCEPT !.here = c.here + 1]
  OBVIOUS
<1> HIDE DEF d
<1> QED BY <1>1, <1>2 DEF IsCount

LEMMA FewerTemps == ASSUME Temps PROVE DOMAIN g.tmp = 1 .. Len(g.tmp) /\ Len(g.tmp) \in Nat
  BY DEF Temps, IsSeq

\* A statement that defines no temporary.
LEMMA Keeps ==
    ASSUME Struct, Emitting, NEW e, InState(e), NEW r, NEW h, Commit(e, r, h),
           IsGuest(h), IsMachine(r), h.tmp = g.tmp
    PROVE  /\ Struct'
           /\ /\ fake_vsys_reads /\ Mirror
              /\ Agreed /\ SameExit(run, g) /\ e.bad = "" => SameMachine(r, h) /\ SameExit(r, h)
              => Mirror'
<1>1. em' = e /\ run' = r /\ g' = h /\ odd' = odd /\ IsCount(count')
  BY Counted DEF Commit, Struct
<1>2. e \in [blk : {e.blk}, vals : {e.vals}, gep : {e.gep}, cast : {e.cast}, bad : {e.bad}] /\ e.vals = em.vals
  BY DEF InState
<1>3. Temps
  BY Starts
<1>4. IsSeq(e.vals) /\ IsSeq(h.tmp) /\ Len(e.vals) = Len(h.tmp)
  BY <1>2, <1>3 DEF Temps
<1>5. \A t \in DOMAIN h.tmp : t \in DOMAIN g.tmp /\ e.vals[t] = em.vals[t] /\ h.tmp[t] = g.tmp[t]
  BY <1>2
<1>6. /\ em' \in [blk : {e.blk}, vals : {em'.vals}, gep : {e.gep}, cast : {e.cast}, bad : {e.bad}]
      /\ IsSeq(em'.vals) /\ IsSeq(g'.tmp) /\ Len(em'.vals) = Len(g'.tmp)
      /\ IsGuest(g') /\ IsMachine(run') /\ IsCount(count')
  BY <1>1, <1>2, <1>4
<1>7. \A t \in DOMAIN g'.tmp : t \in DOMAIN g.tmp /\ em'.vals[t] = em.vals[t] /\ g'.tmp[t] = g.tmp[t]
  BY <1>1, <1>5
<1>8. /\ Struct'
      /\ /\ fake_vsys_reads /\ Mirror /\ (odd => odd')
         /\ Agreed /\ SameExit(run, g) /\ e.bad = "" /\ ~odd' =>
               SameMachine(run', g') /\ SameExit(run', g')
         => Mirror'
  BY <1>6, <1>7, Closes
<1> QED BY <1>1, <1>8

LongerBy(tv, tg, vs, ts, v, q) ==
    /\ IsSeq(tv) /\ IsSeq(tg) /\ Len(tv) = Len(tg)
    /\ \A t \in DOMAIN tg : \/ t \in DOMAIN ts /\ tv[t] = vs[t] /\ tg[t] = ts[t]
                            \/ tv[t] = v /\ tg[t] = q

LEMMA NextTemp ==
    ASSUME NEW vs, NEW ts, NEW v, NEW q, IsSeq(vs), IsSeq(ts), Len(vs) = Len(ts)
    PROVE  LongerBy(Extended(vs, v), Extended(ts, q), vs, ts, v, q)
<1> DEFINE n == Len(ts)
           tv == Extended(vs, v)
           tg == Extended(ts, q)
<1>1. /\ IsSeq(tv) /\ Len(tv) = Len(vs) + 1 /\ tv[Len(vs) + 1] = v
      /\ \A i \in 1 .. Len(vs) : tv[i] = vs[i]
  BY ExtendedIs
<1>2. /\ IsSeq(tg) /\ Len(tg) = n + 1 /\ tg[n + 1] = q /\ \A i \in 1 .. n : tg[i] = ts[i]
      /\ DOMAIN tg = 1 .. n + 1 /\ DOMAIN ts = 1 .. n /\ n \in Nat
  BY ExtendedIs
<1> HIDE DEF tv, tg, n
<1>3. Len(vs) = n
  BY DEF n
<1>4. \A t \in 1 .. n + 1 : t = n + 1 \/ t \in 1 .. n
  BY <1>2
<1>5. ASSUME NEW t \in DOMAIN tg
      PROVE  \/ t \in DOMAIN ts /\ tv[t] = vs[t] /\ tg[t] = ts[t]
             \/ tv[t] = v /\ tg[t] = q
  <2>1. CASE t = n + 1
    BY <1>1, <1>2, <1>3, <2>1
  <2>2. CASE t \in 1 .. n
    BY <1>1, <1>2, <1>3, <2>2
  <2> QED BY <1>2, <1>4, <2>1, <2>2
<1> QED BY <1>1, <1>2, <1>3, <1>5 DEF tv, tg, LongerBy

\* A statement that defines the next temporary.
LEMMA Defines ==
    ASSUME Struct, Emitting, NEW e, InState(e), NEW v, NEW ty \in Types, NEW b, NEW r, NEW h,
           Commit(setRegValue(e, Dst, v), r, SetTmp(h, ty, b)),
           IsGuest(h), IsMachine(r), h.tmp = g.tmp,
           Carries(v, ty), e.bad = "" => Placed(v, e),
           Agreed /\ e.bad = "" => b \in BytesOf(ty) /\ (Dominates(v.def, e) => v.b = b)
    PROVE  /\ Struct'
           /\ /\ fake_vsys_reads /\ Mirror
              /\ Agreed /\ SameExit(run, g) /\ e.bad = "" =>
                    SameMachine(r, SetTmp(h, ty, b)) /\ SameExit(r, SetTmp(h, ty, b))
              => Mirror'
<1>1. em' = setRegValue(e, Dst, v) /\ run' = r /\ g' = SetTmp(h, ty, b) /\ odd' = odd /\ IsCount(count')
  BY Counted DEF Commit, Struct
<1>2. /\ e \in [blk : {e.blk}, vals : {e.vals}, gep : {e.gep}, cast : {e.cast}, bad : {e.bad}]
      /\ e.vals = em.vals
  BY DEF InState
<1> DEFINE n == Len(g.tmp)
<1>3. Temps /\ DOMAIN g.tmp = 1 .. n /\ n \in Nat
  BY Starts, FewerTemps
<1> DEFINE tv == Extended(em.vals, v)
           q == [ty |-> ty, b |-> b]
           tg == Extended(g.tmp, q)
<1>4. ~(Dst <= Len(e.vals))
  <2> DEFINE d == Dst
             m == Len(e.vals)
  <2>1. m = n /\ d = n + 1 /\ n \in Nat
    BY <1>2, <1>3 DEF Dst, Temps
  <2> HIDE DEF n, d, m
  <2>2. ~(d <= m)
    BY <2>1, NotBelow, Zenon
  <2> QED BY <2>2 DEF d, m
<1>5. em' = [e EXCEPT !.vals = tv]
  BY <1>1, <1>2, <1>4 DEF setRegValue, Extended
<1>6. g' = [h EXCEPT !.tmp = tg]
  BY <1>1 DEF SetTmp, IsGuest, Extended
<1>7. IsSeq(em.vals) /\ IsSeq(g.tmp) /\ Len(em.vals) = Len(g.tmp)
  BY <1>3 DEF Temps
<1>8. LongerBy(tv, tg, em.vals, g.tmp, v, q)
  <2> HIDE DEF q
  <2> QED BY <1>3, <1>7, NextTemp, Zenon
<1> HIDE DEF tv, tg, n, q
<1>10. em' \in [blk : {e.blk}, vals : {tv}, gep : {e.gep}, cast : {e.cast}, bad : {e.bad}] /\ em'.vals = tv
  BY <1>2, <1>5
<1>11. IsGuest(g') /\ g'.tmp = tg
  BY <1>6 DEF IsGuest
<1>12. q.ty = ty /\ q.b = b
  BY DEF q
<1>13. \A t \in DOMAIN g'.tmp :
         \/ t \in DOMAIN g.tmp /\ em'.vals[t] = em.vals[t] /\ g'.tmp[t] = g.tmp[t]
         \/ /\ Carries(em'.vals[t], g'.tmp[t].ty)
            /\ e.bad = "" => Placed(em'.vals[t], e)
            /\ Agreed /\ e.bad = "" =>
                  /\ g'.tmp[t].b \in BytesOf(g'.tmp[t].ty)
                  /\ Dominates(em'.vals[t].def, e) => em'.vals[t].b = g'.tmp[t].b
  <2> SUFFICES ASSUME NEW t \in DOMAIN tg
               PROVE  \/ t \in DOMAIN g.tmp /\ tv[t] = em.vals[t] /\ tg[t] = g.tmp[t]
                      \/ /\ Carries(tv[t], tg[t].ty) /\ (e.bad = "" => Placed(tv[t], e))
                         /\ Agreed /\ e.bad = "" =>
                            /\ tg[t].b \in BytesOf(tg[t].ty)
                            /\ Dominates(tv[t].def, e) => tv[t].b = tg[t].b
    BY <1>10, <1>11
  <2>1. CASE t \in DOMAIN g.tmp /\ tv[t] = em.vals[t] /\ tg[t] = g.tmp[t]
    BY <2>1
  <2>2. CASE tv[t] = v /\ tg[t] = q
    BY <1>12, <2>2
  <2> QED BY <1>8, <2>1, <2>2 DEF LongerBy
<1>14. /\ em' \in [blk : {e.blk}, vals : {em'.vals}, gep : {e.gep}, cast : {e.cast}, bad : {e.bad}]
       /\ IsSeq(em'.vals) /\ IsSeq(g'.tmp) /\ Len(em'.vals) = Len(g'.tmp)
       /\ IsGuest(g') /\ IsMachine(run') /\ IsCount(count')
  BY <1>1, <1>8, <1>10, <1>11 DEF LongerBy
<1>15. /\ Struct'
       /\ /\ fake_vsys_reads /\ Mirror /\ (odd => odd')
          /\ Agreed /\ SameExit(run, g) /\ e.bad = "" /\ ~odd' =>
                SameMachine(run', g') /\ SameExit(run', g')
          => Mirror'
  BY <1>13, <1>14, Closes
<1> QED BY <1>1, <1>15

Written(w, m, a, n, b) ==
    /\ DOMAIN w = DOMAIN m
    /\ \A x \in DOMAIN m : x \in a .. a + n - 1 => w[x] = b[x - a + 1]
    /\ \A x \in DOMAIN m : x \in Int /\ x \notin a .. a + n - 1 => w[x] = m[x]

LEMMA WriteIs ==
    ASSUME NEW m, NEW a \in Int, NEW n \in Nat, NEW b \in [1 .. n -> Digit]
    PROVE  Written(Write(m, a, b), m, a, n, b)
<1>1. Len(b) = n
  BY BytesAre
<1> QED BY <1>1 DEF Write, Written

LEMMA WriteDigits ==
    ASSUME NEW D \in SUBSET Int, NEW m \in [D -> Digit], NEW a \in Int, NEW n \in Nat,
           NEW b \in [1 .. n -> Digit]
    PROVE  Write(m, a, b) \in [D -> Digit]
<1>1. Len(b) = n
  BY BytesAre
<1>2. \A x \in D : a <= x /\ x < a + n => b[x - a + 1] \in Digit
  OBVIOUS
<1> QED BY <1>1, <1>2 DEF Write

\* What a statement does to both machines: registers.
LEMMA RegisterWrite ==
    ASSUME NEW r, NEW h, NEW a \in Nat, NEW n \in Nat, a + n <= 6, NEW b \in [1 .. n -> Digit],
           IsMachine(r), IsGuest(h), SameMachine(r, h), SameExit(r, h)
    PROVE  /\ SameMachine([r EXCEPT !.ctx = Write(r.ctx, a, b)], [h EXCEPT !.ctx = Write(h.ctx, a, b)])
           /\ SameExit([r EXCEPT !.ctx = Write(r.ctx, a, b)], [h EXCEPT !.ctx = Write(h.ctx, a, b)])
<1> DEFINE rc == Write(r.ctx, a, b)
           hc == Write(h.ctx, a, b)
<1>1. Written(rc, r.ctx, a, n, b) /\ Written(hc, h.ctx, a, n, b)
  <2>1. a \in Int
    OBVIOUS
  <2> QED BY <2>1, WriteIs
<1>2. Offsets \in SUBSET Int /\ a \in Int /\ h.ctx \in [Offsets -> Digit]
  BY DEF SameMachine, Offsets
<1>3. hc \in [Offsets -> Digit]
  BY <1>2, WriteDigits
<1> HIDE DEF rc, hc
<1>4. \A i \in Offsets : rc[i] = hc[i]
  BY <1>1, <1>2 DEF SameMachine, Offsets, ExitTypeOffset, Written
<1>5. rc[ExitTypeOffset] = r.ctx[ExitTypeOffset]
  BY <1>1 DEF SameMachine, Offsets, ExitTypeOffset, Written
<1> DEFINE r2 == [r EXCEPT !.ctx = rc]
           h2 == [h EXCEPT !.ctx = hc]
<1>6. r2.ctx = rc /\ r2.mem = r.mem /\ r2.log = r.log /\ r2.out = r.out
  BY DEF IsMachine
<1>7. h2.ctx = hc /\ h2.mem = h.mem /\ h2.log = h.log /\ h2.out = h.out
  BY DEF IsGuest
<1> HIDE DEF r2, h2
<1>8. SameMachine(r2, h2)
  BY <1>1, <1>3, <1>4, <1>6, <1>7 DEF SameMachine, Written
<1>9. SameExit(r2, h2)
  BY <1>5, <1>6, <1>7 DEF SameExit
<1> QED BY <1>8, <1>9 DEF r2, h2, rc, hc

\* Memory, and the log of the last store.
LEMMA MemoryWrite ==
    ASSUME NEW e, NEW r, NEW h, NEW p, NEW v, NEW a \in Nat, NEW n \in Nat, a + n <= 4,
           NEW b \in [1 .. n -> Digit], Num(p.b) = a, v.b = b,
           IsMachine(r), IsGuest(h), SameMachine(r, h), SameExit(r, h)
    PROVE  /\ SameMachine(store(e, r, p, v).run, StoreAt(h, a, b))
           /\ SameExit(store(e, r, p, v).run, StoreAt(h, a, b))
<1> DEFINE rm == Write(r.mem, Base + a, b)
           hm == Write(h.mem, a, b)
           D == Addresses \cup {SysAddr}
<1>0. Base \in Nat /\ D \in SUBSET Int /\ HostAddresses \in SUBSET Int /\ Base + a \in Int
  BY EmitAssumption DEF HostAddresses, Addresses, SysAddr
<1>1. Written(rm, r.mem, Base + a, n, b) /\ Written(hm, h.mem, a, n, b)
  <2>1. a \in Int
    OBVIOUS
  <2> QED BY <1>0, <2>1, WriteIs
<1>2. rm \in [HostAddresses -> Digit]
  BY <1>0, WriteDigits DEF SameMachine
<1>3. hm \in [D -> Digit]
  <2>1. h.mem \in [D -> Digit] /\ a \in Int
    BY DEF SameMachine
  <2> QED BY <1>0, <2>1, WriteDigits
<1> HIDE DEF rm, hm
<1>4. \A i \in Addresses : rm[Base + i] = hm[i]
  <2> SUFFICES ASSUME NEW i \in Addresses PROVE rm[Base + i] = hm[i]
    OBVIOUS
  <2>1. i \in DOMAIN h.mem /\ Base + i \in DOMAIN r.mem /\ i \in Nat /\ Base + i \in Int
    BY <1>0 DEF SameMachine, Addresses, HostAddresses
  <2>2. CASE i \in a .. a + n - 1
    <3>1. Base + i \in Base + a .. Base + a + n - 1 /\ (Base + i) - (Base + a) + 1 = i - a + 1
      BY <1>0, <2>1, <2>2
    <3> QED BY <1>1, <2>1, <2>2, <3>1 DEF Written
  <2>3. CASE i \notin a .. a + n - 1
    <3>1. Base + i \notin Base + a .. Base + a + n - 1
      BY <1>0, <2>1, <2>3
    <3>2. r.mem[Base + i] = h.mem[i]
      BY DEF SameMachine
    <3> QED BY <1>1, <2>1, <2>3, <3>1, <3>2 DEF Written
  <2> QED BY <2>2, <2>3
<1>5. hm[SysAddr] = SysByte
  BY <1>1 DEF SameMachine, SysAddr, Written
<1> DEFINE r2 == store(e, r, p, v).run
           h2 == StoreAt(h, a, b)
<1>6. r2.ctx = r.ctx /\ r2.mem = rm /\ r2.out = r.out
      /\ (log_last_store => r2.log = [addr |-> a, b |-> b])
  BY DEF IsMachine, store, recordStore, rm
<1>7. h2.ctx = h.ctx /\ h2.mem = hm /\ h2.out = h.out /\ h2.log = [addr |-> a, b |-> b]
  BY DEF IsGuest, StoreAt, hm
<1> HIDE DEF r2, h2
<1>8. SameMachine(r2, h2)
  BY <1>2, <1>3, <1>4, <1>5, <1>6, <1>7 DEF SameMachine
<1>9. SameExit(r2, h2)
  BY <1>6, <1>7 DEF SameExit
<1> QED BY <1>8, <1>9 DEF r2, h2

LEMMA StoreKeeps ==
    ASSUME NEW e, InState(e), NEW r, IsMachine(r), NEW p, NEW v
    PROVE  Still(e, store(e, r, p, v).e) /\ IsMachine(store(e, r, p, v).run)
<1>1. Still(e, store(e, r, p, v).e)
  BY IntegerIs DEF store
<1>2. IsMachine(store(e, r, p, v).run)
  BY DEF IsMachine, store
<1> QED BY <1>1, <1>2

LEMMA StoreAtKeeps ==
    ASSUME NEW h, IsGuest(h), NEW a, NEW b
    PROVE  IsGuest(StoreAt(h, a, b)) /\ StoreAt(h, a, b).tmp = h.tmp
  BY DEF IsGuest, StoreAt

\* What every step does to the two invariants.
Preserves == Struct' /\ (fake_vsys_reads /\ Mirror => Mirror')

(***************************************************************************)
(* One lemma per statement: it keeps both invariants.                      *)
(***************************************************************************)
\* Statements that emit nothing the machine sees.
LEMMA NoOpKeeps == ASSUME Struct, NoOp \/ MBE PROVE Preserves
<1>1. Emitting /\ Commit(em, run, g) /\ IsGuest(g) /\ IsMachine(run)
  BY DEF NoOp, MBE, Struct
<1>2. InState(em)
  BY <1>1, Starts
<1>3. Agreed => SameMachine(run, g)
  BY DEF Agreed
<1> QED BY <1>1, <1>2, <1>3, Keeps DEF Preserves

LEMMA DataIs ==
    ASSUME NEW x \in Data
    PROVE  /\ TypeOf(g, x) \in Types /\ TypeOf(g, x) # "I1" /\ x \in Atoms(TypeOf(g, x))
           /\ BytesOf(TypeOf(g, x)) = [1 .. Size[TypeOf(g, x)] -> Digit]
<1>1. \E ty \in {"I8", "I16", "V"} : x \in Atoms(ty)
  BY DEF Data
<1>2. PICK ty \in {"I8", "I16", "V"} : x \in Atoms(ty)
  BY <1>1
<1>3. ty \in Types /\ ty # "I1"
  BY DEF Types
<1>4. TypeOf(g, x) = ty
  BY <1>2, <1>3, AtomType
<1> QED BY <1>2, <1>3, <1>4 DEF BytesOf

LEMMA Aligned ==
    ASSUME NEW n \in {1, 2, 4}, NEW off \in {0, 1, 2}, off % n = 0
    PROVE  (off \div n) * n = off /\ off + n <= 6 /\ off \in Nat /\ n \in Nat
<1>1. CASE n = 1 BY <1>1
<1>2. CASE n = 2 BY <1>2
<1>3. CASE n = 4 BY <1>3
<1> QED BY <1>1, <1>2, <1>3

\* A write to a register the statement names.
LEMMA PutKeeps == ASSUME Struct, Put PROVE Preserves
<1>1. Emitting
  BY DEF Put
<1>2. /\ InState(em) /\ em.blk \in Seq(Names) /\ Temps /\ em.bad = ""
      /\ IsGuest(g) /\ IsMachine(run)
  BY <1>1, Starts DEF Struct
<1>3. PICK x \in Data, off \in Offsets :
        /\ off % Size[TypeOf(g, x)] = 0 /\ off \in {0, 1, 2}
        /\ LET d == EmitAtom(em, x)
               w == writeCtx(d.e, off, d.v)
           IN  Commit(w.e, [run EXCEPT !.ctx = w.ctx],
                      [g EXCEPT !.ctx = Write(@, off, ValueOf(g, x))])
  BY DEF Put
<1> DEFINE d == EmitAtom(em, x)
           de == d.e
           dv == d.v
           w == writeCtx(de, off, dv)
           we == w.e
           ty == TypeOf(g, x)
           n == Size[ty]
           b == ValueOf(g, x)
           r == [run EXCEPT !.ctx = w.ctx]
           h == [g EXCEPT !.ctx = Write(g.ctx, off, b)]
<1>4. Commit(we, r, h)
  BY <1>3
<1>5. ty \in Types /\ ty # "I1" /\ x \in Atoms(ty) /\ BytesOf(ty) = [1 .. n -> Digit]
  BY DataIs
<1> HIDE DEF ty
<1>6. Yields(em, d, ty, b)
  BY <1>2, <1>5, AtomYields
<1> HIDE DEF d, b
<1>7. InState(de) /\ dv.ty \in Carrier[ty]
  BY <1>6 DEF Yields, Still, Carries
<1>8. n \in {1, 2, 4} /\ Bytes[dv.ty] = n /\ off % n = 0 /\ off \in {0, 1, 2}
  BY <1>3, <1>5, <1>7, CarrierBytes, SizeIs DEF ty
<1> HIDE DEF de, dv, n
<1>9. (off \div n) * n = off /\ off + n <= 6 /\ off \in Nat /\ n \in Nat
  BY <1>8, Aligned
<1>10. Still(de, we) /\ w.ctx = Write(run.ctx, off, dv.b)
  BY <1>7, <1>8, <1>9, WriteCtxIs
<1> HIDE DEF we, w
<1>11. InState(we) /\ (we.bad = "" => d.e.bad = "")
  BY <1>10 DEF Still, de
<1>12. IsGuest(h) /\ IsMachine(r) /\ h.tmp = g.tmp
  BY <1>2 DEF IsGuest, IsMachine
<1>13. Agreed /\ SameExit(run, g) /\ we.bad = "" => SameMachine(r, h) /\ SameExit(r, h)
  <2> SUFFICES ASSUME Agreed, SameExit(run, g), we.bad = ""
               PROVE  SameMachine(r, h) /\ SameExit(r, h)
    OBVIOUS
  <2>1. b \in [1 .. n -> Digit] /\ dv.b = b
    BY <1>5, <1>6, <1>11 DEF Yields, dv
  <2>2. r = [run EXCEPT !.ctx = Write(run.ctx, off, b)]
    BY <1>10, <2>1
  <2>3. SameMachine(run, g)
    BY DEF Agreed
  <2> QED BY <1>2, <1>9, <2>1, <2>2, <2>3, RegisterWrite
<1> HIDE DEF r, h
<1> QED BY <1>1, <1>4, <1>11, <1>12, <1>13, Keeps DEF Preserves

\* A write to a register an index selects.
LEMMA PutIKeeps == ASSUME Struct, PutI PROVE Preserves
<1>1. Emitting
  BY DEF PutI
<1>2. /\ InState(em) /\ em.blk \in Seq(Names) /\ Temps /\ em.bad = ""
      /\ IsGuest(g) /\ IsMachine(run)
  BY <1>1, Starts DEF Struct
<1>3. PICK a \in Arrays, ix \in Atoms("I16"), bias \in Biases : \E x \in Atoms(a.ty) :
        LET d == EmitAtom(em, x)
            i == EmitAtom(d.e, ix)
            w == writeCtxI(i.e, a.base, bias, a.len, i.v, d.v)
        IN  Commit(w.e, [run EXCEPT !.ctx = w.ctx],
                   [g EXCEPT !.ctx = Write(@, Element(a.base, a.ty, a.len, ValueOf(g, ix), bias),
                                           ValueOf(g, x))])
  BY DEF PutI
<1> DEFINE ty == a.ty
           n == Size[ty]
<1>4. PICK x \in Atoms(ty) :
        LET d == EmitAtom(em, x)
            i == EmitAtom(d.e, ix)
            w == writeCtxI(i.e, a.base, bias, a.len, i.v, d.v)
        IN  Commit(w.e, [run EXCEPT !.ctx = w.ctx],
                   [g EXCEPT !.ctx = Write(@, Element(a.base, a.ty, a.len, ValueOf(g, ix), bias),
                                           ValueOf(g, x))])
  BY <1>3
<1> DEFINE d == EmitAtom(em, x)
           de == d.e
           dv == d.v
           i == EmitAtom(de, ix)
           ie == i.e
           iv == i.v
           w == writeCtxI(ie, a.base, bias, a.len, iv, dv)
           we == w.e
           b == ValueOf(g, x)
           ib == ValueOf(g, ix)
           off == Element(a.base, a.ty, a.len, ib, bias)
           r == [run EXCEPT !.ctx = w.ctx]
           h == [g EXCEPT !.ctx = Write(g.ctx, off, b)]
<1>5. Commit(we, r, h)
  BY <1>4
<1>6. ty \in Types /\ ty # "I1" /\ \A l \in Carrier[ty] : a.base % Bytes[l] = 0
  BY ArrayIs
<1>7. n \in {1, 2, 4} /\ "I16" \in Types /\ BytesOf(ty) = [1 .. n -> Digit]
  BY <1>6, SizeIs DEF Types, BytesOf
<1> HIDE DEF n
<1>7a. n \in Nat
  <2>1. n \in {1, 2, 4}
    BY <1>7
  <2> QED BY <2>1
<1>8. Yields(em, d, ty, b)
  BY <1>2, <1>6, AtomYields
<1> HIDE DEF d, b
<1>9. InState(de) /\ dv.ty \in Carrier[ty]
  BY <1>8 DEF Yields, Still, Carries
<1> HIDE DEF de
<1>10. Yields(de, i, "I16", ib)
  BY <1>2, <1>7, <1>9, AtomYields
<1> HIDE DEF i, ib
<1>11. InState(ie)
  BY <1>10 DEF Yields, Still
<1>12. a.base % Bytes[dv.ty] = 0 /\ Bytes[dv.ty] = n
  BY <1>6, <1>9, CarrierBytes DEF n
<1> HIDE DEF ie, dv, iv
<1>13. /\ Still(ie, we)
       /\ w.ctx = Write(run.ctx, indexCtx(a.base, bias, a.len, iv.b, dv.ty) * Bytes[dv.ty], dv.b)
  BY <1>11, <1>12, WriteCtxIIs
<1> HIDE DEF we, w
<1>14. InState(we) /\ (we.bad = "" => d.e.bad = "" /\ i.e.bad = "")
  BY <1>10, <1>13 DEF Still, Yields, de, ie
<1>15. IsGuest(h) /\ IsMachine(r) /\ h.tmp = g.tmp
  BY <1>2 DEF IsGuest, IsMachine
<1>16. Agreed /\ SameExit(run, g) /\ we.bad = "" => SameMachine(r, h) /\ SameExit(r, h)
  <2> SUFFICES ASSUME Agreed, SameExit(run, g), we.bad = ""
               PROVE  SameMachine(r, h) /\ SameExit(r, h)
    OBVIOUS
  <2>1. b \in [1 .. n -> Digit] /\ dv.b = b
    BY <1>7, <1>8, <1>14 DEF Yields, dv
  <2>2. ib \in BytesOf("I16") /\ iv.b = ib
    BY <1>10, <1>14 DEF Yields, iv
  <2>3. /\ indexCtx(a.base, bias, a.len, ib, dv.ty) * Bytes[dv.ty] = off
        /\ off \in Nat /\ off + n <= 6
    <3> DEFINE l == dv.ty
    <3>1. n = Size[a.ty] /\ Bytes[l] = n
      BY <1>12 DEF n
    <3> HIDE DEF l
    <3>2. /\ indexCtx(a.base, bias, a.len, ib, l) * Bytes[l] = Element(a.base, a.ty, a.len, ib, bias)
          /\ Element(a.base, a.ty, a.len, ib, bias) \in Nat
          /\ Element(a.base, a.ty, a.len, ib, bias) + n <= 6
      BY <2>2, <3>1, ElementAgrees
    <3> QED BY <3>2 DEF l
  <2> HIDE DEF off
  <2>4. r = [run EXCEPT !.ctx = Write(run.ctx, off, b)]
    BY <1>13, <2>1, <2>2, <2>3
  <2>5. SameMachine(run, g)
    BY DEF Agreed
  <2> QED BY <1>2, <2>1, <2>3, <2>4, <2>5, <1>7a, RegisterWrite
<1> HIDE DEF r, h
<1> QED BY <1>1, <1>5, <1>14, <1>15, <1>16, Keeps DEF Preserves

\* An expression into a new temporary.
LEMMA WrTmpKeeps == ASSUME Struct, WrTmp PROVE Preserves
<1>1. Emitting
  BY DEF WrTmp
<1>2. /\ InState(em) /\ em.blk \in Seq(Names) /\ Temps /\ em.bad = ""
      /\ IsGuest(g) /\ IsMachine(run)
  BY <1>1, Starts DEF Struct
<1>3. PICK x \in Exprs :
        LET r == Emit(em, x)
        IN  Commit(setRegValue(r.e, Dst, r.v), run, SetTmp(g, ExprType(x), Eval(g, x)))
  BY DEF WrTmp
<1> DEFINE r == Emit(em, x)
           e == r.e
           v == r.v
           ty == ExprType(x)
           b == Eval(g, x)
<1>4. Commit(setRegValue(e, Dst, v), run, SetTmp(g, ty, b))
  BY <1>3
<1>5. ty \in Types /\ x \in Whole(ty)
  BY ExprIs
<1> HIDE DEF ty
<1>6. Makes(em, r, ty, b)
  BY <1>2, <1>5, WholeMakes
<1> HIDE DEF r, b
<1>7. /\ InState(e) /\ Carries(v, ty) /\ (e.bad = "" => Placed(v, e))
      /\ Agreed /\ e.bad = "" => b \in BytesOf(ty) /\ (Dominates(v.def, e) => v.b = b)
  BY <1>6 DEF Makes, Placed
<1> HIDE DEF e, v
<1> DEFINE h == SetTmp(g, ty, b)
<1>8. Agreed /\ SameExit(run, g) /\ e.bad = "" => SameMachine(run, h) /\ SameExit(run, h)
  <2>1. h.ctx = g.ctx /\ h.mem = g.mem /\ h.log = g.log /\ h.out = g.out
    BY <1>2 DEF SetTmp, IsGuest
  <2> HIDE DEF h
  <2> QED BY <2>1 DEF Agreed, SameMachine, SameExit
<1> QED BY <1>1, <1>2, <1>4, <1>5, <1>7, <1>8, Defines DEF Preserves

LEMMA Opens ==
    ASSUME em.blk \in Seq(Names), NEW e, InState(e), NEW label \in Labels
    PROVE  InState(Open(e, label)) /\ Open(e, label).bad = e.bad
<1>1. label \in Names
  BY DEF Names
<1>2. Open(e, label) = At(e, Append(e.blk, label))
  BY OpenIsAt, Zenon
<1> DEFINE f == At(e, Append(e.blk, label))
<1>3. InState(f) /\ f.bad = e.bad
  BY <1>1, AtIs
<1> HIDE DEF f
<1> QED BY <1>2, <1>3 DEF f

LEMMA Merges ==
    ASSUME em.blk \in Seq(Names), NEW e, InState(e), NEW f, InState(f), NEW label \in Labels
    PROVE  InState(At(f, Append(e.blk, label))) /\ At(f, Append(e.blk, label)).bad = f.bad
<1>1. label \in Names
  BY DEF Names
<1> QED BY <1>1, AtIs

LEMMA SetTmpSame ==
    ASSUME NEW h, IsGuest(h), NEW r, NEW ty, NEW b, SameMachine(r, h), SameExit(r, h)
    PROVE  SameMachine(r, SetTmp(h, ty, b)) /\ SameExit(r, SetTmp(h, ty, b))
<1> DEFINE k == SetTmp(h, ty, b)
<1>1. k.ctx = h.ctx /\ k.mem = h.mem /\ k.log = h.log /\ k.out = h.out
  BY DEF SetTmp, IsGuest
<1> HIDE DEF k
<1>2. SameMachine(r, k)
  BY <1>1 DEF SameMachine
<1>3. SameExit(r, k)
  BY <1>1 DEF SameExit
<1> QED BY <1>2, <1>3 DEF k

LEMMA StoreSame ==
    ASSUME Agreed, SameExit(run, g), IsGuest(g), IsMachine(run), NEW ty \in Types, ty # "I1",
           NEW a \in Places(ty), NEW e, NEW p, NEW v, NEW b \in BytesOf(ty),
           p.b = ValueOf(g, a), v.b = b
    PROVE  /\ SameMachine(store(e, run, p, v).run, StoreAt(g, Num(ValueOf(g, a)), b))
           /\ SameExit(store(e, run, p, v).run, StoreAt(g, Num(ValueOf(g, a)), b))
<1> DEFINE n == Size[ty]
           i == Num(ValueOf(g, a))
<1>1. i \in Nat /\ i + n <= 4
  BY PlaceIs
<1>2. n \in {1, 2, 4}
  BY SizeIs
<1>3. b \in [1 .. n -> Digit]
  BY DEF BytesOf
<1>4. Num(p.b) = i
  OBVIOUS
<1>5. SameMachine(run, g)
  BY DEF Agreed
<1> HIDE DEF n, i
<1>6. n \in Nat
  BY <1>2
<1>7. SameMachine(store(e, run, p, v).run, StoreAt(g, i, b))
      /\ SameExit(store(e, run, p, v).run, StoreAt(g, i, b))
  BY <1>1, <1>3, <1>4, <1>5, <1>6, MemoryWrite
<1> QED BY <1>7 DEF i

\* A store, with the log of the last one.
LEMMA StoreStmtKeeps == ASSUME Struct, Store PROVE Preserves
<1>1. Emitting
  BY DEF Store
<1>2. /\ InState(em) /\ em.blk \in Seq(Names) /\ Temps /\ em.bad = ""
      /\ IsGuest(g) /\ IsMachine(run)
  BY <1>1, Starts DEF Struct
<1>3. PICK x \in Data : \E a \in Places(TypeOf(g, x)) :
        LET d == EmitAtom(em, x)
            p == EmitAtom(d.e, a)
            s == store(p.e, run, p.v, d.v)
        IN  Commit(s.e, s.run, StoreAt(g, Num(ValueOf(g, a)), ValueOf(g, x)))
  BY DEF Store
<1> DEFINE ty == TypeOf(g, x)
<1>4. PICK a \in Places(ty) :
        LET d == EmitAtom(em, x)
            p == EmitAtom(d.e, a)
            s == store(p.e, run, p.v, d.v)
        IN  Commit(s.e, s.run, StoreAt(g, Num(ValueOf(g, a)), ValueOf(g, x)))
  BY <1>3
<1> DEFINE d == EmitAtom(em, x)
           de == d.e
           dv == d.v
           p == EmitAtom(de, a)
           pe == p.e
           pv == p.v
           s == store(pe, run, pv, dv)
           se == s.e
           r == s.run
           b == ValueOf(g, x)
           h == StoreAt(g, Num(ValueOf(g, a)), b)
<1>5. Commit(se, r, h)
  BY <1>4
<1>6. /\ ty \in Types /\ ty # "I1" /\ x \in Atoms(ty) /\ a \in Atoms("I16") /\ "I16" \in Types
  BY DataIs DEF Places, Types
<1> HIDE DEF ty
<1>7. Yields(em, d, ty, b)
  BY <1>2, <1>6, AtomYields
<1> HIDE DEF d, b
<1>8. InState(de)
  BY <1>7 DEF Yields, Still
<1> HIDE DEF de
<1>9. Yields(de, p, "I16", ValueOf(g, a))
  BY <1>2, <1>6, <1>8, AtomYields
<1> HIDE DEF p
<1>10. InState(pe)
  BY <1>9 DEF Yields, Still
<1> HIDE DEF pe, pv, dv
<1>11. Still(pe, se) /\ IsMachine(r) /\ IsGuest(h) /\ h.tmp = g.tmp
  <2>1. Still(pe, se) /\ IsMachine(r)
    BY <1>2, <1>10, StoreKeeps
  <2>2. IsGuest(h) /\ h.tmp = g.tmp
    BY <1>2, StoreAtKeeps
  <2> QED BY <2>1, <2>2
<1>12. Agreed /\ SameExit(run, g) /\ se.bad = "" => SameMachine(r, h) /\ SameExit(r, h)
  <2> SUFFICES ASSUME Agreed, SameExit(run, g), se.bad = ""
               PROVE  SameMachine(r, h) /\ SameExit(r, h)
    OBVIOUS
  <2> HIDE DEF se
  <2>1. d.e.bad = "" /\ p.e.bad = ""
    BY <1>9, <1>11 DEF Still, Yields, de, pe
  <2>2. b \in BytesOf(ty) /\ dv.b = b /\ pv.b = ValueOf(g, a)
    BY <1>7, <1>9, <2>1 DEF Yields, dv, pv
  <2> QED BY <1>2, <1>6, <2>2, StoreSame
<1> HIDE DEF se, r, h
<1>13. InState(se)
  BY <1>11 DEF Still
<1> QED BY <1>1, <1>5, <1>11, <1>12, <1>13, Keeps DEF Preserves

\* The two halves of a linked load and conditional store.
LEMMA LLSC_emitLoadKeeps == ASSUME Struct, LLSC_emitLoad PROVE Preserves
<1>1. Emitting
  BY DEF LLSC_emitLoad
<1>2. /\ InState(em) /\ em.blk \in Seq(Names) /\ Temps /\ em.bad = ""
      /\ IsGuest(g) /\ IsMachine(run)
  BY <1>1, Starts DEF Struct
<1>3. PICK a \in Places("I16") :
        LET p == EmitAtom(em, a)
            v == load(p.e, p.v, "i16")
        IN  Commit(setRegValue(v.e, Dst, v.v), run,
                   SetTmp(g, "I16", Read(g.mem, Num(ValueOf(g, a)), 2)))
  BY DEF LLSC_emitLoad
<1> DEFINE p == EmitAtom(em, a)
           pe == p.e
           pv == p.v
           l == load(pe, pv, "i16")
           e == l.e
           v == l.v
           b == Read(g.mem, Num(ValueOf(g, a)), 2)
           h == SetTmp(g, "I16", b)
<1>4. Commit(setRegValue(e, Dst, v), run, h)
  BY <1>3
<1>5. a \in Atoms("I16") /\ "I16" \in Types /\ "i16" \in Carrier["I16"] /\ Size["I16"] = 2
      /\ Bytes["i16"] = 2
  BY DEF Places, Types, Carrier, Size, Bytes
<1>6. Yields(em, p, "I16", ValueOf(g, a))
  BY <1>2, <1>5, AtomYields
<1> HIDE DEF p
<1>7. InState(pe)
  BY <1>6 DEF Yields, Still
<1> HIDE DEF pe, pv
<1>8. Still(pe, e) /\ Fields(v) /\ v.ty = "i16" /\ Dominates(v.def, pe)
  BY <1>7, LoadIs
<1>9. Agreed /\ e.bad = "" => b \in BytesOf("I16") /\ v.b = b
  <2> SUFFICES ASSUME Agreed, e.bad = "" PROVE b \in BytesOf("I16") /\ v.b = b
    OBVIOUS
  <2> HIDE DEF e
  <2>1. pv.b = ValueOf(g, a)
    BY <1>6, <1>8 DEF Still, Yields, pv, pe
  <2>2. Num(ValueOf(g, a)) \in Nat /\ Num(ValueOf(g, a)) + Size["I16"] <= 4
    BY <1>5, PlaceIs
  <2>3. Num(pv.b) \in Nat /\ Num(pv.b) + Size["I16"] <= 4
    BY <2>1, <2>2
  <2>4. /\ load(pe, pv, "i16").v.b = Read(g.mem, Num(pv.b), Size["I16"])
        /\ Read(g.mem, Num(pv.b), Size["I16"]) \in BytesOf("I16")
    BY <1>5, <1>7, <2>3, LoadBytes
  <2> QED BY <1>5, <2>1, <2>4
<1> HIDE DEF e, v, b
<1>10. InState(e) /\ Carries(v, "I16") /\ Placed(v, e)
  BY <1>5, <1>8 DEF Still, Carries, Placed, Dominates
<1>11. Agreed /\ SameExit(run, g) /\ e.bad = "" => SameMachine(run, h) /\ SameExit(run, h)
  BY <1>2, SetTmpSame DEF Agreed
<1> QED BY <1>1, <1>2, <1>4, <1>5, <1>9, <1>10, <1>11, Defines DEF Preserves

LEMMA LinkedIs ==
    /\ Carries(getLinked, "I1") /\ getLinked.def = <<>> /\ getLinked.b = <<1>>
    /\ <<1>> \in BytesOf("I1") /\ \A r, s : If(getLinked, r, s) = r
<1>1. getLinked.def = <<>> /\ getLinked.b = <<1>> /\ getLinked.ty = "i1"
  BY DEF getLinked, Constant
<1>2. <<1>> \in BytesOf("I1")
  BY FlagBytes
<1>3. \A r, s : If(getLinked, r, s) = r
  BY <1>1 DEF If
<1>4. Fields(getLinked)
  <2> DEFINE b == <<1>>
  <2> HIDE DEF b
  <2>1. Fields(Constant("i1", b))
    BY ConstantIs
  <2> QED BY <2>1 DEF getLinked, b
<1>5. Carries(getLinked, "I1")
  BY <1>1, <1>4 DEF Carries, Carrier
<1> HIDE DEF getLinked
<1> QED BY <1>1, <1>2, <1>3, <1>5

LEMMA LLSC_emitStoreKeeps == ASSUME Struct, LLSC_emitStore PROVE Preserves
<1>1. Emitting
  BY DEF LLSC_emitStore
<1>2. /\ InState(em) /\ em.blk \in Seq(Names) /\ Temps /\ em.bad = ""
      /\ IsGuest(g) /\ IsMachine(run)
  BY <1>1, Starts DEF Struct
<1>3. PICK x \in Atoms("I16"), a \in Places("I16") :
        LET p == EmitAtom(Open(em, "linked"), a)
            d == EmitAtom(p.e, x)
            s == store(d.e, run, p.v, d.v)
            merge == At(s.e, Append(em.blk, "unlinked"))
        IN  Commit(setRegValue(merge, Dst, getLinked), If(getLinked, s.run, run),
                   SetTmp(StoreAt(g, Num(ValueOf(g, a)), ValueOf(g, x)), "I1", <<1>>))
  BY DEF LLSC_emitStore
<1> DEFINE o == Open(em, "linked")
           p == EmitAtom(o, a)
           pe == p.e
           pv == p.v
           d == EmitAtom(pe, x)
           de == d.e
           dv == d.v
           s == store(de, run, pv, dv)
           se == s.e
           e == At(se, Append(em.blk, "unlinked"))
           r == s.run
           b == ValueOf(g, x)
           h == StoreAt(g, Num(ValueOf(g, a)), b)
           one == <<1>>
<1>4. Commit(setRegValue(e, Dst, getLinked), r, SetTmp(h, "I1", one))
  BY <1>3, LinkedIs
<1>5. /\ a \in Atoms("I16") /\ "I16" \in Types /\ "I1" \in Types
      /\ "linked" \in Labels /\ "unlinked" \in Labels
  BY DEF Places, Types, Labels
<1>6. InState(o)
  BY <1>2, <1>5, Opens
<1> HIDE DEF o
<1>7. Yields(o, p, "I16", ValueOf(g, a))
  BY <1>2, <1>5, <1>6, AtomYields
<1> HIDE DEF p
<1>8. InState(pe)
  BY <1>7 DEF Yields, Still
<1> HIDE DEF pe
<1>9. Yields(pe, d, "I16", b)
  BY <1>2, <1>5, <1>8, AtomYields
<1> HIDE DEF d, b
<1>10. InState(de)
  BY <1>9 DEF Yields, Still
<1> HIDE DEF de, dv, pv
<1>11. Still(de, se) /\ IsMachine(r)
  BY <1>2, <1>10, StoreKeeps
<1>12. IsGuest(h) /\ h.tmp = g.tmp
  BY <1>2, StoreAtKeeps
<1> HIDE DEF se
<1>13. InState(se)
  BY <1>11 DEF Still
<1>14. InState(e) /\ e.bad = se.bad
  BY <1>2, <1>5, <1>13, Merges
<1> HIDE DEF e
<1>15. Agreed /\ SameExit(run, g) /\ e.bad = "" => SameMachine(r, h) /\ SameExit(r, h)
  <2> SUFFICES ASSUME Agreed, SameExit(run, g), e.bad = ""
               PROVE  SameMachine(r, h) /\ SameExit(r, h)
    OBVIOUS
  <2>1. d.e.bad = "" /\ p.e.bad = ""
    BY <1>9, <1>11, <1>14 DEF Still, Yields, de, pe
  <2>2. b \in BytesOf("I16") /\ dv.b = b /\ pv.b = ValueOf(g, a)
    BY <1>7, <1>9, <2>1 DEF Yields, dv, pv
  <2>3. "I16" # "I1"
    OBVIOUS
  <2> QED BY <1>2, <1>5, <2>2, <2>3, StoreSame
<1> HIDE DEF r, h
<1>16. e.blk \in Seq(Names)
  BY <1>14 DEF InState
<1>17. Dominates(getLinked.def, e)
  BY <1>16, LinkedIs, PrefixNone DEF Dominates
<1>18. /\ Carries(getLinked, "I1") /\ Placed(getLinked, e) /\ one \in BytesOf("I1") /\ getLinked.b = one
  BY <1>17, LinkedIs DEF Placed
<1> HIDE DEF one
<1>19. Agreed /\ SameExit(run, g) /\ e.bad = "" =>
         SameMachine(r, SetTmp(h, "I1", one)) /\ SameExit(r, SetTmp(h, "I1", one))
  BY <1>12, <1>15, SetTmpSame
<1> QED BY <1>1, <1>4, <1>5, <1>11, <1>12, <1>14, <1>18, <1>19, Defines DEF Preserves

LEMMA FlagIs ==
    ASSUME NEW b \in BytesOf("I1")
    PROVE  b[1] \in {0, 1}
  BY FlagBytes

LEMMA Chosen ==
    ASSUME NEW v, NEW s, NEW t, v.b \in BytesOf("I1")
    PROVE  (v.b[1] = 1 => If(v, s, t) = s) /\ (v.b[1] # 1 => If(v, s, t) = t)
<1> DEFINE b == v.b
<1>1. b[1] \in {0, 1}
  BY FlagIs
<1> QED BY <1>1 DEF If

\* A guarded store: the block where the branches meet is the same either way.
LEMMA StoreGKeeps == ASSUME Struct, StoreG PROVE Preserves
<1>1. Emitting
  BY DEF StoreG
<1>2. /\ InState(em) /\ em.blk \in Seq(Names) /\ Temps /\ em.bad = ""
      /\ IsGuest(g) /\ IsMachine(run)
  BY <1>1, Starts DEF Struct
<1>3. PICK c \in Atoms("I1"), x \in Data : \E a \in Places(TypeOf(g, x)) :
        LET q == EmitAtom(em, c)
            p == EmitAtom(Open(q.e, "storeg_then"), a)
            d == EmitAtom(p.e, x)
            s == store(d.e, run, p.v, d.v)
        IN  Commit(At(s.e, Append(q.e.blk, "storeg_merge")), If(q.v, s.run, run),
                   IF ValueOf(g, c)[1] = 1
                   THEN StoreAt(g, Num(ValueOf(g, a)), ValueOf(g, x)) ELSE g)
  BY DEF StoreG
<1> DEFINE ty == TypeOf(g, x)
<1>4. PICK a \in Places(ty) :
        LET q == EmitAtom(em, c)
            p == EmitAtom(Open(q.e, "storeg_then"), a)
            d == EmitAtom(p.e, x)
            s == store(d.e, run, p.v, d.v)
        IN  Commit(At(s.e, Append(q.e.blk, "storeg_merge")), If(q.v, s.run, run),
                   IF ValueOf(g, c)[1] = 1
                   THEN StoreAt(g, Num(ValueOf(g, a)), ValueOf(g, x)) ELSE g)
  BY <1>3
<1> DEFINE q == EmitAtom(em, c)
           qe == q.e
           qv == q.v
           o == Open(qe, "storeg_then")
           p == EmitAtom(o, a)
           pe == p.e
           pv == p.v
           d == EmitAtom(pe, x)
           de == d.e
           dv == d.v
           s == store(de, run, pv, dv)
           se == s.e
           e == At(se, Append(qe.blk, "storeg_merge"))
           sr == s.run
           cb == ValueOf(g, c)
           b == ValueOf(g, x)
           sh == StoreAt(g, Num(ValueOf(g, a)), b)
           r == If(qv, sr, run)
           h == IF cb[1] = 1 THEN sh ELSE g
<1>5. Commit(e, r, h)
  BY <1>4
<1>6. /\ ty \in Types /\ ty # "I1" /\ x \in Atoms(ty) /\ a \in Atoms("I16") /\ "I16" \in Types
      /\ "I1" \in Types /\ "storeg_then" \in Labels /\ "storeg_merge" \in Labels
  BY DataIs DEF Places, Types, Labels
<1> HIDE DEF ty
<1>7. Yields(em, q, "I1", cb)
  BY <1>2, <1>6, AtomYields
<1> HIDE DEF q, cb
<1>8. InState(qe)
  BY <1>7 DEF Yields, Still
<1> HIDE DEF qe
<1>9. InState(o) /\ o.bad = qe.bad
  BY <1>2, <1>6, <1>8, Opens
<1> HIDE DEF o
<1>10. Yields(o, p, "I16", ValueOf(g, a))
  BY <1>2, <1>6, <1>9, AtomYields
<1> HIDE DEF p
<1>11. InState(pe)
  BY <1>10 DEF Yields, Still
<1> HIDE DEF pe
<1>12. Yields(pe, d, ty, b)
  BY <1>2, <1>6, <1>11, AtomYields
<1> HIDE DEF d, b
<1>13. InState(de)
  BY <1>12 DEF Yields, Still
<1> HIDE DEF de, dv, pv, qv
<1>14. Still(de, se) /\ IsMachine(sr)
  BY <1>2, <1>13, StoreKeeps
<1>15. IsGuest(sh) /\ sh.tmp = g.tmp
  BY <1>2, StoreAtKeeps
<1> HIDE DEF se
<1>16. InState(se)
  BY <1>14 DEF Still
<1>17. InState(e) /\ e.bad = se.bad
  BY <1>2, <1>6, <1>8, <1>16, Merges
<1> HIDE DEF e
<1>18. Agreed /\ SameExit(run, g) /\ e.bad = "" => SameMachine(r, h) /\ SameExit(r, h)
  <2> SUFFICES ASSUME Agreed, SameExit(run, g), e.bad = ""
               PROVE  SameMachine(r, h) /\ SameExit(r, h)
    OBVIOUS
  <2>1. d.e.bad = "" /\ p.e.bad = "" /\ q.e.bad = ""
    BY <1>9, <1>10, <1>12, <1>14, <1>17 DEF Still, Yields, de, pe, qe
  <2>2. b \in BytesOf(ty) /\ dv.b = b /\ pv.b = ValueOf(g, a)
    BY <1>10, <1>12, <2>1 DEF Yields, dv, pv
  <2>3. qv.b = cb /\ cb \in BytesOf("I1")
    BY <1>7, <2>1 DEF Yields, qv
  <2>4. SameMachine(sr, sh) /\ SameExit(sr, sh)
    BY <1>2, <1>6, <2>2, StoreSame
  <2>5. SameMachine(run, g)
    BY DEF Agreed
  <2> HIDE DEF sr, sh
  <2>6. (qv.b[1] = 1 => r = sr) /\ (qv.b[1] # 1 => r = run)
    <3>1. qv.b \in BytesOf("I1")
      BY <2>3
    <3> QED BY <3>1, Chosen
  <2> HIDE DEF r
  <2>7. h = IF qv.b[1] = 1 THEN sh ELSE g
    BY <2>3, Zenon
  <2> QED BY <2>4, <2>5, <2>6, <2>7
<1> HIDE DEF sr, sh
<1>19. IsMachine(r) /\ IsGuest(h) /\ h.tmp = g.tmp
  BY <1>2, <1>14, <1>15 DEF If
<1> HIDE DEF r, h
<1> QED BY <1>1, <1>5, <1>17, <1>18, <1>19, Keeps DEF Preserves

LEMMA LoadGIs ==
    ASSUME NEW cvt \in DOMAIN LoadGs
    PROVE  /\ LoadGs[cvt] \in Types /\ LoadGs[cvt] # "I1"
           /\ LoadGType(cvt) \in Types /\ LoadGType(cvt) # "I1"
           /\ \A b \in BytesOf(LoadGs[cvt]) :
                loadg_ext(cvt, b) = Convert(cvt, b) /\ Convert(cvt, b) \in BytesOf(LoadGType(cvt))
<1>1. CASE cvt \in {"Ident32", "IdentV128"}
  <2>1. LoadGs[cvt] = LoadGType(cvt) /\ LoadGs[cvt] \in {"I16", "V"}
    BY <1>1 DEF LoadGs, LoadGType
  <2>2. \A b : loadg_ext(cvt, b) = b /\ Convert(cvt, b) = b
    BY <1>1 DEF loadg_ext, Convert
  <2> QED BY <2>1, <2>2 DEF Types
<1>2. CASE cvt \in {"Uto32", "Sto32"}
  <2>1. LoadGs[cvt] = "I8" /\ LoadGType(cvt) = "I16"
    BY <1>2 DEF LoadGs, LoadGType
  <2>2. ASSUME NEW b \in BytesOf("I8")
        PROVE  loadg_ext(cvt, b) = Convert(cvt, b) /\ Convert(cvt, b) \in BytesOf("I16")
    <3>1. b \in Seq(Digit) /\ Len(b) = 1 /\ b[1] \in Digit
      <4>1. b \in [1 .. 1 -> Digit] /\ 1 \in Nat
        BY ByteBytes
      <4>2. b \in Seq(Digit) /\ Len(b) = 1
        BY <4>1, BytesAre, Zenon
      <4>3. b[1] \in Digit
        BY <4>1
      <4> QED BY <4>2, <4>3
    <3>2. CASE cvt = "Uto32"
      <4> DEFINE t == <<0>>
      <4>1. t \in Seq(Digit) /\ Len(t) = 1 /\ t[1] = 0
        BY DEF Digit
      <4>2. Convert(cvt, b) = b \o t /\ loadg_ext(cvt, b) = [i \in 1 .. 2 |-> IF i = 1 THEN b[1] ELSE 0]
        BY <3>2 DEF Convert, loadg_ext
      <4> HIDE DEF t
      <4>3. b \o t = <<b[1], t[1]>>
        BY <3>1, <4>1, TwoBytes
      <4>4. <<b[1], t[1]>> = [i \in 1 .. 2 |-> IF i = 1 THEN b[1] ELSE 0]
        BY <4>1
      <4>5. [i \in 1 .. 2 |-> IF i = 1 THEN b[1] ELSE 0] \in [1 .. 2 -> Digit]
        BY <3>1 DEF Digit
      <4> QED BY <4>2, <4>3, <4>4, <4>5, WordBytes
    <3>3. CASE cvt = "Sto32"
      <4> DEFINE k == IF b[1] >= Digits \div 2 THEN Digits - 1 ELSE 0
                 t == <<k>>
      <4>0. k \in Digit /\ k = (b[1] \div 2) * 3
        BY <3>1 DEF Digit, Digits
      <4>1. t \in Seq(Digit) /\ Len(t) = 1 /\ t[1] = k
        BY <4>0
      <4>2. Convert(cvt, b) = b \o t
            /\ loadg_ext(cvt, b) = [i \in 1 .. 2 |-> IF i = 1 THEN b[1] ELSE (b[1] \div 2) * 3]
        BY <3>3 DEF Convert, loadg_ext
      <4> HIDE DEF t, k
      <4>3. b \o t = <<b[1], t[1]>>
        BY <3>1, <4>1, TwoBytes
      <4>4. <<b[1], t[1]>> = [i \in 1 .. 2 |-> IF i = 1 THEN b[1] ELSE k]
        BY <4>1
      <4>5. [i \in 1 .. 2 |-> IF i = 1 THEN b[1] ELSE k] \in [1 .. 2 -> Digit]
        BY <3>1, <4>0
      <4> QED BY <4>0, <4>2, <4>3, <4>4, <4>5, WordBytes
    <3> QED BY <1>2, <3>2, <3>3
  <2> QED BY <2>1, <2>2 DEF Types
<1> QED BY <1>1, <1>2 DEF LoadGs

LEMMA CheckIs ==
    ASSUME NEW e, InState(e), NEW ok, NEW why \in KnownIllFormed \ {""}
    PROVE  Still(e, Check(e, ok, why))
<1>1. CASE ok
  BY <1>1, StillSelf DEF Check
<1>2. CASE ~ok
  BY <1>2, FailIs DEF Check
<1> QED BY <1>1, <1>2

LEMMA PlaceLoad ==
    ASSUME NEW e, InState(e), NEW ty \in Types, ty # "I1", NEW l \in Carrier[ty],
           NEW a \in Places(ty), NEW pv
    PROVE  /\ Still(e, load(e, pv, l).e) /\ Carries(load(e, pv, l).v, ty)
           /\ Dominates(load(e, pv, l).v.def, e)
           /\ Agreed /\ pv.b = ValueOf(g, a) =>
                /\ load(e, pv, l).v.b = Read(g.mem, Num(ValueOf(g, a)), Size[ty])
                /\ Read(g.mem, Num(ValueOf(g, a)), Size[ty]) \in BytesOf(ty)
<1> DEFINE r == load(e, pv, l)
<1>1. Still(e, r.e) /\ Fields(r.v) /\ r.v.ty = l /\ Dominates(r.v.def, e)
  BY LoadIs
<1>2. Carries(r.v, ty)
  BY <1>1 DEF Carries
<1>3. ASSUME Agreed, pv.b = ValueOf(g, a)
      PROVE  /\ r.v.b = Read(g.mem, Num(ValueOf(g, a)), Size[ty])
             /\ Read(g.mem, Num(ValueOf(g, a)), Size[ty]) \in BytesOf(ty)
  <2>1. Num(ValueOf(g, a)) \in Nat /\ Num(ValueOf(g, a)) + Size[ty] <= 4
    BY <1>3, PlaceIs
  <2>2. Num(pv.b) \in Nat /\ Num(pv.b) + Size[ty] <= 4
    BY <1>3, <2>1
  <2>3. Bytes[l] = Size[ty]
    BY CarrierBytes
  <2>4. /\ r.v.b = Read(g.mem, Num(pv.b), Size[ty])
        /\ Read(g.mem, Num(pv.b), Size[ty]) \in BytesOf(ty)
    BY <1>3, <2>2, <2>3, LoadBytes
  <2> QED BY <1>3, <2>4
<1> HIDE DEF r
<1>4. QED BY <1>1, <1>2, <1>3 DEF r

\* A value of the block that opened a branch is good where the branch meets.
LEMMA MergePlaced ==
    ASSUME em.blk \in Seq(Names), NEW e, InState(e), NEW f, InState(f), NEW label \in Labels,
           NEW d \in Seq(Names), Dominates(d, e)
    PROVE  Dominates(d, At(f, Append(e.blk, label)))
<1> DEFINE m == At(f, Append(e.blk, label))
<1>1. label \in Names
  BY DEF Names
<1>2. IsPrefix(e.blk, m.blk) /\ InState(m)
  BY <1>1, AtIs
<1> HIDE DEF m
<1>3. e.blk \in Seq(Names) /\ m.blk \in Seq(Names) /\ IsPrefix(d, e.blk)
  BY <1>2 DEF InState, Dominates
<1>4. IsPrefix(d, m.blk)
  BY <1>2, <1>3, PrefixTrans
<1> QED BY <1>4 DEF Dominates, m

\* A guarded load: the phi takes the loaded or the alternative value.
LEMMA LoadGKeeps == ASSUME Struct, LoadG PROVE Preserves
<1>1. Emitting
  BY DEF LoadG
<1>2. /\ InState(em) /\ em.blk \in Seq(Names) /\ Temps /\ em.bad = ""
      /\ IsGuest(g) /\ IsMachine(run)
  BY <1>1, Starts DEF Struct
<1>3. PICK cvt \in DOMAIN LoadGs, c \in Atoms("I1") :
       \E a \in Places(LoadGs[cvt]), alt \in Atoms(LoadGType(cvt)) :
        LET q == EmitAtom(em, c)
            p == EmitAtom(q.e, a)
            o == EmitAtom(p.e, alt)
            l == load(Open(o.e, "loadg_then"), p.v, LLVMType[LoadGs[cvt]])
            ty == LLVMType[LoadGType(cvt)]
            merge == At(l.e, Append(o.e.blk, "loadg_merge"))
            phi == Fresh(Check(merge, o.v.ty = ty, "alternative"), ty,
                         If(q.v, loadg_ext(cvt, l.v.b), o.v.b))
            wide == Read(g.mem, Num(ValueOf(g, a)), Size[LoadGs[cvt]])
        IN  Commit(setRegValue(phi.e, Dst, phi.v), run,
                   SetTmp(g, LoadGType(cvt),
                          IF ValueOf(g, c)[1] = 1 THEN Convert(cvt, wide) ELSE ValueOf(g, alt)))
  BY DEF LoadG
<1> DEFINE from == LoadGs[cvt]
           to == LoadGType(cvt)
<1>4. PICK a \in Places(from), alt \in Atoms(to) :
        LET q == EmitAtom(em, c)
            p == EmitAtom(q.e, a)
            o == EmitAtom(p.e, alt)
            l == load(Open(o.e, "loadg_then"), p.v, LLVMType[from])
            ty == LLVMType[to]
            merge == At(l.e, Append(o.e.blk, "loadg_merge"))
            phi == Fresh(Check(merge, o.v.ty = ty, "alternative"), ty,
                         If(q.v, loadg_ext(cvt, l.v.b), o.v.b))
            wide == Read(g.mem, Num(ValueOf(g, a)), Size[from])
        IN  Commit(setRegValue(phi.e, Dst, phi.v), run,
                   SetTmp(g, to,
                          IF ValueOf(g, c)[1] = 1 THEN Convert(cvt, wide) ELSE ValueOf(g, alt)))
  BY <1>3
<1> DEFINE q == EmitAtom(em, c)
           qe == q.e
           qv == q.v
           p == EmitAtom(qe, a)
           pe == p.e
           pv == p.v
           o == EmitAtom(pe, alt)
           oe == o.e
           ov == o.v
           th == Open(oe, "loadg_then")
           lty == LLVMType[from]
           l == load(th, pv, lty)
           le == l.e
           lv == l.v
           ty == LLVMType[to]
           merge == At(le, Append(oe.blk, "loadg_merge"))
           e == Check(merge, ov.ty = ty, "alternative")
           ext == loadg_ext(cvt, lv.b)
           val == If(qv, ext, ov.b)
           phi == Fresh(e, ty, val)
           v == phi.v
           cb == ValueOf(g, c)
           ab == ValueOf(g, alt)
           wide == Read(g.mem, Num(ValueOf(g, a)), Size[from])
           conv == Convert(cvt, wide)
           b == IF cb[1] = 1 THEN conv ELSE ab
           h == SetTmp(g, to, b)
<1>5. Commit(setRegValue(phi.e, Dst, v), run, h)
  BY <1>4
<1>6. /\ from \in Types /\ from # "I1" /\ to \in Types
      /\ \A y \in BytesOf(from) : loadg_ext(cvt, y) = Convert(cvt, y) /\ Convert(cvt, y) \in BytesOf(to)
  BY LoadGIs
<1>7. /\ a \in Atoms("I16") /\ "I16" \in Types /\ "I1" \in Types
      /\ "loadg_then" \in Labels /\ "loadg_merge" \in Labels
      /\ "alternative" \in KnownIllFormed \ {""}
  BY DEF Places, Types, Labels, KnownIllFormed
<1>8. lty \in Carrier[from] /\ ty \in Carrier[to]
  BY <1>6, CarrierOf
<1> HIDE DEF from, to, lty, ty
<1>9. Yields(em, q, "I1", cb)
  BY <1>2, <1>7, AtomYields
<1> HIDE DEF q, cb
<1>10. InState(qe)
  BY <1>9 DEF Yields, Still
<1> HIDE DEF qe
<1>11. Yields(qe, p, "I16", ValueOf(g, a))
  BY <1>2, <1>7, <1>10, AtomYields
<1> HIDE DEF p
<1>12. InState(pe)
  BY <1>11 DEF Yields, Still
<1> HIDE DEF pe
<1>13. Yields(pe, o, to, ab)
  BY <1>2, <1>6, <1>12, AtomYields
<1> HIDE DEF o, ab
<1>14. InState(oe)
  BY <1>13 DEF Yields, Still
<1> HIDE DEF oe
<1>15. InState(th) /\ th.bad = oe.bad
  BY <1>2, <1>7, <1>14, Opens
<1> HIDE DEF th, pv
<1>16. /\ Still(th, le)
       /\ Agreed /\ pv.b = ValueOf(g, a) => lv.b = wide /\ wide \in BytesOf(from)
  BY <1>6, <1>8, <1>15, PlaceLoad
<1> HIDE DEF l, wide
<1>17. InState(le)
  BY <1>16 DEF Still
<1> HIDE DEF le, lv
<1>18. InState(merge) /\ merge.bad = le.bad
  BY <1>2, <1>7, <1>14, <1>17, Merges
<1> HIDE DEF merge, ov
<1>19. Still(merge, e)
  <2> DEFINE ok == ov.ty = ty
  <2> HIDE DEF ok
  <2>1. Still(merge, Check(merge, ok, "alternative"))
    BY <1>7, <1>18, CheckIs
  <2> QED BY <2>1 DEF ok
<1> HIDE DEF e
<1>20. InState(e) /\ e.blk \in Seq(Names)
  BY <1>19 DEF Still, InState
<1> HIDE DEF val
<1>21. phi.e = e /\ Fields(v) /\ v.ty = ty /\ v.b = val /\ v.def = e.blk
  BY <1>20, FreshIs
<1> HIDE DEF phi, v
<1>22. Dominates(v.def, e)
  BY <1>20, <1>21, PrefixSelf DEF Dominates
<1>23. Carries(v, to) /\ Placed(v, e)
  BY <1>8, <1>21, <1>22 DEF Carries, Placed
<1>24. Agreed /\ e.bad = "" => b \in BytesOf(to) /\ v.b = b
  <2> SUFFICES ASSUME Agreed, e.bad = "" PROVE b \in BytesOf(to) /\ val = b
    BY <1>21
  <2>1. q.e.bad = "" /\ p.e.bad = "" /\ o.e.bad = ""
    BY <1>11, <1>13, <1>15, <1>16, <1>18, <1>19 DEF Still, Yields, qe, pe, oe
  <2>2. pv.b = ValueOf(g, a)
    BY <1>11, <2>1 DEF Yields, pv
  <2>3. ov.b = ab /\ ab \in BytesOf(to)
    BY <1>13, <2>1 DEF Yields, ov
  <2>4. qv.b = cb /\ cb \in BytesOf("I1")
    BY <1>9, <2>1 DEF Yields
  <2>5. lv.b = wide /\ wide \in BytesOf(from)
    BY <1>16, <2>2
  <2>6. ext = conv /\ conv \in BytesOf(to)
    BY <1>6, <2>5
  <2> HIDE DEF ext, conv, qv
  <2>7. (qv.b[1] = 1 => val = ext) /\ (qv.b[1] # 1 => val = ov.b)
    <3>1. qv.b \in BytesOf("I1")
      BY <2>4
    <3> QED BY <3>1, Chosen DEF val
  <2>8. b = IF qv.b[1] = 1 THEN conv ELSE ab
    BY <2>4, Zenon
  <2> QED BY <2>3, <2>6, <2>7, <2>8
<1> HIDE DEF b
<1>25. Agreed /\ SameExit(run, g) /\ e.bad = "" => SameMachine(run, h) /\ SameExit(run, h)
  BY <1>2, SetTmpSame DEF Agreed
<1> QED BY <1>1, <1>2, <1>5, <1>6, <1>20, <1>21, <1>23, <1>24, <1>25, Defines DEF Preserves

\* Compare and swap, of one value and of two.
LEMMA CASKeeps == ASSUME Struct, CAS PROVE Preserves
<1>1. Emitting
  BY DEF CAS
<1>2. /\ InState(em) /\ em.blk \in Seq(Names) /\ Temps /\ em.bad = ""
      /\ IsGuest(g) /\ IsMachine(run)
  BY <1>1, Starts DEF Struct
<1>3. PICK a \in Places("I16"), x \in Atoms("I16"), y \in Atoms("I16") :
        LET p == EmitAtom(em, a)
            ex == EmitAtom(p.e, x)
            old == load(Integer(ex.e, ex.v), p.v, ex.v.ty)
            new == EmitAtom(Open(old.e, "cas_match_expect"), y)
            s == store(new.e, run, p.v, new.v)
            merge == At(s.e, Append(old.e.blk, "cas_merge"))
            at == Num(ValueOf(g, a))
            was == Read(g.mem, at, 2)
        IN  Commit(setRegValue(merge, Dst, old.v), IF ex.v.b = old.v.b THEN s.run ELSE run,
                   SetTmp(IF was = ValueOf(g, x) THEN StoreAt(g, at, ValueOf(g, y)) ELSE g,
                          "I16", was))
  BY DEF CAS
<1> DEFINE p == EmitAtom(em, a)
           pe == p.e
           pv == p.v
           ex == EmitAtom(pe, x)
           xe == ex.e
           xv == ex.v
           xty == xv.ty
           ie == Integer(xe, xv)
           old == load(ie, pv, xty)
           oe == old.e
           ov == old.v
           th == Open(oe, "cas_match_expect")
           new == EmitAtom(th, y)
           ne == new.e
           nv == new.v
           s == store(ne, run, pv, nv)
           se == s.e
           e == At(se, Append(oe.blk, "cas_merge"))
           sr == s.run
           xb == ValueOf(g, x)
           yb == ValueOf(g, y)
           at == Num(ValueOf(g, a))
           was == Read(g.mem, at, 2)
           sh == StoreAt(g, at, yb)
           r == IF xv.b = ov.b THEN sr ELSE run
           h == IF was = xb THEN sh ELSE g
<1>4. Commit(setRegValue(e, Dst, ov), r, SetTmp(h, "I16", was))
  BY <1>3
<1>5. /\ a \in Atoms("I16") /\ "I16" \in Types /\ "I16" # "I1" /\ Size["I16"] = 2
      /\ "cas_match_expect" \in Labels /\ "cas_merge" \in Labels
  BY DEF Places, Types, Labels, Size
<1>6. Yields(em, p, "I16", ValueOf(g, a))
  BY <1>2, <1>5, AtomYields
<1> HIDE DEF p
<1>7. InState(pe)
  BY <1>6 DEF Yields, Still
<1> HIDE DEF pe
<1>8. Yields(pe, ex, "I16", xb)
  BY <1>2, <1>5, <1>7, AtomYields
<1> HIDE DEF ex, xb
<1>9. InState(xe) /\ xty \in Carrier["I16"]
  BY <1>8 DEF Yields, Still, Carries
<1> HIDE DEF xe, xv
<1>10. Still(xe, ie)
  BY <1>9, IntegerIs
<1> HIDE DEF ie
<1>11. InState(ie)
  BY <1>10 DEF Still
<1> HIDE DEF pv, xty
<1>12. /\ Still(ie, oe) /\ Carries(ov, "I16") /\ Dominates(ov.def, ie)
       /\ Agreed /\ pv.b = ValueOf(g, a) => ov.b = was /\ was \in BytesOf("I16")
  BY <1>5, <1>9, <1>11, PlaceLoad
<1> HIDE DEF old, was
<1>13. InState(oe) /\ Dominates(ov.def, oe) /\ ov.def \in Seq(Names)
  BY <1>12 DEF Still, Dominates, Carries, Fields
<1> HIDE DEF oe
<1>14. InState(th) /\ th.bad = oe.bad
  BY <1>2, <1>5, <1>13, Opens
<1> HIDE DEF th
<1>15. Yields(th, new, "I16", yb)
  BY <1>2, <1>5, <1>14, AtomYields
<1> HIDE DEF new, yb
<1>16. InState(ne)
  BY <1>15 DEF Yields, Still
<1> HIDE DEF ne, nv
<1>17. Still(ne, se) /\ IsMachine(sr)
  BY <1>2, <1>16, StoreKeeps
<1>18. IsGuest(sh) /\ sh.tmp = g.tmp
  BY <1>2, StoreAtKeeps
<1> HIDE DEF se
<1>19. InState(se)
  BY <1>17 DEF Still
<1>20. InState(e) /\ e.bad = se.bad
  BY <1>2, <1>5, <1>13, <1>19, Merges
<1>21. Dominates(ov.def, e)
  BY <1>2, <1>5, <1>13, <1>19, MergePlaced
<1> HIDE DEF e
<1>22. ASSUME Agreed, e.bad = ""
       PROVE  /\ xv.b = xb /\ nv.b = yb /\ yb \in BytesOf("I16") /\ pv.b = ValueOf(g, a)
              /\ ov.b = was /\ was \in BytesOf("I16")
  <2>1. p.e.bad = "" /\ ex.e.bad = "" /\ new.e.bad = ""
    BY <1>8, <1>10, <1>12, <1>14, <1>15, <1>17, <1>20, <1>22 DEF Still, Yields, pe, xe, ne, oe
  <2>2. pv.b = ValueOf(g, a)
    BY <1>6, <1>22, <2>1 DEF Yields, pv
  <2>3. xv.b = xb
    BY <1>8, <1>22, <2>1 DEF Yields, xv
  <2>4. nv.b = yb /\ yb \in BytesOf("I16")
    BY <1>15, <1>22, <2>1 DEF Yields, nv
  <2>5. ov.b = was /\ was \in BytesOf("I16")
    BY <1>12, <1>22, <2>2
  <2> QED BY <2>2, <2>3, <2>4, <2>5
<1>23. Agreed /\ SameExit(run, g) /\ e.bad = "" => SameMachine(r, h) /\ SameExit(r, h)
  <2> SUFFICES ASSUME Agreed, SameExit(run, g), e.bad = ""
               PROVE  SameMachine(r, h) /\ SameExit(r, h)
    OBVIOUS
  <2>1. SameMachine(sr, sh) /\ SameExit(sr, sh)
    BY <1>2, <1>5, <1>22, StoreSame
  <2>2. SameMachine(run, g)
    BY DEF Agreed
  <2> HIDE DEF sr, sh, ov
  <2>3. xv.b = xb /\ ov.b = was
    BY <1>22
  <2>4. CASE was = xb
    <3>1. xv.b = ov.b
      BY <2>3, <2>4, Zenon
    <3>2. r = sr /\ h = sh
      BY <2>4, <3>1, Zenon
    <3> QED BY <2>1, <3>2
  <2>5. CASE was # xb
    <3>1. xv.b # ov.b
      BY <2>3, <2>5, Zenon
    <3>2. r = run /\ h = g
      BY <2>5, <3>1, Zenon
    <3> QED BY <2>2, <3>2
  <2> QED BY <2>4, <2>5
<1> HIDE DEF sr, sh, ov
<1>24. IsMachine(r) /\ IsGuest(h) /\ h.tmp = g.tmp
  BY <1>2, <1>17, <1>18
<1>25. Placed(ov, e)
  BY <1>21 DEF Placed
<1> HIDE DEF r, h
<1>26. Agreed /\ SameExit(run, g) /\ e.bad = "" =>
         SameMachine(r, SetTmp(h, "I16", was)) /\ SameExit(r, SetTmp(h, "I16", was))
  BY <1>23, <1>24, SetTmpSame
<1> QED BY <1>1, <1>4, <1>5, <1>12, <1>20, <1>22, <1>24, <1>25, <1>26, Defines DEF Preserves

\* The registers of run, with t for the exit type.
ExitsWith(rc, t) ==
    /\ DOMAIN rc = DOMAIN run.ctx /\ rc[ExitTypeOffset] = t
    /\ \A i \in Offsets : rc[i] = run.ctx[i]

LEMMA ExitTypeIs ==
    ASSUME NEW e, InState(e), NEW t, DOMAIN run.ctx = Offsets \cup {ExitTypeOffset}
    PROVE  Still(e, setExitType(e, t).e) /\ ExitsWith(setExitType(e, t).ctx, t)
<1> DEFINE b == <<t>>
           v == Constant("i8", b)
           w == writeCtx(e, ExitTypeOffset, v)
<1>0. b \in Seq({t}) /\ Len(b) = 1 /\ b[1] = t
  OBVIOUS
<1>1. setExitType(e, t) = w
  BY DEF setExitType
<1> HIDE DEF b
<1>2. v.ty = "i8" /\ v.b = b
  BY DEF Constant
<1> HIDE DEF v
<1>3. /\ Still(e, w.e)
      /\ w.ctx = Write(run.ctx, (ExitTypeOffset \div Bytes[v.ty]) * Bytes[v.ty], v.b)
  BY WriteCtxIs
<1>4. (ExitTypeOffset \div Bytes["i8"]) * Bytes["i8"] = 6 /\ ExitTypeOffset = 6
  BY DEF ExitTypeOffset, Bytes
<1>5. w.ctx = Write(run.ctx, 6, b)
  BY <1>2, <1>3, <1>4
<1> HIDE DEF w
<1> DEFINE rc == Write(run.ctx, 6, b)
<1>6. DOMAIN rc = DOMAIN run.ctx /\ rc[6] = t /\ \A i \in 0 .. 5 : rc[i] = run.ctx[i]
  BY <1>0, <1>4 DEF Write, Offsets
<1> HIDE DEF rc
<1>7. ExitsWith(rc, t)
  BY <1>4, <1>6 DEF ExitsWith, Offsets
<1> QED BY <1>1, <1>3, <1>5, <1>7 DEF rc

Left(r, rc, to) == [r EXCEPT !.ctx = rc, !.out = to]
LeftBy(h, to, jk) == [h EXCEPT !.out = [to |-> to, jk |-> jk]]

\* Control leaves, with the exit type the guest means.
LEMMA Leaves ==
    ASSUME SameMachine(run, g), SameExit(run, g), IsMachine(run), IsGuest(g),
           NEW rc, NEW jk, ExitsWith(rc, ExitType[jk]), NEW to \in Nat
    PROVE  SameMachine(Left(run, rc, to), LeftBy(g, to, jk)) /\ SameExit(Left(run, rc, to), LeftBy(g, to, jk))
<1> DEFINE out == [to |-> to, jk |-> jk]
           r == [run EXCEPT !.ctx = rc, !.out = to]
           h == [g EXCEPT !.out = out]
<1>1. out.to = to /\ out.jk = jk /\ to # -1
  OBVIOUS
<1> HIDE DEF out
<1>2. IsMachine(r) /\ r.ctx = rc /\ r.out = to /\ r.mem = run.mem /\ r.log = run.log
  BY DEF IsMachine
<1>3. IsGuest(h) /\ h.out = out /\ h.tmp = g.tmp /\ h.ctx = g.ctx /\ h.mem = g.mem /\ h.log = g.log
  BY DEF IsGuest
<1> HIDE DEF r, h
<1>4. SameMachine(r, h)
  BY <1>2, <1>3 DEF SameMachine, ExitsWith
<1>5. SameExit(r, h)
  BY <1>1, <1>2, <1>3 DEF SameExit, ExitsWith
<1> QED BY <1>4, <1>5 DEF r, h, out, Left, LeftBy

LEMMA ExitKinds ==
    \A jk \in DOMAIN exit_type :
        /\ jk \in DOMAIN ExitType /\ exit_type[jk] = ExitType[jk]
        /\ jk = "Boring" => ExitType[jk] = "GE_IGNORE"
  BY DEF exit_type, ExitType

\* A side exit: taken, it leaves with its exit type; not taken, emission goes
\* on in the block that follows.
LEMMA ExitKeeps == ASSUME Struct, Exit PROVE Preserves
<1>1. Emitting
  BY DEF Exit
<1>2. /\ InState(em) /\ em.blk \in Seq(Names) /\ Temps /\ em.bad = ""
      /\ IsGuest(g) /\ IsMachine(run)
  BY <1>1, Starts DEF Struct
<1>3. PICK c \in Atoms("I1"), jk \in JumpKinds, dst \in {7} :
        LET q == EmitAtom(em, c)
            then == Open(q.e, "exit_then")
            w == IF jk = "Boring" THEN [e |-> then, ctx |-> run.ctx]
                 ELSE setExitType(then, exit_type[jk])
            else == At(w.e, Append(q.e.blk, "exit_else"))
        IN  IF jk \notin DOMAIN exit_type
            THEN Commit(Fail(em, "jump kind"), run, g)
            ELSE Commit(else, If(q.v, [run EXCEPT !.ctx = w.ctx, !.out = dst], run),
                        IF ValueOf(g, c)[1] = 1
                        THEN [g EXCEPT !.out = [to |-> dst, jk |-> jk]] ELSE g)
  BY DEF Exit
<1>4. CASE jk \notin DOMAIN exit_type
  <2> DEFINE e == Fail(em, "jump kind")
  <2>1. Commit(e, run, g)
    BY <1>3, <1>4
  <2>2. "jump kind" \in KnownIllFormed \ {""}
    BY DEF KnownIllFormed
  <2>3. Still(em, e) /\ e.bad # ""
    BY <1>2, <2>2, FailIs
  <2> HIDE DEF e
  <2>4. InState(e)
    BY <2>3 DEF Still
  <2> QED BY <1>1, <1>2, <2>1, <2>3, <2>4, Keeps DEF Preserves
<1>5. CASE jk \in DOMAIN exit_type
  <2> DEFINE q == EmitAtom(em, c)
             qe == q.e
             qv == q.v
             th == Open(qe, "exit_then")
             w == IF jk = "Boring" THEN [e |-> th, ctx |-> run.ctx]
                  ELSE setExitType(th, exit_type[jk])
             we == w.e
             rc == w.ctx
             e == At(we, Append(qe.blk, "exit_else"))
             cb == ValueOf(g, c)
             sr == [run EXCEPT !.ctx = rc, !.out = dst]
             sh == [g EXCEPT !.out = [to |-> dst, jk |-> jk]]
             r == If(qv, sr, run)
             h == IF cb[1] = 1 THEN sh ELSE g
  <2>1. Commit(e, r, h)
    BY <1>3, <1>5
  <2>2. "I1" \in Types /\ "exit_then" \in Labels /\ "exit_else" \in Labels
    BY DEF Types, Labels
  <2>3. Yields(em, q, "I1", cb)
    BY <1>2, <2>2, AtomYields
  <2> HIDE DEF q, cb
  <2>4. InState(qe)
    BY <2>3 DEF Yields, Still
  <2> HIDE DEF qe
  <2>5. InState(th) /\ th.bad = qe.bad
    BY <1>2, <2>2, <2>4, Opens
  <2> HIDE DEF th
  <2>6. Still(th, we)
    <3>1. CASE jk = "Boring"
      <4>1. we = th
        BY <3>1
      <4> QED BY <2>5, <4>1, StillSelf
    <3>2. CASE jk # "Boring"
      <4> DEFINE t == exit_type[jk]
                 s == setExitType(th, t)
      <4>1. we = s.e
        BY <3>2
      <4> HIDE DEF t
      <4>2. Still(th, s.e)
        <5> DEFINE v == Constant("i8", <<t>>)
        <5>1. s = writeCtx(th, ExitTypeOffset, v)
          BY DEF setExitType
        <5> HIDE DEF v
        <5>2. Still(th, writeCtx(th, ExitTypeOffset, v).e)
          BY <2>5, WriteCtxIs
        <5> QED BY <5>1, <5>2
      <4> QED BY <4>1, <4>2
    <3> QED BY <3>1, <3>2
  <2>7. ASSUME SameMachine(run, g), SameExit(run, g) PROVE ExitsWith(rc, ExitType[jk])
    <3>1. DOMAIN run.ctx = Offsets \cup {ExitTypeOffset}
      BY <2>7 DEF SameMachine
    <3>2. CASE jk = "Boring"
      <4>1. rc = run.ctx
        BY <3>2
      <4>2. run.ctx[ExitTypeOffset] = "GE_IGNORE"
        BY <1>1, <2>7 DEF SameExit, Emitting
      <4> QED BY <1>5, <3>2, <4>1, <4>2, ExitKinds DEF ExitsWith
    <3>3. CASE jk # "Boring"
      <4> DEFINE t == exit_type[jk]
                 s == setExitType(th, t)
      <4>1. rc = s.ctx
        BY <3>3
      <4>2. t = ExitType[jk]
        BY <1>5, ExitKinds
      <4> HIDE DEF t
      <4>3. ExitsWith(s.ctx, t)
        BY <2>5, <3>1, ExitTypeIs
      <4> QED BY <4>1, <4>2, <4>3
    <3> QED BY <3>2, <3>3
  <2>7a. dst \in Nat
    OBVIOUS
  <2> HIDE DEF w
  <2>8. InState(we)
    BY <2>6 DEF Still
  <2> HIDE DEF we, rc
  <2>9. InState(e) /\ e.bad = we.bad
    BY <1>2, <2>2, <2>4, <2>8, Merges
  <2> HIDE DEF e
  <2>10. IsMachine(sr) /\ IsGuest(sh) /\ sh.tmp = g.tmp
    BY <1>2 DEF IsMachine, IsGuest
  <2>11. Agreed /\ SameExit(run, g) /\ e.bad = "" => SameMachine(r, h) /\ SameExit(r, h)
    <3> SUFFICES ASSUME Agreed, SameExit(run, g), e.bad = ""
                 PROVE  SameMachine(r, h) /\ SameExit(r, h)
      OBVIOUS
    <3>1. SameMachine(run, g)
      BY DEF Agreed
    <3>2. q.e.bad = ""
      BY <2>5, <2>6, <2>9 DEF Still, qe
    <3>3. qv.b = cb /\ cb \in BytesOf("I1")
      BY <2>3, <3>2 DEF Yields
    <3>4. ExitsWith(rc, ExitType[jk])
      BY <2>7, <3>1, Zenon
    <3>5. SameMachine(sr, sh) /\ SameExit(sr, sh)
      <4>1. SameMachine(Left(run, rc, dst), LeftBy(g, dst, jk)) /\ SameExit(Left(run, rc, dst), LeftBy(g, dst, jk))
        BY <1>2, <2>7a, <3>1, <3>4, Leaves
      <4> QED BY <4>1 DEF Left, LeftBy
    <3> HIDE DEF sr, sh, qv
    <3>6. (qv.b[1] = 1 => r = sr) /\ (qv.b[1] # 1 => r = run)
      <4>1. qv.b \in BytesOf("I1")
        BY <3>3
      <4> QED BY <4>1, Chosen
    <3> HIDE DEF r
    <3>7. h = IF qv.b[1] = 1 THEN sh ELSE g
      BY <3>3, Zenon
    <3> QED BY <3>1, <3>5, <3>6, <3>7
  <2> HIDE DEF sr, sh, qv
  <2>12. IsMachine(r) /\ IsGuest(h) /\ h.tmp = g.tmp
    BY <1>2, <2>10 DEF If
  <2> HIDE DEF r, h
  <2> QED BY <1>1, <2>1, <2>9, <2>11, <2>12, Keeps DEF Preserves
<1> QED BY <1>4, <1>5

LEMMA FitDigits ==
    ASSUME NEW m \in Nat, NEW n \in Nat, NEW b \in [1 .. m -> Digit]
    PROVE  Fit(b, n) \in [1 .. n -> Digit]
<1>1. Len(b) = m
  BY BytesAre
<1>2. 0 \in Digit
  BY DEF Digit
<1>3. \A i \in 1 .. n : (IF i <= m THEN b[i] ELSE 0) \in Digit
  BY <1>2
<1> QED BY <1>1, <1>3 DEF Fit

LEMMA DirtyBytes ==
    ASSUME NEW arg \in BytesOf("I16"), NEW ret \in {1, 2}, NEW tmp \in {"I8", "I16"}
    PROVE  /\ Fit(Fit(Dirtied(arg), ret), Size[tmp]) \in BytesOf(tmp)
           /\ <<arg[1]>> \in [1 .. 1 -> Digit]
<1>1. arg[1] \in Digit
  BY WordIs
<1>2. Dirtied(arg) \in [1 .. 2 -> Digit] /\ <<arg[1]>> \in [1 .. 1 -> Digit]
  BY <1>1 DEF Dirtied, Digit
<1> DEFINE d == Dirtied(arg)
           f == Fit(d, ret)
           n == Size[tmp]
<1>3. n \in Nat /\ BytesOf(tmp) = [1 .. n -> Digit]
  BY DEF Size, BytesOf
<1>4. ret \in Nat /\ 2 \in Nat
  OBVIOUS
<1> HIDE DEF d, n
<1>5. f \in [1 .. ret -> Digit]
  BY <1>2, <1>4, FitDigits DEF d
<1> HIDE DEF f
<1>6. Fit(f, n) \in [1 .. n -> Digit]
  BY <1>3, <1>4, <1>5, FitDigits
<1> QED BY <1>2, <1>3, <1>6 DEF f, d, n

LEMMA DirtyBranchIs ==
    ASSUME em.blk \in Seq(Names), NEW e, InState(e), NEW c
    PROVE  /\ InState(DirtyBranch(e, c).e) /\ DirtyBranch(e, c).e.bad = e.bad
           /\ DirtyBranch(e, c).br \in BOOLEAN
           /\ ~DirtyBranch(e, c).br => c.b = <<1>> /\ DirtyBranch(e, c).e.blk = e.blk
           /\ DirtyBranch(e, c).br => DirtyBranch(e, c).e.blk = Append(e.blk, "dirty_then")
<1> DEFINE d == DirtyBranch(e, c)
<1>1. CASE c.const /\ c.b = <<1>>
  <2>1. d.e = e /\ d.br = FALSE
    BY <1>1 DEF DirtyBranch
  <2> HIDE DEF d
  <2> QED BY <1>1, <2>1 DEF d
<1>2. CASE ~(c.const /\ c.b = <<1>>)
  <2> DEFINE o == Open(e, "dirty_then")
  <2>1. d.e = o /\ d.br = TRUE
    BY <1>2 DEF DirtyBranch
  <2>2. o.blk = Append(e.blk, "dirty_then")
    BY DEF Open, InState
  <2>3. "dirty_then" \in Labels
    BY DEF Labels
  <2>4. InState(o) /\ o.bad = e.bad
    BY <2>3, Opens
  <2> HIDE DEF d, o
  <2> QED BY <2>1, <2>2, <2>4 DEF d
<1> QED BY <1>1, <1>2

LEMMA AtSet ==
    \A e, t, v, blk : InState(e) => At(setRegValue(e, t, v), blk) = setRegValue(At(e, blk), t, v)
<1> SUFFICES ASSUME NEW e, NEW t, NEW v, NEW blk, InState(e)
             PROVE  At(setRegValue(e, t, v), blk) = setRegValue(At(e, blk), t, v)
  OBVIOUS
<1>1. e \in [blk : {e.blk}, vals : {e.vals}, gep : {e.gep}, cast : {e.cast}, bad : {e.bad}]
  BY DEF InState
<1>2. At(e, blk).vals = e.vals /\ At(e, blk).bad = e.bad
  BY <1>1 DEF At
<1>3. CASE t <= Len(e.vals)
  BY <1>1, <1>2, <1>3 DEF setRegValue, At, Fail
<1>4. CASE ~(t <= Len(e.vals))
  <2> DEFINE w == Append(e.vals, v)
  <2>1. setRegValue(e, t, v) = [e EXCEPT !.vals = w]
    BY <1>4 DEF setRegValue
  <2>2. setRegValue(At(e, blk), t, v) = [At(e, blk) EXCEPT !.vals = w]
    BY <1>2, <1>4 DEF setRegValue
  <2> HIDE DEF w
  <2> QED BY <1>1, <2>1, <2>2 DEF At
<1> QED BY <1>3, <1>4

\* The value of a guarded call stays in the branch.
LEMMA Guarded ==
    ASSUME NEW s \in Seq(Names), NEW v, v.def = Append(s, "dirty_then"),
           NEW e, e.blk = Append(s, "dirty_merge")
    PROVE  Placed(v, e) /\ ~Dominates(v.def, e)
<1> DEFINE t == Append(s, "dirty_then")
           u == Append(s, "dirty_merge")
<1>1. "dirty_then" \in Names /\ "dirty_merge" \in Names /\ "dirty_then" # "dirty_merge"
  BY DEF Names, Labels
<1>2. ~IsPrefix(t, u)
  BY <1>1, Siblings
<1>3. Len(t) = Len(s) + 1 /\ Len(u) = Len(s) + 1 /\ Len(s) \in Nat /\ t[Len(s) + 1] = "dirty_then"
  BY <1>1
<1>4. t \in Seq(Names)
  BY <1>1
<1> HIDE DEF t, u
<1>5. Len(t) <= Len(u) /\ Last(t) = "dirty_then" /\ Len(t) > 0
  BY <1>3 DEF Last
<1>6. t # <<>>
  BY <1>4, <1>5, NotEmpty
<1>7. v.def = t /\ e.blk = u
  BY DEF t, u
<1> QED BY <1>2, <1>5, <1>6, <1>7 DEF Placed, Dominates

LEMMA FlagCases ==
    ASSUME NEW c, c \in BytesOf("I1")
    PROVE  /\ c[1] = 1 => ~(c[1] = 0)
           /\ ~(c[1] = 1) => c[1] = 0
           /\ c = <<1>> => c[1] = 1
<1>1. c[1] \in {0, 1}
  BY FlagIs
<1>2. c = <<1>> => c[1] = 1
  OBVIOUS
<1> QED BY <1>1, <1>2

LEMMA FirstByte == 0 \in Nat /\ 1 \in Nat /\ 0 + 1 <= 6
  OBVIOUS

\* A call of a helper, guarded or not.
LEMMA DirtyKeeps == ASSUME Struct, Dirty PROVE Preserves
<1>1. Emitting
  BY DEF Dirty
<1>2. /\ InState(em) /\ em.blk \in Seq(Names) /\ Temps /\ em.bad = ""
      /\ IsGuest(g) /\ IsMachine(run)
  BY <1>1, Starts DEF Struct
<1>3. PICK c \in Atoms("I1"), ret \in {1, 2}, tmp \in {"none", "I8", "I16"},
          args \in {<<>>} \cup {<<x>> : x \in Atoms("I16")} :
        LET q == EmitAtom(em, c)
            b == DirtyBranch(q.e, q.v)
        IN  IF args = <<>>
            THEN Commit(Fail(b.e, "no arguments"), run, g)
            ELSE LET x == EmitAtom(b.e, args[1])
                     call == Integer(x.e, x.v)
                     bytes == Fit(Dirtied(x.v.b), ret)
                     res == Fresh(call, LLVMType[tmp], Fit(bytes, Size[tmp]))
                     e1 == IF tmp = "none" THEN call ELSE setRegValue(call, Dst, res.v)
                     arg == ValueOf(g, args[1])
                     h == IF ValueOf(g, c)[1] = 1
                          THEN [g EXCEPT !.ctx = Write(@, 0, <<arg[1]>>)] ELSE g
                 IN  Commit(IF b.br THEN At(e1, Append(q.e.blk, "dirty_merge")) ELSE e1,
                            IF b.br /\ q.v.b[1] = 0 THEN run
                            ELSE [run EXCEPT !.ctx = Write(@, 0, <<x.v.b[1]>>)],
                            IF tmp = "none" THEN h
                            ELSE SetTmp(h, tmp, Fit(Fit(Dirtied(arg), ret), Size[tmp])))
  BY DEF Dirty
<1> DEFINE q == EmitAtom(em, c)
           qe == q.e
           qv == q.v
           cb == ValueOf(g, c)
           d == DirtyBranch(qe, qv)
           de == d.e
<1>4. "I1" \in Types /\ "I16" \in Types /\ "dirty_merge" \in Labels
      /\ "no arguments" \in KnownIllFormed \ {""}
  BY DEF Types, Labels, KnownIllFormed
<1>5. Yields(em, q, "I1", cb)
  BY <1>2, <1>4, AtomYields
<1>6. InState(qe) /\ qe.blk \in Seq(Names)
  <2> HIDE DEF q, cb
  <2> QED BY <1>5 DEF Yields, Still, InState
<1>7. /\ InState(de) /\ de.bad = qe.bad /\ d.br \in BOOLEAN
      /\ ~d.br => qv.b = <<1>> /\ de.blk = qe.blk
      /\ d.br => de.blk = Append(qe.blk, "dirty_then")
  <2> HIDE DEF qe, qv
  <2> QED BY <1>2, <1>6, DirtyBranchIs
<1>8. CASE args = <<>>
  <2> DEFINE e == Fail(de, "no arguments")
  <2>1. Commit(e, run, g)
    BY <1>3, <1>8
  <2> HIDE DEF de
  <2>2. Still(de, e) /\ e.bad # ""
    BY <1>4, <1>7, FailIs
  <2> HIDE DEF e
  <2>3. InState(e)
    BY <2>2 DEF Still
  <2> QED BY <1>1, <1>2, <2>1, <2>2, <2>3, Keeps DEF Preserves
<1>9. CASE args # <<>>
  <2>1. PICK x \in Atoms("I16") : args[1] = x
    BY <1>9
  <2> DEFINE a == EmitAtom(de, x)
             ae == a.e
             av == a.v
             call == Integer(ae, av)
             fit == Fit(Fit(Dirtied(av.b), ret), Size[tmp])
             res == Fresh(call, LLVMType[tmp], fit)
             v == res.v
             arg == ValueOf(g, x)
             merge == Append(qe.blk, "dirty_merge")
             e == IF d.br THEN At(call, merge) ELSE call
             wr == [run EXCEPT !.ctx = Write(run.ctx, 0, <<av.b[1]>>)]
             wh == [g EXCEPT !.ctx = Write(g.ctx, 0, <<arg[1]>>)]
             r == IF d.br /\ qv.b[1] = 0 THEN run ELSE wr
             h == IF cb[1] = 1 THEN wh ELSE g
             fb == Fit(Fit(Dirtied(arg), ret), Size[tmp])
  <2>2. /\ tmp = "none" => Commit(e, r, h)
        /\ tmp # "none" =>
             Commit(IF d.br THEN At(setRegValue(call, Dst, v), merge) ELSE setRegValue(call, Dst, v),
                    r, SetTmp(h, tmp, fb))
    BY <1>3, <1>9, <2>1
  <2> HIDE DEF q, qe, qv, d, de, cb
  <2>3. Yields(de, a, "I16", arg)
    BY <1>2, <1>4, <1>7, AtomYields
  <2> HIDE DEF a, arg
  <2>4. InState(ae) /\ ae.blk = de.blk /\ (ae.bad = "" => de.bad = "")
    BY <2>3 DEF Yields, Still
  <2> HIDE DEF ae
  <2>5. Still(ae, call)
    BY <2>4, IntegerIs
  <2> HIDE DEF call
  <2>6. InState(call) /\ call.blk = de.blk /\ (call.bad = "" => ae.bad = "" /\ de.bad = "")
    BY <2>4, <2>5 DEF Still
  <2>7. InState(e) /\ e.bad = call.bad /\ (~d.br => e.blk = qe.blk) /\ (d.br => e.blk = merge)
    <3>1. CASE d.br
      <4> DEFINE m == At(call, Append(qe.blk, "dirty_merge"))
      <4>1. InState(m) /\ m.bad = call.bad
        BY <1>2, <1>4, <1>6, <2>6, Merges
      <4>2. m.blk = merge
        BY <2>6 DEF At, InState
      <4>3. e = m
        BY <3>1
      <4> HIDE DEF m, e, merge
      <4> QED BY <3>1, <4>1, <4>2, <4>3
    <3>2. CASE ~d.br
      <4>1. e = call
        BY <3>2
      <4> HIDE DEF e
      <4> QED BY <1>7, <2>6, <3>2, <4>1
    <3> QED BY <3>1, <3>2
  <2>8. tmp # "none" => Commit(setRegValue(e, Dst, v), r, SetTmp(h, tmp, fb))
    <3> HIDE DEF v, r, h, fb, merge
    <3>1. At(setRegValue(call, Dst, v), merge) = setRegValue(At(call, merge), Dst, v)
      <4> DEFINE t == Dst
      <4> HIDE DEF t
      <4>1. At(setRegValue(call, t, v), merge) = setRegValue(At(call, merge), t, v)
        <5>1. InState(call)
          BY <2>6
        <5> QED BY <5>1, AtSet, SMT
      <4> QED BY <4>1 DEF t
    <3>2. CASE d.br
      <4>1. e = At(call, merge)
        BY <3>2
      <4> HIDE DEF e
      <4> QED BY <2>2, <3>1, <3>2, <4>1
    <3>3. CASE ~d.br
      <4>1. e = call
        BY <3>3
      <4> HIDE DEF e
      <4> QED BY <2>2, <3>3, <4>1
    <3> QED BY <3>2, <3>3
  <2>9. tmp = "none" => Commit(e, r, h)
    BY <2>2
  <2> HIDE DEF e
  <2>10. ASSUME Agreed, e.bad = ""
         PROVE  /\ av.b = arg /\ arg \in BytesOf("I16") /\ qv.b = cb /\ cb \in BytesOf("I1")
    <3>1. a.e.bad = "" /\ q.e.bad = ""
      BY <1>7, <2>6, <2>7, <2>10 DEF ae, qe
    <3>2. av.b = arg /\ arg \in BytesOf("I16")
      BY <2>3, <2>10, <3>1 DEF Yields
    <3>3. qv.b = cb /\ cb \in BytesOf("I1")
      BY <1>5, <2>10, <3>1 DEF Yields, qv
    <3> QED BY <3>2, <3>3
  <2> HIDE DEF av
  <2>11. IsMachine(wr) /\ IsGuest(wh) /\ wh.tmp = g.tmp
    BY <1>2 DEF IsMachine, IsGuest
  <2>12. Agreed /\ SameExit(run, g) /\ e.bad = "" => SameMachine(r, h) /\ SameExit(r, h)
    <3> SUFFICES ASSUME Agreed, SameExit(run, g), e.bad = ""
                 PROVE  SameMachine(r, h) /\ SameExit(r, h)
      OBVIOUS
    <3>1. SameMachine(run, g)
      BY DEF Agreed
    <3>2. SameMachine(wr, wh) /\ SameExit(wr, wh)
      <4> DEFINE b == <<arg[1]>>
      <4>1. b \in [1 .. 1 -> Digit]
        <5>1. arg \in BytesOf("I16") /\ "I8" \in {"I8", "I16"}
          BY <2>10
        <5> QED BY <5>1, DirtyBytes
      <4>2. wr = [run EXCEPT !.ctx = Write(run.ctx, 0, b)]
        <5>1. av.b[1] = arg[1]
          BY <2>10
        <5> QED BY <5>1
      <4> HIDE DEF b, wr
      <4>4. SameMachine(wr, [g EXCEPT !.ctx = Write(g.ctx, 0, b)])
            /\ SameExit(wr, [g EXCEPT !.ctx = Write(g.ctx, 0, b)])
        BY <1>2, <3>1, <4>1, <4>2, FirstByte, RegisterWrite
      <4> QED BY <4>4 DEF b
    <3> HIDE DEF wr, wh
    <3>3. qv.b = cb /\ cb \in BytesOf("I1")
      BY <2>10
    <3>4. CASE cb[1] = 1
      <4>1. ~(qv.b[1] = 0)
        BY <3>3, <3>4, FlagCases, Zenon
      <4>2. r = wr /\ h = wh
        BY <3>4, <4>1, Zenon
      <4> QED BY <3>2, <4>2
    <3>5. CASE ~(cb[1] = 1)
      <4>1. qv.b[1] = 0 /\ ~(qv.b = <<1>>)
        BY <3>3, <3>5, FlagCases, Zenon
      <4>2. d.br
        BY <1>7, <4>1, Zenon
      <4>3. r = run /\ h = g
        BY <3>5, <4>1, <4>2, Zenon
      <4> QED BY <3>1, <4>3
    <3> QED BY <3>4, <3>5
  <2> HIDE DEF wr, wh
  <2>13. IsMachine(r) /\ IsGuest(h) /\ h.tmp = g.tmp
    BY <1>2, <2>11
  <2> HIDE DEF r, h
  <2>14. CASE tmp = "none"
    BY <1>1, <2>7, <2>9, <2>12, <2>13, <2>14, Keeps DEF Preserves
  <2>15. CASE tmp \in {"I8", "I16"}
    <3>1. tmp \in Types /\ LLVMType[tmp] \in Carrier[tmp] /\ tmp # "none"
      BY <2>15, CarrierOf DEF Types
    <3> DEFINE l == LLVMType[tmp]
    <3>2. call.blk \in Seq(Names)
      BY <2>6 DEF InState
    <3> HIDE DEF fit, l
    <3>3. Fields(v) /\ v.ty = l /\ v.b = fit /\ v.def = call.blk
      BY <3>2, FreshIs DEF l
    <3> HIDE DEF res, v
    <3>4. Carries(v, tmp)
      BY <3>1, <3>3 DEF Carries, l
    <3>5. Agreed /\ e.bad = "" => fb \in BytesOf(tmp) /\ v.b = fb
      <4> SUFFICES ASSUME Agreed, e.bad = "" PROVE fb \in BytesOf(tmp) /\ fit = fb
        BY <3>3
      <4>1. av.b = arg /\ arg \in BytesOf("I16")
        BY <2>10
      <4>2. fb \in BytesOf(tmp)
        BY <2>15, <4>1, DirtyBytes
      <4>3. fit = fb
        BY <4>1, Zenon DEF fit
      <4> QED BY <4>2, <4>3
    <3> HIDE DEF fb, merge
    <3>6. Placed(v, e)
      <4>1. CASE d.br
        <5>1. v.def = Append(qe.blk, "dirty_then") /\ e.blk = Append(qe.blk, "dirty_merge")
          BY <1>7, <2>6, <2>7, <3>3, <4>1 DEF merge
        <5> QED BY <1>6, <5>1, Guarded
      <4>2. CASE ~d.br
        <5>1. v.def = e.blk /\ e.blk = qe.blk
          BY <1>7, <2>6, <2>7, <3>3, <4>2
        <5>2. IsPrefix(qe.blk, qe.blk)
          BY <1>6, PrefixSelf
        <5> QED BY <5>1, <5>2 DEF Placed, Dominates
      <4> QED BY <4>1, <4>2
    <3>7. Agreed /\ SameExit(run, g) /\ e.bad = "" =>
            SameMachine(r, SetTmp(h, tmp, fb)) /\ SameExit(r, SetTmp(h, tmp, fb))
      BY <2>12, <2>13, SetTmpSame
    <3> QED BY <1>1, <2>7, <2>8, <2>13, <3>1, <3>4, <3>5, <3>6, <3>7, Defines DEF Preserves
  <2> QED BY <2>14, <2>15
<1> QED BY <1>8, <1>9

LEMMA NotBelowTwo ==
    \A n, d, m, k : n \in Nat /\ n = m /\ d = n + 1 /\ k = m + 1 => ~(d <= m) /\ ~(d + 1 <= k)
  OBVIOUS

\* Both temporaries of a double CAS.
LEMMA DefinesTwo ==
    ASSUME Struct, Emitting, NEW e, InState(e), NEW v1, NEW v2, NEW b1, NEW b2, NEW ty, NEW h,
           em' = setRegValue(setRegValue(e, Dst, v1), Dst + 1, v2),
           g' = SetTmp(SetTmp(h, ty, b1), ty, b2), IsMachine(run'), IsCount(count'),
           IsGuest(h), h.tmp = g.tmp,
           Carries(v1, ty), e.bad = "" => Placed(v1, e),
           Carries(v2, ty), e.bad = "" => Placed(v2, e),
           Agreed /\ e.bad = "" => b1 \in BytesOf(ty) /\ v1.b = b1 /\ b2 \in BytesOf(ty) /\ v2.b = b2
    PROVE  /\ Struct'
           /\ /\ fake_vsys_reads /\ Mirror /\ (odd => odd')
              /\ Agreed /\ SameExit(run, g) /\ e.bad = "" /\ ~odd' =>
                    SameMachine(run', g') /\ SameExit(run', g')
              => Mirror'
<1>1. /\ e \in [blk : {e.blk}, vals : {e.vals}, gep : {e.gep}, cast : {e.cast}, bad : {e.bad}]
      /\ e.vals = em.vals
  BY DEF InState
<1> DEFINE n == Len(g.tmp)
<1>3. Temps /\ DOMAIN g.tmp = 1 .. n /\ n \in Nat
  BY Starts, FewerTemps
<1> DEFINE q1 == [ty |-> ty, b |-> b1]
           q2 == [ty |-> ty, b |-> b2]
           tv1 == Extended(em.vals, v1)
           tg1 == Extended(g.tmp, q1)
           tv == Extended(tv1, v2)
           tg == Extended(tg1, q2)
<1>4. IsSeq(em.vals) /\ IsSeq(g.tmp) /\ Len(em.vals) = Len(g.tmp)
  BY <1>3 DEF Temps
<1> HIDE DEF q1, q2
<1>5. LongerBy(tv1, tg1, em.vals, g.tmp, v1, q1)
  BY <1>4, NextTemp, Zenon
<1>6. Len(tv1) = Len(em.vals) + 1
  BY <1>4, ExtendedIs
<1>8. g' = [h EXCEPT !.tmp = tg]
  <2>1. SetTmp(h, ty, b1) = [h EXCEPT !.tmp = tg1]
    BY DEF SetTmp, Extended, q1, IsGuest
  <2> DEFINE k == SetTmp(h, ty, b1)
  <2> HIDE DEF tg1
  <2>2. k.tmp = tg1
    BY <2>1 DEF IsGuest
  <2> HIDE DEF k
  <2>3. SetTmp(k, ty, b2) = [k EXCEPT !.tmp = tg]
    BY <2>2 DEF SetTmp, Extended, q2
  <2> HIDE DEF tg
  <2>4. [k EXCEPT !.tmp = tg] = [h EXCEPT !.tmp = tg]
    BY <2>1 DEF k, IsGuest
  <2> QED BY <2>3, <2>4 DEF k
<1>9. ~(Dst <= Len(e.vals)) /\ ~(Dst + 1 <= Len(tv1))
  <2> DEFINE d == Dst
             m == Len(em.vals)
             k == Len(tv1)
  <2>1. n = m /\ d = n + 1 /\ k = m + 1 /\ n \in Nat
    BY <1>3, <1>4, <1>6 DEF Dst
  <2> HIDE DEF n, d, m, k, tv1
  <2>2. ~(d <= m) /\ ~(d + 1 <= k)
    BY <2>1, NotBelowTwo, Zenon
  <2> QED BY <1>1, <2>2 DEF d, m, k
<1>10. em' = [e EXCEPT !.vals = tv]
  <2> DEFINE f == setRegValue(e, Dst, v1)
  <2>1. f = [e EXCEPT !.vals = tv1]
    BY <1>1, <1>9 DEF setRegValue, Extended
  <2> HIDE DEF f, tv1
  <2>2. f.vals = tv1
    BY <1>1, <2>1
  <2>3. setRegValue(f, Dst + 1, v2) = [f EXCEPT !.vals = tv]
    BY <1>9, <2>2 DEF setRegValue, Extended
  <2> HIDE DEF tv
  <2>4. [f EXCEPT !.vals = tv] = [e EXCEPT !.vals = tv]
    BY <1>1, <2>1
  <2> QED BY <2>3, <2>4 DEF f
<1> HIDE DEF tv1, tg1
<1>10a. LongerBy(tv, tg, tv1, tg1, v2, q2)
  <2>1. IsSeq(tv1) /\ IsSeq(tg1) /\ Len(tv1) = Len(tg1)
    BY <1>5 DEF LongerBy
  <2> QED BY <2>1, NextTemp, Zenon
<1> HIDE DEF tv, tg, n
<1>11. em' \in [blk : {e.blk}, vals : {tv}, gep : {e.gep}, cast : {e.cast}, bad : {e.bad}] /\ em'.vals = tv
  BY <1>1, <1>10
<1>12. IsGuest(g') /\ g'.tmp = tg
  BY <1>8 DEF IsGuest
<1>13. q1.ty = ty /\ q1.b = b1 /\ q2.ty = ty /\ q2.b = b2
  BY DEF q1, q2
<1> DEFINE Good(w, q) ==
             /\ Carries(w, q.ty) /\ (e.bad = "" => Placed(w, e))
             /\ Agreed /\ e.bad = "" =>
                  /\ q.b \in BytesOf(q.ty)
                  /\ Dominates(w.def, e) => w.b = q.b
<1>14. Good(v1, q1) /\ Good(v2, q2)
  BY <1>13
<1> HIDE DEF Good
<1>15. ASSUME NEW t \in DOMAIN tg
       PROVE  \/ t \in DOMAIN g.tmp /\ tv[t] = em.vals[t] /\ tg[t] = g.tmp[t]
              \/ Good(tv[t], tg[t])
  <2>1. CASE tv[t] = v2 /\ tg[t] = q2
    BY <1>14, <2>1
  <2>2. CASE t \in DOMAIN tg1 /\ tv[t] = tv1[t] /\ tg[t] = tg1[t]
    <3>1. CASE tv1[t] = v1 /\ tg1[t] = q1
      BY <1>14, <2>2, <3>1
    <3>2. CASE t \in DOMAIN g.tmp /\ tv1[t] = em.vals[t] /\ tg1[t] = g.tmp[t]
      BY <2>2, <3>2
    <3> QED BY <1>5, <2>2, <3>1, <3>2 DEF LongerBy
  <2> QED BY <1>10a, <2>1, <2>2 DEF LongerBy
<1>16. \A t \in DOMAIN g'.tmp :
         \/ t \in DOMAIN g.tmp /\ em'.vals[t] = em.vals[t] /\ g'.tmp[t] = g.tmp[t]
         \/ /\ Carries(em'.vals[t], g'.tmp[t].ty)
            /\ e.bad = "" => Placed(em'.vals[t], e)
            /\ Agreed /\ e.bad = "" =>
                  /\ g'.tmp[t].b \in BytesOf(g'.tmp[t].ty)
                  /\ Dominates(em'.vals[t].def, e) => em'.vals[t].b = g'.tmp[t].b
  BY <1>11, <1>12, <1>15 DEF Good
<1>17. /\ em' \in [blk : {e.blk}, vals : {em'.vals}, gep : {e.gep}, cast : {e.cast}, bad : {e.bad}]
       /\ IsSeq(em'.vals) /\ IsSeq(g'.tmp) /\ Len(em'.vals) = Len(g'.tmp)
  BY <1>10a, <1>11, <1>12 DEF LongerBy
<1> QED BY <1>12, <1>16, <1>17, Closes

LEMMA Bytes8Are ==
    ASSUME NEW x \in Bytes8
    PROVE  /\ x.b \in BytesOf("I8") /\ x.b \in [1 .. 1 -> Digit]
           /\ \A e : /\ EmitConst(e, x).e = e /\ EmitConst(e, x).v.b = x.b
                     /\ EmitConst(e, x).v.ty = "i8"
<1>1. x.ty = "I8" /\ x.b \in [1 .. 1 -> Digit]
  BY DEF Bytes8, Digit
<1>2. \A e : EmitConst(e, x).e = e /\ EmitConst(e, x).v = Constant("i8", x.b)
  BY <1>1 DEF EmitConst, LLVMType
<1> QED BY <1>1, <1>2, ByteBytes DEF Constant

LEMMA HalfLoad ==
    ASSUME NEW e, InState(e), NEW p, NEW i \in {0, 1}, Num(p.b) = i
    PROVE  /\ Still(e, load(e, p, "i8").e) /\ Carries(load(e, p, "i8").v, "I8")
           /\ Dominates(load(e, p, "i8").v.def, e)
           /\ Agreed => load(e, p, "i8").v.b = Read(g.mem, i, 1) /\ Read(g.mem, i, 1) \in BytesOf("I8")
<1> DEFINE r == load(e, p, "i8")
<1>1. Still(e, r.e) /\ Fields(r.v) /\ r.v.ty = "i8" /\ Dominates(r.v.def, e)
  BY LoadIs
<1>2. Carries(r.v, "I8")
  BY <1>1 DEF Carries, Carrier
<1>3. ASSUME Agreed PROVE r.v.b = Read(g.mem, i, 1) /\ Read(g.mem, i, 1) \in BytesOf("I8")
  <2>1. "I8" \in Types /\ "I8" # "I1" /\ Bytes["i8"] = Size["I8"] /\ Size["I8"] = 1
    BY DEF Types, Bytes, Size
  <2>2. Num(p.b) \in Nat /\ Num(p.b) + Size["I8"] <= 4
    BY <2>1
  <2>3. /\ r.v.b = Read(g.mem, Num(p.b), Size["I8"])
        /\ Read(g.mem, Num(p.b), Size["I8"]) \in BytesOf("I8")
    BY <1>3, <2>1, <2>2, LoadBytes
  <2> QED BY <2>1, <2>3
<1> HIDE DEF r
<1> QED BY <1>1, <1>2, <1>3 DEF r

LEMMA OneByte ==
    ASSUME NEW b \in [1 .. 1 -> Digit], NEW c \in [1 .. 1 -> Digit]
    PROVE  b = c <=> b[1] = c[1]
  OBVIOUS

\* The word at 0 and its halves.
LEMMA Halves ==
    ASSUME NEW m, NEW lo \in [1 .. 1 -> Digit], NEW hi \in [1 .. 1 -> Digit],
           Read(m, 0, 1) \in [1 .. 1 -> Digit], Read(m, 1, 1) \in [1 .. 1 -> Digit]
    PROVE  /\ <<Read(m, 0, 2)[1]>> = Read(m, 0, 1) /\ <<Read(m, 0, 2)[2]>> = Read(m, 1, 1)
           /\ lo = Read(m, 0, 1) <=> Read(m, 0, 2)[1] = lo[1]
           /\ hi = Read(m, 1, 1) <=> Read(m, 0, 2)[2] = hi[1]
           /\ Read(m, 0, 2) = lo \o hi <=> lo = Read(m, 0, 1) /\ hi = Read(m, 1, 1)
<1> DEFINE w == Read(m, 0, 2)
           l == Read(m, 0, 1)
           u == Read(m, 1, 1)
<1>1. w[1] = m[0] /\ w[2] = m[1] /\ l[1] = m[0] /\ u[1] = m[1] /\ w = <<m[0], m[1]>>
  BY DEF Read
<1>2. l = <<m[0]>> /\ u = <<m[1]>>
  BY DEF Read
<1> HIDE DEF w, l, u
<1>3. lo \in Seq(Digit) /\ hi \in Seq(Digit) /\ Len(lo) = 1 /\ Len(hi) = 1
  <2>1. 1 \in Nat
    OBVIOUS
  <2> QED BY <2>1, BytesAre, Zenon
<1>4. lo \o hi = <<lo[1], hi[1]>>
  BY <1>3, TwoBytes
<1>5. (lo = l <=> lo[1] = l[1]) /\ (hi = u <=> hi[1] = u[1])
  BY OneByte DEF l, u
<1>6. <<m[0], m[1]>> = <<lo[1], hi[1]>> <=> m[0] = lo[1] /\ m[1] = hi[1]
  OBVIOUS
<1>7. <<w[1]>> = l /\ <<w[2]>> = u
  BY <1>1, <1>2
<1>8. (lo = l <=> w[1] = lo[1]) /\ (hi = u <=> w[2] = hi[1])
  BY <1>1, <1>5
<1>9. w = lo \o hi <=> lo = l /\ hi = u
  <2>1. w = lo \o hi <=> m[0] = lo[1] /\ m[1] = hi[1]
    BY <1>1, <1>4, <1>6
  <2>2. w[1] = m[0] /\ w[2] = m[1]
    BY <1>1
  <2> QED BY <1>8, <2>1, <2>2
<1> QED BY <1>7, <1>8, <1>9 DEF w, l, u

LEMMA OpensStill ==
    ASSUME em.blk \in Seq(Names), NEW e, InState(e), NEW f, Still(e, f), NEW d \in Seq(Names),
           Dominates(d, e)
    PROVE  Dominates(d, f)
  BY DEF Still, Dominates

LEMMA DoubleAddress ==
    ASSUME NEW a \in Consts("I16"), a.b = <<0, 0>>, NEW e
    PROVE  LET p == EmitAtom(e, a)
               p2 == [p.v EXCEPT !.b = <<p.v.b[1] + 1, p.v.b[2]>>]
           IN  p.e = e /\ Num(p.v.b) = 0 /\ Num(p2.b) = 1
<1> DEFINE p == EmitAtom(e, a)
           v == p.v
           p2 == [v EXCEPT !.b = <<v.b[1] + 1, v.b[2]>>]
<1>1. a.k = "Const" /\ a.ty = "I16"
  BY ConstShape DEF Types
<1>2. p.e = e /\ v = Constant("i16", a.b)
  BY <1>1, ConstAtom
<1>3. v.b = <<0, 0>> /\ v \in [ty : {v.ty}, b : {v.b}, def : {v.def}, const : {v.const}]
  BY <1>2 DEF Constant
<1> HIDE DEF p
<1>4. v.b[1] = 0 /\ v.b[2] = 0
  BY <1>3
<1>5. p2.b = <<v.b[1] + 1, v.b[2]>>
  BY <1>3
<1> HIDE DEF v, p2
<1>6. p2.b = <<1, 0>>
  BY <1>4, <1>5
<1>7. Num(<<0, 0>>) = 0 /\ Num(<<1, 0>>) = 1
  BY DEF Num, Digits
<1> QED BY <1>2, <1>3, <1>6, <1>7 DEF p, v, p2

LEMMA DoubleCASKeeps == ASSUME Struct, DoubleCAS PROVE Preserves
<1>1. Emitting
  BY DEF DoubleCAS
<1>2. /\ InState(em) /\ em.blk \in Seq(Names) /\ Temps /\ em.bad = ""
      /\ IsGuest(g) /\ IsMachine(run) /\ IsCount(count)
  BY <1>1, Starts DEF Struct
<1>3. PICK a \in {x \in Consts("I16") : x.b = <<0, 0>>},
          lo \in Bytes8, hi \in Bytes8, newLo \in Bytes8, newHi \in Bytes8 :
        LET p == EmitAtom(em, a)
            exLo == EmitConst(p.e, lo)
            oldLo == load(exLo.e, p.v, exLo.v.ty)
            exHi == EmitConst(oldLo.e, hi)
            p2 == [p.v EXCEPT !.b = <<p.v.b[1] + 1, p.v.b[2]>>]
            oldHi == load(exHi.e, p2, exLo.v.ty)
            match == (exLo.v.b = oldLo.v.b) = (exHi.v.b = oldHi.v.b)
            new == EmitConst(Open(oldHi.e, "cas_match_expect"), newLo)
            s1 == store(new.e, run, p.v, new.v)
            s2 == store(s1.e, s1.run, p2, new.v)
            merge == At(s2.e, Append(oldHi.e.blk, "cas_merge"))
            e1 == setRegValue(merge, Dst, oldLo.v)
            was == Read(g.mem, 0, 2)
            equal == was = lo.b \o hi.b
            h == IF equal THEN StoreAt(StoreAt(g, 0, newLo.b), 1, newHi.b) ELSE g
        IN  /\ em' = setRegValue(e1, Dst + 1, oldHi.v)
            /\ run' = IF match THEN s2.run ELSE run
            /\ g' = SetTmp(SetTmp(h, "I8", <<was[1]>>), "I8", <<was[2]>>)
            /\ count' = [count EXCEPT !.stmts = @ + 1, !.here = @ + 1]
            /\ odd' = (odd \/ (was[1] # lo.b[1] /\ was[2] # hi.b[1])
                           \/ (equal /\ newLo # newHi))
  BY DEF DoubleCAS
<1> DEFINE p == EmitAtom(em, a)
           pe == p.e
           pv == p.v
           p2 == [pv EXCEPT !.b = <<pv.b[1] + 1, pv.b[2]>>]
           xo == EmitConst(pe, lo)
           ty == xo.v.ty
           ol == load(xo.e, pv, ty)
           ole == ol.e
           olv == ol.v
           xh == EmitConst(ole, hi)
           oh == load(xh.e, p2, ty)
           ohe == oh.e
           ohv == oh.v
           th == Open(ohe, "cas_match_expect")
           new == EmitConst(th, newLo)
           ne == new.e
           nv == new.v
           s1 == store(ne, run, pv, nv)
           se1 == s1.e
           sr1 == s1.run
           s2 == store(se1, sr1, p2, nv)
           se2 == s2.e
           sr2 == s2.run
           e == At(se2, Append(ohe.blk, "cas_merge"))
           was == Read(g.mem, 0, 2)
           equal == was = lo.b \o hi.b
           sh1 == StoreAt(g, 0, newLo.b)
           sh2 == StoreAt(sh1, 1, newHi.b)
           h == IF equal THEN sh2 ELSE g
           r == IF (xo.v.b = olv.b) = (xh.v.b = ohv.b) THEN sr2 ELSE run
           b1 == <<was[1]>>
           b2 == <<was[2]>>
<1>4. /\ em' = setRegValue(setRegValue(e, Dst, olv), Dst + 1, ohv)
      /\ run' = r
      /\ g' = SetTmp(SetTmp(h, "I8", b1), "I8", b2)
      /\ count' = [count EXCEPT !.stmts = @ + 1, !.here = @ + 1]
      /\ odd' = (odd \/ (was[1] # lo.b[1] /\ was[2] # hi.b[1]) \/ (equal /\ newLo # newHi))
  BY <1>3
<1>5. pe = em /\ Num(pv.b) = 0 /\ Num(p2.b) = 1
  <2>1. a \in Consts("I16") /\ a.b = <<0, 0>>
    OBVIOUS
  <2> QED BY <2>1, DoubleAddress
<1> HIDE DEF p, p2, pe
<1>6. /\ lo.b \in [1 .. 1 -> Digit] /\ hi.b \in [1 .. 1 -> Digit]
      /\ newLo.b \in [1 .. 1 -> Digit] /\ newHi.b \in [1 .. 1 -> Digit]
      /\ xo.e = pe /\ xo.v.b = lo.b /\ ty = "i8"
  BY Bytes8Are
<1> HIDE DEF xo, ty, pv
<1>7. InState(pe)
  BY <1>2, <1>5
<1>8. /\ Still(pe, ole) /\ Carries(olv, "I8") /\ Dominates(olv.def, pe)
      /\ Agreed => olv.b = Read(g.mem, 0, 1) /\ Read(g.mem, 0, 1) \in BytesOf("I8")
  <2>1. ol = load(pe, pv, "i8")
    BY <1>6
  <2>2. 0 \in {0, 1}
    OBVIOUS
  <2> HIDE DEF ol
  <2> QED BY <1>5, <1>7, <2>1, <2>2, HalfLoad
<1> HIDE DEF ol
<1>9. InState(ole) /\ olv.def \in Seq(Names) /\ Dominates(olv.def, ole)
  BY <1>2, <1>7, <1>8, OpensStill DEF Still, Carries, Fields
<1> HIDE DEF ole
<1>10. xh.e = ole /\ xh.v.b = hi.b
  BY Bytes8Are
<1> HIDE DEF xh
<1>11. /\ Still(ole, ohe) /\ Carries(ohv, "I8") /\ Dominates(ohv.def, ole)
       /\ Agreed => ohv.b = Read(g.mem, 1, 1) /\ Read(g.mem, 1, 1) \in BytesOf("I8")
  <2>1. oh = load(ole, p2, "i8")
    BY <1>6, <1>10
  <2>2. 1 \in {0, 1}
    OBVIOUS
  <2> HIDE DEF oh
  <2> QED BY <1>5, <1>9, <2>1, <2>2, HalfLoad
<1> HIDE DEF oh, olv
<1>12. InState(ohe) /\ ohv.def \in Seq(Names) /\ Dominates(ohv.def, ohe) /\ Dominates(olv.def, ohe)
  BY <1>2, <1>9, <1>11, OpensStill DEF Still, Carries, Fields
<1> HIDE DEF ohe, ohv
<1>13. "cas_match_expect" \in Labels /\ "cas_merge" \in Labels
  BY DEF Labels
<1>14. InState(th) /\ th.bad = ohe.bad
  BY <1>2, <1>12, <1>13, Opens
<1> HIDE DEF th
<1>15. ne = th /\ nv.b = newLo.b
  BY Bytes8Are
<1> HIDE DEF new, ne, nv
<1>16. Still(ne, se1) /\ IsMachine(sr1)
  BY <1>2, <1>14, <1>15, StoreKeeps
<1> HIDE DEF se1, sr1
<1>17. InState(se1)
  BY <1>16 DEF Still
<1>18. Still(se1, se2) /\ IsMachine(sr2)
  BY <1>16, <1>17, StoreKeeps
<1> HIDE DEF se2
<1>19. InState(se2)
  BY <1>18 DEF Still
<1>20. InState(e) /\ e.bad = se2.bad
  BY <1>2, <1>12, <1>13, <1>19, Merges
<1>21. Dominates(olv.def, e) /\ Dominates(ohv.def, e)
  BY <1>2, <1>9, <1>12, <1>13, <1>19, MergePlaced
<1> HIDE DEF e
<1>22. Placed(olv, e) /\ Placed(ohv, e)
  BY <1>21 DEF Placed
<1>23. IsGuest(sh1) /\ sh1.tmp = g.tmp
  BY <1>2, StoreAtKeeps
<1> HIDE DEF sh1
<1>24. IsGuest(sh2) /\ sh2.tmp = g.tmp
  BY <1>23, StoreAtKeeps
<1> DEFINE l == Read(g.mem, 0, 1)
           u == Read(g.mem, 1, 1)
<1>25. ASSUME Agreed
       PROVE  /\ olv.b = b1 /\ ohv.b = b2 /\ b1 \in BytesOf("I8") /\ b2 \in BytesOf("I8")
              /\ xo.v.b = olv.b <=> was[1] = lo.b[1]
              /\ xh.v.b = ohv.b <=> was[2] = hi.b[1]
              /\ equal <=> was[1] = lo.b[1] /\ was[2] = hi.b[1]
  <2>1. l \in [1 .. 1 -> Digit] /\ u \in [1 .. 1 -> Digit]
    BY <1>8, <1>11, <1>25, ByteBytes
  <2>2. /\ b1 = l /\ b2 = u /\ (lo.b = l <=> was[1] = lo.b[1]) /\ (hi.b = u <=> was[2] = hi.b[1])
        /\ equal <=> lo.b = l /\ hi.b = u
    <3> DEFINE m == g.mem
               lb == lo.b
               hb == hi.b
    <3>1. /\ lb \in [1 .. 1 -> Digit] /\ hb \in [1 .. 1 -> Digit]
          /\ Read(m, 0, 1) \in [1 .. 1 -> Digit] /\ Read(m, 1, 1) \in [1 .. 1 -> Digit]
      BY <1>6, <2>1
    <3> HIDE DEF m, lb, hb
    <3>2. /\ <<Read(m, 0, 2)[1]>> = Read(m, 0, 1) /\ <<Read(m, 0, 2)[2]>> = Read(m, 1, 1)
          /\ lb = Read(m, 0, 1) <=> Read(m, 0, 2)[1] = lb[1]
          /\ hb = Read(m, 1, 1) <=> Read(m, 0, 2)[2] = hb[1]
          /\ Read(m, 0, 2) = lb \o hb <=> lb = Read(m, 0, 1) /\ hb = Read(m, 1, 1)
      BY <3>1, Halves, Zenon
    <3> QED BY <3>2, Zenon DEF m, lb, hb
  <2> HIDE DEF b1, b2, l, u, was, equal
  <2>3. olv.b = l /\ ohv.b = u /\ l \in BytesOf("I8") /\ u \in BytesOf("I8")
    BY <1>8, <1>11, <1>25 DEF l, u
  <2> QED BY <1>6, <1>10, <2>2, <2>3
<1> HIDE DEF b1, b2, was, equal, l, u
<1>26. IsMachine(run') /\ IsGuest(h) /\ h.tmp = g.tmp
  BY <1>2, <1>4, <1>18, <1>24
<1>27. IsCount(count') /\ (odd => odd')
  BY <1>2, <1>4, Counted
<1>28. ASSUME Agreed, SameExit(run, g), ~odd'
       PROVE  SameMachine(r, h) /\ SameExit(r, h)
  <2>1. SameMachine(run, g)
    BY <1>28 DEF Agreed
  <2>2. ~(was[1] # lo.b[1] /\ was[2] # hi.b[1]) /\ ~(equal /\ newLo # newHi)
    BY <1>4, <1>28
  <2>3. CASE equal
    <3>1. r = sr2 /\ h = sh2
      BY <1>25, <1>28, <2>3
    <3>2. newHi = newLo
      BY <2>2, <2>3
    <3>3. 0 + 1 <= 4 /\ 1 + 1 <= 4 /\ 0 \in Nat /\ 1 \in Nat
      OBVIOUS
    <3> DEFINE b == newLo.b
    <3> HIDE DEF b
    <3>4. b \in [1 .. 1 -> Digit] /\ nv.b = b
      BY <1>6, <1>15 DEF b
    <3>5. SameMachine(sr1, sh1) /\ SameExit(sr1, sh1)
      <4>1. /\ SameMachine(store(ne, run, pv, nv).run, StoreAt(g, 0, b))
            /\ SameExit(store(ne, run, pv, nv).run, StoreAt(g, 0, b))
        BY <1>2, <1>5, <1>28, <2>1, <3>3, <3>4, MemoryWrite
      <4> QED BY <4>1 DEF sr1, sh1, b
    <3>6. SameMachine(sr2, sh2) /\ SameExit(sr2, sh2)
      <4>1. /\ SameMachine(store(se1, sr1, p2, nv).run, StoreAt(sh1, 1, b))
            /\ SameExit(store(se1, sr1, p2, nv).run, StoreAt(sh1, 1, b))
        BY <1>5, <1>16, <1>23, <3>3, <3>4, <3>5, MemoryWrite
      <4> QED BY <3>2, <4>1 DEF b
    <3> HIDE DEF sr2, sh2, r, h
    <3> QED BY <3>1, <3>6
  <2>4. CASE ~equal
    <3>1. r = run /\ h = g
      BY <1>25, <1>28, <2>2, <2>4
    <3> QED BY <1>28, <2>1, <3>1
  <2> QED BY <2>3, <2>4
<1> HIDE DEF sr2, sh2, r, h
<1>29. Agreed /\ SameExit(run, g) /\ e.bad = "" /\ ~odd' => SameMachine(run', g') /\ SameExit(run', g')
  <2> SUFFICES ASSUME Agreed, SameExit(run, g), ~odd'
               PROVE  SameMachine(run', g') /\ SameExit(run', g')
    OBVIOUS
  <2> DEFINE k == SetTmp(h, "I8", b1)
  <2>1. SameMachine(r, h) /\ SameExit(r, h)
    BY <1>28
  <2>2. SameMachine(r, k) /\ SameExit(r, k)
    BY <1>26, <2>1, SetTmpSame
  <2>3. IsGuest(k)
    BY <1>26 DEF SetTmp, IsGuest
  <2> HIDE DEF k
  <2>4. SameMachine(r, SetTmp(k, "I8", b2)) /\ SameExit(r, SetTmp(k, "I8", b2))
    BY <2>2, <2>3, SetTmpSame
  <2> QED BY <1>4, <2>4 DEF k
<1>30. /\ Struct'
       /\ /\ fake_vsys_reads /\ Mirror /\ (odd => odd')
          /\ Agreed /\ SameExit(run, g) /\ e.bad = "" /\ ~odd' =>
                SameMachine(run', g') /\ SameExit(run', g')
          => Mirror'
  BY <1>1, <1>4, <1>8, <1>11, <1>20, <1>22, <1>25, <1>26, <1>27, DefinesTwo
<1> QED BY <1>27, <1>29, <1>30 DEF Preserves

LEMMA InsideBlock ==
    ASSUME Struct, em.blk # <<>>, em.bad = ""
    PROVE  InState(em) /\ em.blk \in Seq(Names) /\ Temps
<1>1. em.blk \in Seq(Names) /\ Cached(em) /\ Temps
  BY DEF Struct
<1>2. Len(em.blk) > 0
  BY <1>1, NotEmpty
<1>3. IsPrefix(em.blk, em.blk)
  BY <1>1, PrefixSelf
<1> QED BY <1>1, <1>2, <1>3 DEF Struct, InState

LEMMA JumpKindsAgree ==
    \A jk \in DOMAIN jump_type : jk \in DOMAIN ExitType /\ jump_type[jk] = ExitType[jk]
  BY DEF jump_type, ExitType

LEMMA WordsAreNat == \A n : n \in 0 .. 15 => n \in Nat
  OBVIOUS

\* The address the block leaves to.
LEMMA Destination ==
    ASSUME em.blk \in Seq(Names), Temps, InState(em), NEW jk, NEW next \in Atoms("I16")
    PROVE  LET d == EmitAtom(em, loadJump(jk, next))
           IN  /\ Still(em, d.e)
               /\ Agreed /\ d.e.bad = "" =>
                    /\ Num(d.v.b) = IF jk = "Sys_sysenter" THEN EndAddr ELSE Num(ValueOf(g, next))
                    /\ Num(d.v.b) \in Nat
<1> DEFINE x == loadJump(jk, next)
           d == EmitAtom(em, x)
<1>1. CASE jk = "Sys_sysenter"
  <2> DEFINE c == [k |-> "Const", ty |-> "I16", b |-> <<EndAddr % Digits, EndAddr \div Digits>>]
  <2>1. x = c
    BY <1>1 DEF loadJump
  <2>2. c.k = "Const" /\ c.ty = "I16" /\ c.b = <<1, 2>>
    BY DEF EndAddr, Digits
  <2> HIDE DEF c, x
  <2>3. d.e = em /\ d.v = Constant("i16", x.b)
    BY <2>1, <2>2, ConstAtom
  <2>4. d.v.b = <<1, 2>>
    BY <2>1, <2>2, <2>3 DEF Constant
  <2>5. Num(<<1, 2>>) = 9
    BY DEF Num, Digits
  <2> HIDE DEF d
  <2>6. Num(d.v.b) = EndAddr /\ EndAddr \in Nat
    BY <2>4, <2>5 DEF EndAddr
  <2>7. Still(em, d.e)
    BY <2>3, StillSelf
  <2> QED BY <1>1, <2>6, <2>7 DEF d, x
<1>2. CASE jk # "Sys_sysenter"
  <2>1. x = next
    BY <1>2 DEF loadJump
  <2>2. "I16" \in Types
    BY DEF Types
  <2> HIDE DEF x
  <2>3. Yields(em, EmitAtom(em, next), "I16", ValueOf(g, next))
    BY <2>2, AtomYields
  <2>4. d = EmitAtom(em, next)
    BY <2>1
  <2> HIDE DEF d
  <2>5. Still(em, d.e) /\ (Agreed /\ d.e.bad = "" => d.v.b = ValueOf(g, next) /\ ValueOf(g, next) \in BytesOf("I16"))
    BY <2>3, <2>4 DEF Yields
  <2>6. Agreed /\ d.e.bad = "" => Num(d.v.b) = Num(ValueOf(g, next)) /\ Num(d.v.b) \in 0 .. 15
    BY <2>5, WordIs
  <2> DEFINE n == Num(d.v.b)
             to == Num(ValueOf(g, next))
  <2> HIDE DEF to
  <2>7. Agreed /\ d.e.bad = "" => n = to /\ n \in Nat
    <3> HIDE DEF n
    <3>1. Agreed /\ d.e.bad = "" => n = to /\ n \in 0 .. 15
      BY <2>6 DEF n, to
    <3> QED BY <3>1, WordsAreNat, Zenon
  <2>8. to = IF jk = "Sys_sysenter" THEN EndAddr ELSE Num(ValueOf(g, next))
    BY <1>2 DEF to
  <2>9. Agreed /\ d.e.bad = "" =>
          /\ Num(d.v.b) = IF jk = "Sys_sysenter" THEN EndAddr ELSE Num(ValueOf(g, next))
          /\ Num(d.v.b) \in Nat
    BY <2>7, <2>8, Zenon
  <2> QED BY <2>5, <2>9 DEF d, x
<1> QED BY <1>1, <1>2

\* The block's end: the destination, the exit type and the return.
LEMMA EmitEndKeeps == ASSUME Struct, EmitEnd PROVE Preserves
<1>1. em.blk # <<>> /\ em.bad = "" /\ odd' = odd /\ count' = count
  BY DEF EmitEnd
<1>2. /\ InState(em) /\ em.blk \in Seq(Names) /\ Temps
      /\ IsGuest(g) /\ IsMachine(run) /\ IsCount(count)
  BY <1>1, InsideBlock DEF Struct
<1>3. PICK jk \in JumpKinds \ {"NoDecode"}, next \in Atoms("I16") :
        LET d == EmitAtom(em, loadJump(jk, next))
            w == IF jump_type[jk] = "GE_IGNORE" THEN [e |-> d.e, ctx |-> run.ctx]
                 ELSE setExitType(d.e, jump_type[jk])
            ok == Integer(w.e, d.v)
        IN  IF jk \notin DOMAIN jump_type
            THEN em' = Fail(em, "jump kind") /\ UNCHANGED <<run, g>>
            ELSE /\ em' = IF ok.bad = "" THEN endBB ELSE ok
                 /\ run' = IF run.out # -1 THEN run
                           ELSE [run EXCEPT !.ctx = w.ctx, !.out = Num(d.v.b)]
                 /\ g' = IF g.out # Live THEN g
                         ELSE [g EXCEPT !.out =
                                [to |-> IF jk = "Sys_sysenter" THEN EndAddr ELSE Num(ValueOf(g, next)),
                                 jk |-> jk]]
  BY DEF EmitEnd
<1>4. ASSUME NEW e, InState(e), e.bad # "", em' = e, IsGuest(g'), IsMachine(run') PROVE Preserves
  <2>1. e \in [blk : Seq(Names), vals : {e.vals}, gep : {e.gep}, cast : {e.cast}, bad : KnownIllFormed]
    BY <1>4 DEF InState
  <2>2. Struct'
    BY <1>1, <1>2, <1>4, <2>1 DEF Struct
  <2>3. Mirror'
    BY <1>4 DEF Mirror
  <2> QED BY <2>2, <2>3 DEF Preserves
<1>5. CASE jk \notin DOMAIN jump_type
  <2> DEFINE e == Fail(em, "jump kind")
  <2>1. em' = e /\ run' = run /\ g' = g
    BY <1>3, <1>5
  <2>2. "jump kind" \in KnownIllFormed \ {""}
    BY DEF KnownIllFormed
  <2>3. Still(em, e) /\ e.bad # ""
    BY <1>2, <2>2, FailIs
  <2> HIDE DEF e
  <2> QED BY <1>2, <1>4, <2>1, <2>3 DEF Still
<1>6. CASE jk \in DOMAIN jump_type
  <2> DEFINE d == EmitAtom(em, loadJump(jk, next))
             de == d.e
             dv == d.v
             t == jump_type[jk]
             w == IF t = "GE_IGNORE" THEN [e |-> de, ctx |-> run.ctx] ELSE setExitType(de, t)
             we == w.e
             rc == w.ctx
             ok == Integer(we, dv)
             to == IF jk = "Sys_sysenter" THEN EndAddr ELSE Num(ValueOf(g, next))
             sr == [run EXCEPT !.ctx = rc, !.out = Num(dv.b)]
             sh == [g EXCEPT !.out = [to |-> to, jk |-> jk]]
             r == IF run.out # -1 THEN run ELSE sr
             h == IF g.out # Live THEN g ELSE sh
  <2>1. em' = (IF ok.bad = "" THEN endBB ELSE ok) /\ run' = r /\ g' = h
    BY <1>3, <1>6
  <2>2. Still(em, de) /\ (Agreed /\ de.bad = "" => Num(dv.b) = to /\ Num(dv.b) \in Nat)
    BY <1>2, Destination
  <2> HIDE DEF d, to
  <2>3. InState(de)
    BY <2>2 DEF Still
  <2> HIDE DEF de
  <2>4. Still(de, we)
    <3>1. CASE t = "GE_IGNORE"
      <4>1. we = de
        BY <3>1
      <4> QED BY <2>3, <4>1, StillSelf
    <3>2. CASE t # "GE_IGNORE"
      <4> DEFINE s == setExitType(de, t)
      <4>1. we = s.e
        BY <3>2
      <4> HIDE DEF t
      <4>2. Still(de, s.e)
        <5> DEFINE v == Constant("i8", <<t>>)
        <5>1. s = writeCtx(de, ExitTypeOffset, v)
          BY DEF setExitType
        <5> HIDE DEF v
        <5>2. Still(de, writeCtx(de, ExitTypeOffset, v).e)
          BY <2>3, WriteCtxIs
        <5> QED BY <5>1, <5>2
      <4> QED BY <4>1, <4>2
    <3> QED BY <3>1, <3>2
  <2>5. ASSUME SameMachine(run, g), SameExit(run, g), run.out = -1 PROVE ExitsWith(rc, ExitType[jk])
    <3>1. DOMAIN run.ctx = Offsets \cup {ExitTypeOffset}
      BY <2>5 DEF SameMachine
    <3>2. t = ExitType[jk]
      BY <1>6, JumpKindsAgree
    <3> HIDE DEF t
    <3>3. CASE t = "GE_IGNORE"
      <4>1. rc = run.ctx
        BY <3>3
      <4>2. run.ctx[ExitTypeOffset] = "GE_IGNORE"
        BY <2>5 DEF SameExit
      <4> QED BY <3>2, <3>3, <4>1, <4>2 DEF ExitsWith
    <3>4. CASE t # "GE_IGNORE"
      <4> DEFINE s == setExitType(de, t)
      <4>1. rc = s.ctx
        BY <3>4
      <4>2. ExitsWith(s.ctx, t)
        BY <2>3, <3>1, ExitTypeIs
      <4> QED BY <3>2, <4>1, <4>2
    <3> QED BY <3>3, <3>4
  <2> HIDE DEF w, t
  <2>6. InState(we)
    BY <2>4 DEF Still
  <2> HIDE DEF we, rc, dv
  <2>7. Still(we, ok)
    BY <2>6, IntegerIs
  <2> HIDE DEF ok
  <2>8. InState(ok) /\ (ok.bad = "" => de.bad = "")
    BY <2>4, <2>7 DEF Still
  <2>9. IsMachine(run') /\ IsGuest(g')
    <3>1. IsMachine(sr)
      BY <1>2 DEF IsMachine
    <3>2. IsGuest(sh)
      BY <1>2 DEF IsGuest
    <3> HIDE DEF sr, sh
    <3> QED BY <1>2, <2>1, <3>1, <3>2
  <2>10. CASE ok.bad # ""
    <3>1. em' = ok
      BY <2>1, <2>10
    <3> QED BY <1>4, <2>8, <2>9, <2>10, <3>1
  <2>11. CASE ok.bad = ""
    <3>1. em' = endBB
      BY <2>1, <2>11
    <3>2. endBB \in [blk : Seq(Names), vals : {endBB.vals}, gep : {endBB.gep}, cast : {endBB.cast}, bad : KnownIllFormed]
          /\ endBB.blk = <<>> /\ endBB.bad = ""
      BY DEF endBB, KnownIllFormed
    <3> HIDE DEF r, h
    <3>3. Struct'
      BY <1>1, <1>2, <2>9, <3>1, <3>2 DEF Struct
    <3>4. ASSUME fake_vsys_reads, Mirror, ~odd PROVE SameMachine(r, h) /\ SameExit(r, h)
      <4>1. SameMachine(run, g) /\ SameExit(run, g) /\ Agreed
        BY <1>1, <3>4 DEF Mirror, Agreed
      <4>2. CASE run.out # -1
        <5>1. r = run
          BY <4>2 DEF r
        <5>2. g.out # Live
          BY <4>1, <4>2 DEF SameExit, Live
        <5>3. h = g
          BY <5>2 DEF h
        <5> QED BY <4>1, <5>1, <5>3
      <4>3. CASE run.out = -1
        <5>1. g.out = Live
          BY <4>1, <4>3 DEF SameExit
        <5>2. r = sr
          BY <4>3 DEF r
        <5>3. h = sh
          BY <5>1 DEF h
        <5>4. Num(dv.b) = to /\ to \in Nat
          BY <2>2, <2>8, <2>11, <4>1
        <5>5. ExitsWith(rc, ExitType[jk])
          BY <2>5, <4>1, <4>3
        <5>6. sr = Left(run, rc, to) /\ sh = LeftBy(g, to, jk)
          BY <5>4 DEF Left, LeftBy
        <5> HIDE DEF sr, sh
        <5>7. /\ SameMachine(Left(run, rc, to), LeftBy(g, to, jk))
              /\ SameExit(Left(run, rc, to), LeftBy(g, to, jk))
          BY <1>2, <4>1, <5>4, <5>5, Leaves
        <5> QED BY <5>2, <5>3, <5>6, <5>7
      <4> QED BY <4>2, <4>3
    <3>5. fake_vsys_reads /\ Mirror => Mirror'
      BY <1>1, <2>1, <3>1, <3>2, <3>4 DEF Mirror
    <3> QED BY <3>3, <3>5 DEF Preserves
  <2> QED BY <2>10, <2>11
<1> QED BY <1>5, <1>6

LEMMA EmptyIs == IsSeq(<<>>) /\ DOMAIN <<>> = {} /\ Len(<<>>) = 0
  BY DEF IsSeq

LEMMA SeqDomain == \A s : IsSeq(s) => DOMAIN s = 1 .. Len(s)
<1> SUFFICES ASSUME NEW s, IsSeq(s) PROVE DOMAIN s = 1 .. Len(s)
  OBVIOUS
<1> DEFINE A == {s[i] : i \in DOMAIN s}
<1>1. s \in Seq(A)
  BY DEF IsSeq
<1> HIDE DEF A
<1> QED BY <1>1

\* The next block starts with no temporaries and an empty pointer cache.
LEMMA EmitBeginKeeps == ASSUME Struct, EmitBegin PROVE Preserves
<1>1. /\ em.blk = <<>> /\ em.bad = "" /\ odd' = odd /\ em' = beginBB(count.blocks + 1)
      /\ run' = [run EXCEPT !.ctx[ExitTypeOffset] = "GE_IGNORE", !.out = -1]
      /\ g' = [g EXCEPT !.tmp = <<>>, !.out = Live]
      /\ count' = [count EXCEPT !.here = 0, !.blocks = @ + 1]
  BY DEF EmitBegin
<1>2. em = endBB /\ IsGuest(g) /\ IsMachine(run) /\ IsCount(count)
  BY <1>1 DEF Struct
<1>3. IsCount(count')
  <2> DEFINE c == [count EXCEPT !.here = 0]
  <2>1. c \in [stmts : Nat, here : Nat, blocks : Nat]
    BY <1>2 DEF IsCount
  <2>2. count' = [c EXCEPT !.blocks = @ + 1]
    BY <1>1, <1>2 DEF IsCount
  <2> HIDE DEF c
  <2> QED BY <2>1, <2>2 DEF IsCount
<1> DEFINE n == count.blocks + 1
           none == <<>>
           blk == <<n>>
<1>4. n \in Nat
  BY <1>2 DEF IsCount
<1> HIDE DEF n
<1>5. blk \in Seq(Names) /\ blk # <<>>
  BY <1>4 DEF Names
<1>6. em' = [endBB EXCEPT !.blk = blk]
  BY <1>1, <1>2 DEF beginBB, n
<1> HIDE DEF blk
<1>7. /\ em'.blk = blk /\ em'.vals = none /\ em'.gep = none /\ em'.cast = {} /\ em'.bad = ""
      /\ em' \in [blk : {blk}, vals : {em'.vals}, gep : {em'.gep}, cast : {em'.cast}, bad : {""}]
  BY <1>6 DEF endBB
<1>8. IsGuest(g') /\ g'.tmp = none /\ g'.out = Live /\ g'.ctx = g.ctx /\ g'.mem = g.mem /\ g'.log = g.log
  BY <1>1, <1>2 DEF IsGuest
<1>9. /\ IsMachine(run') /\ run'.out = -1 /\ run'.mem = run.mem /\ run'.log = run.log
      /\ run'.ctx = [run.ctx EXCEPT ![ExitTypeOffset] = "GE_IGNORE"]
  BY <1>1, <1>2 DEF IsMachine
<1>10. IsSeq(none) /\ DOMAIN none = {}
  BY EmptyIs
<1> HIDE DEF none
<1>11. Struct'
  <2>1. Temps'
    BY <1>7, <1>8, <1>10 DEF Temps
  <2>2. Cached(em)'
    BY <1>7, <1>10 DEF Cached
  <2>3. "" \in KnownIllFormed
    BY DEF KnownIllFormed
  <2>4. em' \in [blk : Seq(Names), vals : {em'.vals}, gep : {em'.gep}, cast : {em'.cast}, bad : KnownIllFormed]
    BY <1>5, <1>7, <2>3
  <2>5. em'.blk # <<>>
    BY <1>5, <1>7
  <2> QED BY <1>3, <1>8, <1>9, <2>1, <2>2, <2>4, <2>5 DEF Struct
<1>12. ASSUME Mirror, ~odd PROVE SameMachine(run', g') /\ SameExit(run', g') /\ SameTemps'
  <2>1. SameMachine(run, g) /\ SameExit(run, g)
    BY <1>1, <1>12 DEF Mirror
  <2>2. /\ DOMAIN run'.ctx = DOMAIN run.ctx /\ run'.ctx[ExitTypeOffset] = "GE_IGNORE"
        /\ \A i \in Offsets : run'.ctx[i] = run.ctx[i]
    BY <1>9, <2>1 DEF SameMachine, Offsets, ExitTypeOffset
  <2>3. SameMachine(run', g')
    BY <1>8, <1>9, <2>1, <2>2 DEF SameMachine
  <2>4. SameExit(run', g')
    BY <1>8, <1>9, <2>1, <2>2 DEF SameExit, Live
  <2>5. SameTemps'
    BY <1>8, <1>10 DEF SameTemps
  <2> QED BY <2>3, <2>4, <2>5
<1>13. Mirror => Mirror'
  BY <1>1, <1>12 DEF Mirror
<1> QED BY <1>11, <1>13 DEF Preserves

LEMMA EmitStmtKeeps == ASSUME Struct, EmitStmt PROVE Preserves
  BY NoOpKeeps, PutKeeps, PutIKeeps, WrTmpKeeps, StoreStmtKeeps, LLSC_emitLoadKeeps,
     LLSC_emitStoreKeeps, StoreGKeeps, LoadGKeeps, CASKeeps, DoubleCASKeeps, DirtyKeeps, ExitKeeps,
     Zenon DEF EmitStmt

(***************************************************************************)
(* The theorems.                                                           *)
(***************************************************************************)
LEMMA StepKeeps == ASSUME Struct, [Next]_vars PROVE Preserves
<1>1. ASSUME UNCHANGED emitVars PROVE Preserves
  <2>1. em' = em /\ run' = run /\ g' = g /\ odd' = odd /\ count' = count
    BY <1>1 DEF emitVars
  <2> QED BY <2>1 DEF Preserves, Struct, Mirror, Cached, Temps, SameTemps, IsGuest, IsMachine,
                      IsCount, SameMachine, SameExit, Placed, Dominates
<1>2. CASE Translate \/ GiveUp \/ UNCHANGED vars
  BY <1>1, <1>2 DEF Translate, GiveUp, vars
<1>3. CASE Deliver
  BY <1>3, EmitBeginKeeps DEF Deliver
<1>4. CASE EmitStmt
  BY <1>4, EmitStmtKeeps
<1>5. CASE EmitEnd
  BY <1>5, EmitEndKeeps
<1> QED BY <1>2, <1>3, <1>4, <1>5 DEF Next

\* The first state: nothing emitted, two equal machines.
LEMMA EmissionBegins == ASSUME Init PROVE Struct /\ Mirror
<1>1. EmitInit
  BY DEF Init
<1>2. em = endBB /\ odd = FALSE /\ count = [stmts |-> 0, here |-> 0, blocks |-> 0]
  BY <1>1 DEF EmitInit
<1>3. /\ endBB \in [blk : Seq(Names), vals : {endBB.vals}, gep : {endBB.gep}, cast : {endBB.cast}, bad : KnownIllFormed]
      /\ endBB.blk = <<>>
  BY DEF endBB, KnownIllFormed
<1> DEFINE rc == [i \in Offsets \cup {ExitTypeOffset} |->
                    IF i = ExitTypeOffset THEN "GE_IGNORE" ELSE Registers[i + 1]]
           rm == [a \in HostAddresses |-> Memory[a - Base + 1]]
           gc == [i \in Offsets |-> Registers[i + 1]]
           gm == [a \in Addresses \cup {SysAddr} |-> IF a = SysAddr THEN SysByte ELSE Memory[a + 1]]
           none == <<>>
<1>4. /\ run = [ctx |-> rc, mem |-> rm, log |-> NoStore, out |-> -1]
      /\ g = [ctx |-> gc, mem |-> gm, tmp |-> none, out |-> Live, log |-> NoStore]
  BY <1>1 DEF EmitInit
<1>5. (\A i \in Offsets : Registers[i + 1] \in Digit) /\ (\A a \in Addresses : Memory[a + 1] \in Digit)
  BY DEF Registers, Memory, Offsets, Addresses, Digit
<1>6. Base \in Nat
  BY EmitAssumption
<1>7. /\ DOMAIN rc = Offsets \cup {ExitTypeOffset} /\ rc[ExitTypeOffset] = "GE_IGNORE"
      /\ gc \in [Offsets -> Digit] /\ \A i \in Offsets : rc[i] = gc[i]
  BY <1>5 DEF Offsets, ExitTypeOffset
<1>8. gm \in [Addresses \cup {SysAddr} -> Digit] /\ gm[SysAddr] = SysByte
  BY <1>5 DEF Addresses, SysAddr, SysByte, Digit
<1>9. rm \in [HostAddresses -> Digit]
  <2> SUFFICES ASSUME NEW a \in HostAddresses PROVE Memory[a - Base + 1] \in Digit
    OBVIOUS
  <2>1. a - Base \in Addresses
    BY <1>6 DEF HostAddresses, Addresses
  <2> QED BY <1>5, <2>1
<1>10. \A a \in Addresses : rm[Base + a] = gm[a]
  <2> SUFFICES ASSUME NEW a \in Addresses PROVE rm[Base + a] = gm[a]
    OBVIOUS
  <2>1. Base + a \in HostAddresses /\ (Base + a) - Base = a /\ a # SysAddr
    BY <1>6 DEF HostAddresses, Addresses, SysAddr
  <2> QED BY <2>1
<1> HIDE DEF rc, rm, gc, gm, none
<1>11. run.ctx = rc /\ run.mem = rm /\ run.log = NoStore /\ run.out = -1 /\ IsMachine(run)
  BY <1>4 DEF IsMachine
<1>12. g.ctx = gc /\ g.mem = gm /\ g.log = NoStore /\ g.out = Live /\ IsGuest(g)
  BY <1>4 DEF IsGuest
<1>13. Struct
  BY <1>2, <1>3, <1>11, <1>12 DEF Struct, IsCount
<1>14. SameMachine(run, g)
  BY <1>7, <1>8, <1>9, <1>10, <1>11, <1>12 DEF SameMachine
<1>15. SameExit(run, g)
  BY <1>7, <1>11, <1>12 DEF SameExit, Live
<1> QED BY <1>2, <1>3, <1>13, <1>14, <1>15 DEF Mirror

\* Whatever the statements and their order, emission asserts nothing and
\* builds a well-formed function: definitions dominate their uses through
\* every branch a statement opens, cached pointers included, phis name the
\* blocks that lead to them and types match; but for the cases
\* KnownIllFormed names.
THEOREM EmissionIsWellFormed == Spec => []WellFormed
<1>1. Init => Struct
  BY EmissionBegins
<1>2. Struct /\ [Next]_vars => Struct'
  BY StepKeeps DEF Preserves
<1>3. Struct => WellFormed
  BY DEF Struct, WellFormed
<1> QED BY <1>1, <1>2, <1>3, PTL DEF Spec

\* What was emitted does to registers, memory, temporaries, control, exit
\* type and store log what the statements say. It is stated for a generator
\* that reads the vsyscall page while translating (VEXLLVM_FAKE_VSYS): in
\* genllvm.cc's other setting such a load is emitted as a load of the host's
\* page, which is outside the memory of the model.
THEOREM EmissionIsFaithful == ASSUME fake_vsys_reads PROVE Spec => []Faithful
<1> DEFINE Both == Struct /\ Mirror
<1>1. Init => Both
  BY EmissionBegins
<1>2. Both /\ [Next]_vars => Both'
  BY StepKeeps DEF Preserves
<1>3. Both => Faithful
  <2> SUFFICES ASSUME Struct, Mirror, em.bad = "", ~odd
               PROVE  /\ \A i \in Offsets : run.ctx[i] = g.ctx[i]
                      /\ \A a \in Addresses : run.mem[Base + a] = g.mem[a]
                      /\ \A t \in DOMAIN em.vals :
                             Dominates(em.vals[t].def, em) => em.vals[t].b = g.tmp[t].b
                      /\ run.out = g.out.to
                      /\ g.out # Live => run.ctx[ExitTypeOffset] = ExitType[g.out.jk]
                      /\ log_last_store => run.log = g.log
    BY DEF Faithful
  <2>1. SameMachine(run, g) /\ SameExit(run, g) /\ (em.blk # <<>> => SameTemps)
    BY DEF Mirror
  <2>2. \A t \in DOMAIN em.vals : Dominates(em.vals[t].def, em) => em.vals[t].b = g.tmp[t].b
    <3>1. CASE em.blk = <<>>
      <4>1. em = endBB
        BY <3>1 DEF Struct
      <4>2. em.vals = <<>>
        BY <4>1 DEF endBB
      <4>3. DOMAIN em.vals = {}
        BY <4>2, EmptyIs
      <4> QED BY <4>3
    <3>2. CASE em.blk # <<>>
      <4>1. SameTemps /\ Temps
        BY <2>1, <3>2 DEF Struct
      <4>2. DOMAIN em.vals = DOMAIN g.tmp
        <5> DEFINE vs == em.vals
                   ts == g.tmp
        <5>1. IsSeq(vs) /\ IsSeq(ts) /\ Len(vs) = Len(ts)
          BY <4>1 DEF Temps
        <5> HIDE DEF vs, ts
        <5>2. DOMAIN vs = 1 .. Len(vs) /\ DOMAIN ts = 1 .. Len(ts)
          BY <5>1, SeqDomain, Zenon
        <5> QED BY <5>1, <5>2 DEF vs, ts
      <4> QED BY <4>1, <4>2 DEF SameTemps
    <3> QED BY <3>1, <3>2
  <2> QED BY <2>1, <2>2 DEF SameMachine, SameExit
<1> QED BY <1>1, <1>2, <1>3, PTL DEF Spec
=============================================================================
