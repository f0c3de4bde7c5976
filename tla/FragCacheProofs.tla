-------------------------- MODULE FragCacheProofs ---------------------------
(***************************************************************************)
(* Proofs about the fragment cache, for every set of codes, every length   *)
(* and every size of the buffers.                                          *)
(***************************************************************************)
EXTENDS FragCache, FiniteSetTheorems, TLAPS

NonDecreasing(f) == \A i, j \in DOMAIN f : i <= j => f[i] <= f[j]

(***************************************************************************)
(* Sorting.  place() numbers the fragments of a file in the order of their *)
(* values, equal ones in the order of the file.                            *)
(***************************************************************************)
\* The i-th fragment goes before the j-th or is it.
Before(f, i, j) == f[i] < f[j] \/ (f[i] = f[j] /\ i <= j)

\* What goes no later than a fragment is a finite set, and a smaller one for
\* what goes before it.
LEMMA PlaceOrder ==
    ASSUME NEW f \in Seq(Nat), NEW i \in DOMAIN f, NEW j \in DOMAIN f
    PROVE  /\ place(f, i) \in DOMAIN f
           /\ i # j /\ Before(f, i, j) => place(f, i) < place(f, j)
<1> DEFINE P(k) == {l \in DOMAIN f : f[l] < f[k] \/ (f[l] = f[k] /\ l <= k)}
<1>0. /\ DOMAIN f = 1 .. Len(f) /\ Len(f) \in Nat
      /\ \A k \in DOMAIN f : f[k] \in Nat /\ k \in Nat
  OBVIOUS
<1>1. IsFiniteSet(DOMAIN f) /\ Cardinality(DOMAIN f) = Len(f)
  <2> DEFINE n == Len(f)
  <2>1. n \in Nat /\ DOMAIN f = 1 .. n
    BY <1>0
  <2> HIDE DEF n
  <2>2. IsFiniteSet(1 .. n) /\ Cardinality(1 .. n) = IF 1 > n THEN 0 ELSE n - 1 + 1
    BY <2>1, FS_Interval
  <2> QED BY <2>1, <2>2 DEF n
<1>2. ASSUME NEW k \in DOMAIN f
      PROVE  /\ IsFiniteSet(P(k)) /\ Cardinality(P(k)) \in Nat
             /\ Cardinality(P(k)) <= Len(f) /\ Cardinality(P(k)) # 0
  <2>1. P(k) \in SUBSET DOMAIN f /\ k \in P(k)
    BY <1>0
  <2> HIDE DEF P
  <2> QED BY <1>1, <2>1, FS_Subset, FS_CardinalityType, FS_EmptySet
<1>3. place(f, i) = Cardinality(P(i)) /\ place(f, j) = Cardinality(P(j))
  BY DEF place
<1>4. ASSUME i # j, Before(f, i, j)
      PROVE  P(i) \in SUBSET P(j) /\ P(i) # P(j)
  <2>1. P(i) \in SUBSET P(j)
    BY <1>0, <1>4 DEF Before
  <2>2. j \in P(j) /\ j \notin P(i)
    BY <1>0, <1>4 DEF Before
  <2> QED BY <2>1, <2>2
<1> HIDE DEF P
<1>5. i # j /\ Before(f, i, j) => Cardinality(P(i)) < Cardinality(P(j))
  BY <1>2, <1>4, FS_Subset
<1> QED BY <1>0, <1>2, <1>3, <1>5

\* Of two fragments one goes before the other.
LEMMA BeforeTotal ==
    ASSUME NEW f \in Seq(Nat), NEW i \in DOMAIN f, NEW j \in DOMAIN f
    PROVE  Before(f, i, j) \/ Before(f, j, i)
<1>1. f[i] \in Nat /\ f[j] \in Nat /\ i \in Nat /\ j \in Nat
  OBVIOUS
<1> QED BY <1>1 DEF Before

\* Every place is taken, and by one fragment.
LEMMA PlaceOnto ==
    ASSUME NEW f \in Seq(Nat), NEW k \in DOMAIN f
    PROVE  \E i \in DOMAIN f : place(f, i) = k
<1> DEFINE p == [i \in DOMAIN f |-> place(f, i)]
<1>1. p \in [DOMAIN f -> DOMAIN f]
  BY PlaceOrder
<1>2. ASSUME NEW i \in DOMAIN f, NEW j \in DOMAIN f, i # j PROVE place(f, i) # place(f, j)
  <2>1. place(f, i) \in Nat /\ place(f, j) \in Nat
    BY PlaceOrder
  <2> QED BY <1>2, <2>1, PlaceOrder, BeforeTotal
<1>3. p \in Injection(DOMAIN f, DOMAIN f)
  BY <1>1, <1>2 DEF Injection, IsInjective
<1>4. IsFiniteSet(DOMAIN f)
  <2>1. DOMAIN f = 1 .. Len(f) /\ Len(f) \in Nat
    OBVIOUS
  <2> QED BY <2>1, FS_Interval
<1> HIDE DEF p
<1>5. p \in Surjection(DOMAIN f, DOMAIN f)
  BY <1>3, <1>4, FS_Injection
<1> QED BY <1>5 DEF Surjection, p

\* qsort: the sorted file is in order and a rearrangement of the file.
LEMMA SortedIs ==
    ASSUME NEW f \in Seq(Nat)
    PROVE  /\ sorted(f) \in Seq(Nat) /\ Len(sorted(f)) = Len(f)
           /\ NonDecreasing(sorted(f))
           /\ ToSet(sorted(f)) = ToSet(f)
           /\ IsInjective(f) => IsInjective(sorted(f))
<1> DEFINE at(k) == CHOOSE i \in DOMAIN f : place(f, i) = k
<1> DEFINE s == sorted(f)
<1>1. \A k \in DOMAIN f : at(k) \in DOMAIN f /\ place(f, at(k)) = k
  BY PlaceOnto
<1>2. s = [k \in DOMAIN f |-> f[at(k)]]
  BY DEF sorted
<1> HIDE DEF at, s
<1>3. /\ DOMAIN f = 1 .. Len(f) /\ Len(f) \in Nat
      /\ \A k \in DOMAIN f : f[k] \in Nat /\ k \in Nat
  OBVIOUS
<1>4. s \in Seq(Nat) /\ Len(s) = Len(f) /\ DOMAIN s = DOMAIN f
  BY <1>1, <1>2, <1>3
<1>5. NonDecreasing(s)
  <2> SUFFICES ASSUME NEW i \in DOMAIN f, NEW j \in DOMAIN f, i <= j PROVE s[i] <= s[j]
    BY <1>4 DEF NonDecreasing
  <2>1. CASE at(i) = at(j)
    BY <1>1, <1>2, <1>3, <2>1
  <2>2. CASE at(i) # at(j)
    <3>1. ~Before(f, at(j), at(i))
      BY <1>1, <1>3, <2>2, PlaceOrder
    <3>2. f[at(i)] <= f[at(j)]
      BY <1>1, <1>3, <3>1, BeforeTotal DEF Before
    <3> QED BY <1>2, <3>2
  <2> QED BY <2>1, <2>2
<1>6. ASSUME NEW i \in DOMAIN f PROVE at(place(f, i)) = i /\ place(f, i) \in DOMAIN f
  <2>1. place(f, i) \in DOMAIN f
    BY PlaceOrder
  <2>2. at(place(f, i)) \in DOMAIN f /\ place(f, at(place(f, i))) = place(f, i)
    BY <1>1, <2>1
  <2>3. ASSUME NEW j \in DOMAIN f, j # i PROVE place(f, j) # place(f, i)
    <3>1. place(f, i) \in Nat /\ place(f, j) \in Nat
      BY PlaceOrder
    <3> QED BY <2>3, <3>1, PlaceOrder, BeforeTotal
  <2> QED BY <2>1, <2>2, <2>3
<1>7. ToSet(s) = ToSet(f)
  <2>1. ASSUME NEW k \in DOMAIN s PROVE s[k] \in ToSet(f)
    BY <1>1, <1>2, <1>4 DEF ToSet
  <2>2. ASSUME NEW i \in DOMAIN f PROVE f[i] \in ToSet(s)
    <3>1. s[place(f, i)] = f[i] /\ place(f, i) \in DOMAIN s
      BY <1>2, <1>4, <1>6
    <3> QED BY <3>1 DEF ToSet
  <2> QED BY <2>1, <2>2 DEF ToSet
<1>8. IsInjective(f) => IsInjective(s)
  BY <1>1, <1>2, <1>4 DEF IsInjective
<1> QED BY <1>4, <1>5, <1>7, <1>8 DEF s

(***************************************************************************)
(* Searching.                                                              *)
(***************************************************************************)
\* The binary search of a file in order finds exactly what is in it: what it
\* answers between two bounds is whether the fragment lies between them, and
\* the distance of the bounds decreases.
LEMMA BsearchExact ==
    ASSUME NEW f \in Seq(Nat), NonDecreasing(f), NEW x \in Nat
    PROVE  bsearch(f, x) <=> x \in ToSet(f)
<1> DEFINE n == Len(f)
           D == (0 .. n) \X (0 .. n)
           Mid(r) == (r[1] + r[2]) \div 2
           Body(g, r) == /\ r[1] < r[2]
                         /\ \/ x = f[Mid(r) + 1]
                            \/ x < f[Mid(r) + 1] /\ g[<<r[1], Mid(r)>>]
                            \/ x > f[Mid(r) + 1] /\ g[<<Mid(r) + 1, r[2]>>]
           In(r) == \E i \in (r[1] + 1) .. r[2] : f[i] = x
           found == [r \in D |-> In(r)]
<1>1. bsearch(f, x) = (CHOOSE g : g = [r \in D |-> Body(g, r)])[<<0, n>>]
  BY DEF bsearch
<1>2. n \in Nat /\ DOMAIN f = 1 .. n /\ \A i \in 1 .. n : f[i] \in Nat
  OBVIOUS
<1> HIDE DEF n
<1>3. ASSUME NEW r \in D, r[1] < r[2]
      PROVE  /\ Mid(r) \in Nat /\ r[1] <= Mid(r) /\ Mid(r) < r[2]
             /\ r[1] \in Nat /\ r[2] \in Nat /\ r[2] <= n
             /\ <<r[1], Mid(r)>> \in D /\ <<Mid(r) + 1, r[2]>> \in D
  BY <1>2, <1>3
<1>4. ASSUME NEW r \in D
      PROVE  In(r) <=> /\ r[1] < r[2]
                       /\ \/ x = f[Mid(r) + 1]
                          \/ x < f[Mid(r) + 1] /\ In(<<r[1], Mid(r)>>)
                          \/ x > f[Mid(r) + 1] /\ In(<<Mid(r) + 1, r[2]>>)
  <2>1. CASE ~(r[1] < r[2])
    BY <1>2, <2>1
  <2>2. CASE r[1] < r[2]
    <3> DEFINE m == Mid(r)
    <3>1. /\ m \in Nat /\ r[1] <= m /\ m < r[2]
          /\ r[1] \in Nat /\ r[2] \in Nat /\ r[2] <= n
      BY <1>3, <2>2
    <3> HIDE DEF m
    <3>2. m + 1 \in 1 .. n /\ f[m + 1] \in Nat
      BY <1>2, <3>1
    <3>3. \A i \in (r[1] + 1) .. r[2] : /\ i \in 1 .. n /\ f[i] \in Nat
                                        /\ i <= m + 1 => f[i] <= f[m + 1]
                                        /\ m + 1 <= i => f[m + 1] <= f[i]
      <4>1. \A i, j \in 1 .. n : i <= j => f[i] <= f[j]
        BY <1>2 DEF NonDecreasing
      <4>2. \A i \in (r[1] + 1) .. r[2] : i \in 1 .. n
        BY <1>2, <3>1
      <4> QED BY <1>2, <3>2, <4>1, <4>2
    <3>4. In(<<r[1], m>>) <=> \E i \in (r[1] + 1) .. m : f[i] = x
      OBVIOUS
    <3>5. In(<<m + 1, r[2]>>) <=> \E i \in (m + 2) .. r[2] : f[i] = x
      BY <3>1
    <3>6. In(r) => \/ x = f[m + 1]
                   \/ x < f[m + 1] /\ \E i \in (r[1] + 1) .. m : f[i] = x
                   \/ x > f[m + 1] /\ \E i \in (m + 2) .. r[2] : f[i] = x
      <4> SUFFICES ASSUME NEW i \in (r[1] + 1) .. r[2], f[i] = x, x # f[m + 1]
                   PROVE  \/ x < f[m + 1] /\ i \in (r[1] + 1) .. m
                          \/ x > f[m + 1] /\ i \in (m + 2) .. r[2]
        OBVIOUS
      <4>1. i # m + 1
        OBVIOUS
      <4> QED BY <3>1, <3>2, <3>3, <4>1
    <3>7. (\E i \in (r[1] + 1) .. m : f[i] = x) => In(r)
      BY <3>1
    <3>8. x = f[m + 1] => In(r)
      BY <3>1
    <3>9. (\E i \in (m + 2) .. r[2] : f[i] = x) => In(r)
      BY <3>1
    <3> QED BY <2>2, <3>4, <3>5, <3>6, <3>7, <3>8, <3>9 DEF m
  <2> QED BY <2>1, <2>2
<1> HIDE DEF In
<1>5. found = [r \in D |-> Body(found, r)]
  <2>1. ASSUME NEW r \in D PROVE In(r) = Body(found, r)
    <3>1. r[1] < r[2] => /\ found[<<r[1], Mid(r)>>] = In(<<r[1], Mid(r)>>)
                         /\ found[<<Mid(r) + 1, r[2]>>] = In(<<Mid(r) + 1, r[2]>>)
      BY <1>3
    <3>2. In(r) <=> Body(found, r)
      BY <1>4, <3>1
    <3> QED BY <3>2 DEF In
  <2> QED BY <2>1
<1>6. ASSUME NEW g, g = [r \in D |-> Body(g, r)] PROVE g[<<0, n>>] <=> In(<<0, n>>)
  <2> DEFINE T == {k \in Nat : \E r \in D : r[2] - r[1] = k /\ ~(g[r] <=> In(r))}
  <2>1. \A r \in D : g[r] <=> Body(g, r)
    BY <1>6
  <2>2. ASSUME NEW k \in T, \A j \in T : ~(j < k) PROVE FALSE
    <3>1. PICK r \in D : r[2] - r[1] = k /\ ~(g[r] <=> In(r))
      OBVIOUS
    <3>2. r[1] < r[2]
      BY <1>4, <2>1, <3>1
    <3>3. /\ g[<<r[1], Mid(r)>>] <=> In(<<r[1], Mid(r)>>)
          /\ g[<<Mid(r) + 1, r[2]>>] <=> In(<<Mid(r) + 1, r[2]>>)
      <4>1. /\ Mid(r) - r[1] \in Nat /\ Mid(r) - r[1] < k
            /\ r[2] - (Mid(r) + 1) \in Nat /\ r[2] - (Mid(r) + 1) < k
        BY <1>3, <3>1, <3>2
      <4>2. Mid(r) - r[1] \notin T /\ r[2] - (Mid(r) + 1) \notin T
        BY <2>2, <4>1
      <4>3. <<r[1], Mid(r)>> \in D /\ <<Mid(r) + 1, r[2]>> \in D
        BY <1>3, <3>2
      <4> QED BY <4>1, <4>2, <4>3
    <3> QED BY <1>4, <2>1, <3>1, <3>3
  <2>3. T \subseteq Nat
    OBVIOUS
  <2> HIDE DEF T
  <2>4. T = {}
    <3> SUFFICES ASSUME T # {} PROVE FALSE
      OBVIOUS
    <3>1. PICK k \in T : \A j \in T : ~ (<<j, k>> \in OpToRel(<, Nat))
      BY <2>3, WFMin, NatLessThanWellFounded, Zenon
    <3>2. \A j \in T : ~(j < k)
      BY <2>3, <3>1 DEF OpToRel
    <3> QED BY <2>2, <3>2
  <2>5. <<0, n>> \in D /\ n - 0 \in Nat
    BY <1>2
  <2> QED BY <2>4, <2>5 DEF T
<1>7. (CHOOSE g : g = [r \in D |-> Body(g, r)])[<<0, n>>] <=> In(<<0, n>>)
  <2> DEFINE Q(g) == g = [r \in D |-> Body(g, r)]
  <2>1. Q(found)
    BY <1>5
  <2>2. Q(CHOOSE g : Q(g))
    <3> HIDE DEF Q
    <3> QED BY <2>1, Zenon
  <2> QED BY <1>6, <2>2
<1>8. In(<<0, n>>) <=> x \in ToSet(f)
  BY <1>2 DEF In, ToSet
<1> QED BY <1>1, <1>7, <1>8

(***************************************************************************)
(* Files and buffers as sequences.                                         *)
(***************************************************************************)
\* The fragments of what the operations on sequences build.
LEMMA ToSets ==
    ASSUME NEW f \in Seq(Nat), NEW b \in Seq(Nat), NEW x \in Nat
    PROVE  /\ ToSet(<<>>) = {}
           /\ ToSet(f \o b) = ToSet(f) \cup ToSet(b)
           /\ ToSet(Append(b, x)) = ToSet(b) \cup {x}
<1>1. ToSet(<<>>) = {}
  BY DEF ToSet
<1>2. ToSet(f \o b) = ToSet(f) \cup ToSet(b)
  <2>1. /\ Len(f) \in Nat /\ Len(b) \in Nat /\ DOMAIN (f \o b) = 1 .. Len(f) + Len(b)
        /\ DOMAIN f = 1 .. Len(f) /\ DOMAIN b = 1 .. Len(b)
        /\ \A i \in 1 .. Len(f) : (f \o b)[i] = f[i]
        /\ \A i \in 1 .. Len(b) : (f \o b)[Len(f) + i] = b[i]
    OBVIOUS
  <2>2. ASSUME NEW i \in 1 .. Len(f) + Len(b) PROVE (f \o b)[i] \in ToSet(f) \cup ToSet(b)
    <3>1. CASE i <= Len(f)
      BY <2>1, <3>1 DEF ToSet
    <3>2. CASE i > Len(f)
      <4>1. i - Len(f) \in 1 .. Len(b) /\ Len(f) + (i - Len(f)) = i
        BY <2>1, <3>2
      <4> QED BY <2>1, <4>1 DEF ToSet
    <3> QED BY <2>1, <3>1, <3>2
  <2>3. ASSUME NEW i \in 1 .. Len(f) PROVE f[i] \in ToSet(f \o b)
    BY <2>1 DEF ToSet
  <2>4. ASSUME NEW i \in 1 .. Len(b) PROVE b[i] \in ToSet(f \o b)
    <3>1. Len(f) + i \in 1 .. Len(f) + Len(b)
      BY <2>1
    <3> QED BY <2>1, <3>1 DEF ToSet
  <2> QED BY <2>1, <2>2, <2>3, <2>4 DEF ToSet
<1>3. ToSet(Append(b, x)) = ToSet(b) \cup {x}
  <2>1. /\ DOMAIN b = 1 .. Len(b) /\ Len(b) \in Nat /\ DOMAIN Append(b, x) = 1 .. Len(b) + 1
        /\ \A i \in 1 .. Len(b) : Append(b, x)[i] = b[i]
        /\ Append(b, x)[Len(b) + 1] = x
    OBVIOUS
  <2>2. ASSUME NEW i \in 1 .. Len(b) + 1 PROVE Append(b, x)[i] \in ToSet(b) \cup {x}
    <3>1. i \in 1 .. Len(b) \/ i = Len(b) + 1
      BY <2>1
    <3> QED BY <2>1, <3>1 DEF ToSet
  <2>3. ASSUME NEW i \in 1 .. Len(b) PROVE b[i] \in ToSet(Append(b, x))
    <3>1. i \in 1 .. Len(b) + 1
      BY <2>1
    <3> QED BY <2>1, <3>1 DEF ToSet
  <2>4. x \in ToSet(Append(b, x))
    <3>1. Len(b) + 1 \in 1 .. Len(b) + 1
      BY <2>1
    <3> QED BY <2>1, <3>1 DEF ToSet
  <2> QED BY <2>1, <2>2, <2>3, <2>4 DEF ToSet
<1> QED BY <1>1, <1>2, <1>3

\* A part of a sequence holds nothing else.
LEMMA PartIs ==
    ASSUME NEW b \in Seq(Nat), NEW m \in Nat \ {0}, NEW n \in Nat, n <= Len(b)
    PROVE  /\ SubSeq(b, m, n) \in Seq(Nat)
           /\ ToSet(SubSeq(b, m, n)) \subseteq ToSet(b)
<1> DEFINE t == SubSeq(b, m, n)
           l == IF m <= n THEN n - m + 1 ELSE 0
<1>1. Len(b) \in Nat /\ DOMAIN b = 1 .. Len(b) /\ \A i \in 1 .. Len(b) : b[i] \in Nat
  OBVIOUS
<1>2. /\ l \in Nat
      /\ \A i \in 1 .. l : m + i - 1 \in 1 .. Len(b)
  BY <1>1
<1>3. t = [i \in 1 .. l |-> b[m + i - 1]]
  BY <1>1
<1> HIDE DEF t, l
<1>4. t \in Seq(Nat) /\ DOMAIN t = 1 .. l /\ \A i \in 1 .. l : t[i] = b[m + i - 1]
  BY <1>1, <1>2, <1>3
<1>5. ToSet(t) \subseteq ToSet(b)
  BY <1>1, <1>2, <1>4 DEF ToSet
<1> QED BY <1>4, <1>5 DEF t

\* Nothing is twice in a part of what has nothing twice, or after a fragment
\* that was not there is appended.
LEMMA Injectives ==
    ASSUME NEW f \in Seq(Nat), NEW b \in Seq(Nat), NEW x \in Nat, IsInjective(f \o b)
    PROVE  /\ IsInjective(f \o <<>>)
           /\ x \notin ToSet(f) \cup ToSet(b) => IsInjective(f \o Append(b, x))
<1>1. IsInjective(f)
  <2>1. /\ DOMAIN f \subseteq DOMAIN (f \o b)
        /\ \A i \in DOMAIN f : (f \o b)[i] = f[i]
    OBVIOUS
  <2> QED BY <2>1 DEF IsInjective
<1>2. f \o <<>> = f
  OBVIOUS
<1>3. f \o Append(b, x) = Append(f \o b, x)
  OBVIOUS
<1>4. x \notin ToSet(f \o b) => IsInjective(Append(f \o b, x))
  <2> DEFINE s == f \o b
  <2>1. s \in Seq(Nat)
    OBVIOUS
  <2> HIDE DEF s
  <2>2. x \notin ToSet(s) /\ IsInjective(s) => IsInjective(Append(s, x))
    BY <2>1 DEF IsInjective, ToSet
  <2> QED BY <2>2 DEF s
<1> QED BY <1>1, <1>2, <1>3, <1>4, ToSets

\* FCFile::flush keeps what file and buffer hold, each once if it was there
\* once, and leaves the file in order.
LEMMA FlushedIs ==
    ASSUME NEW f \in Seq(Nat), NEW b \in Seq(Nat)
    PROVE  /\ flushed(f, b) \in Seq(Nat)
           /\ ToSet(flushed(f, b)) = ToSet(f) \cup ToSet(b)
           /\ NonDecreasing(f) => NonDecreasing(flushed(f, b))
           /\ IsInjective(f \o b) => IsInjective(flushed(f, b) \o <<>>)
<1>1. CASE b = <<>>
  <2>1. flushed(f, b) = f /\ ToSet(b) = {} /\ f \o b = f \o <<>>
    BY <1>1, ToSets DEF flushed
  <2> QED BY <2>1
<1>2. CASE b # <<>>
  <2> DEFINE s == f \o b
  <2>1. s \in Seq(Nat) /\ ToSet(s) = ToSet(f) \cup ToSet(b)
    BY ToSets
  <2>2. flushed(f, b) = sorted(s)
    BY <1>2 DEF flushed
  <2> HIDE DEF s
  <2>3. /\ sorted(s) \in Seq(Nat) /\ NonDecreasing(sorted(s)) /\ ToSet(sorted(s)) = ToSet(s)
        /\ IsInjective(s) => IsInjective(sorted(s))
    BY <2>1, SortedIs
  <2>4. sorted(s) \o <<>> = sorted(s)
    BY <2>3
  <2> QED BY <2>1, <2>2, <2>3, <2>4 DEF s
<1> QED BY <1>1, <1>2

\* What a flush that is cut short leaves was in the file or in the buffer.
LEMMA CutIs ==
    ASSUME NEW f \in Seq(Nat), NEW b \in Seq(Nat), NEW x \in Cut(f, b)
    PROVE  x \in Seq(Nat) /\ ToSet(x) \subseteq ToSet(f) \cup ToSet(b)
<1> DEFINE s == f \o b
<1>1. s \in Seq(Nat) /\ ToSet(s) = ToSet(f) \cup ToSet(b)
  BY ToSets
<1>2. /\ sorted(s) \in Seq(Nat) /\ ToSet(sorted(s)) = ToSet(s) /\ Len(sorted(s)) = Len(s)
  BY <1>1, SortedIs
<1>3. CASE \E k \in 0 .. Len(b) : x = f \o SubSeq(b, 1, k)
  <2>1. PICK k \in 0 .. Len(b) : x = f \o SubSeq(b, 1, k)
    BY <1>3
  <2> DEFINE t == SubSeq(b, 1, k)
  <2>2. t \in Seq(Nat) /\ ToSet(t) \subseteq ToSet(b)
    BY PartIs
  <2>3. x = f \o t
    BY <2>1
  <2> HIDE DEF t
  <2>4. ToSet(x) = ToSet(f) \cup ToSet(t) /\ x \in Seq(Nat)
    BY <2>2, <2>3, ToSets
  <2> QED BY <2>2, <2>4
<1>4. CASE \E k \in 0 .. Len(s) : x = SubSeq(sorted(s), 1, k) \o SubSeq(s, k + 1, Len(s))
  <2>1. PICK k \in 0 .. Len(s) : x = SubSeq(sorted(s), 1, k) \o SubSeq(s, k + 1, Len(s))
    BY <1>4
  <2> DEFINE t == SubSeq(sorted(s), 1, k)
             u == SubSeq(s, k + 1, Len(s))
  <2> HIDE DEF s
  <2>2. k \in Nat /\ k <= Len(s) /\ Len(s) \in Nat /\ Len(s) <= Len(s) /\ k + 1 \in Nat \ {0}
    BY <1>1
  <2>3. t \in Seq(Nat) /\ ToSet(t) \subseteq ToSet(s)
    BY <1>2, <2>2, PartIs
  <2>4. u \in Seq(Nat) /\ ToSet(u) \subseteq ToSet(s)
    BY <1>1, <2>2, PartIs
  <2>5. x = t \o u
    BY <2>1
  <2> HIDE DEF t, u
  <2>6. ToSet(x) = ToSet(t) \cup ToSet(u) /\ x \in Seq(Nat)
    BY <2>3, <2>4, <2>5, ToSets
  <2> QED BY <1>1, <2>3, <2>4, <2>6
<1> QED BY <1>3, <1>4 DEF Cut

(***************************************************************************)
(* The invariant.                                                          *)
(***************************************************************************)
Files == file \in [Lens -> Seq(Nat)] /\ buffer \in [Lens -> Seq(Nat)]
InOrder == \A len \in Lens \ damaged : NonDecreasing(file[len])
FilesInv == Files /\ InOrder /\ NoDuplicates

\* What one step may do to the file and the buffer of length len: nothing, lose
\* the buffer, flush it, append a fragment the search did not find, flush that
\* too, or leave a cut flush behind.
Kept(len) == file'[len] = file[len] /\ buffer'[len] \in {buffer[len], <<>>}
Flushes(len, b) == file'[len] = flushed(file[len], b) /\ buffer'[len] = <<>>
Buffers(len, b) == file'[len] = file[len] /\ buffer'[len] = b
CutShort(len, b) ==
    /\ len \in damaged'
    /\ file'[len] \in Cut(file[len], b)
    /\ buffer'[len] = <<>>
FileStep(len) ==
    \/ Kept(len)
    \/ Flushes(len, buffer[len])
    \/ CutShort(len, buffer[len])
    \/ \E g \in Codes :
          \/ ~contains(g, len) /\ Buffers(len, Buffered(g, len))
          \/ ~contains(g, len) /\ Flushes(len, Buffered(g, len))
          \/ CutShort(len, Buffered(g, len))

\* The fragments of a code are numbers.
LEMMA PrefixNat == \A g \in Codes, len \in Lens : Prefix(g, len) \in Nat
BY CacheAssumption

\* Every step is one of these for every length.
LEMMA StepsOfFiles ==
    ASSUME Files, Next
    PROVE  /\ damaged \subseteq damaged'
           /\ DOMAIN file' = Lens /\ DOMAIN buffer' = Lens
           /\ file' = [len \in Lens |-> file'[len]] /\ buffer' = [len \in Lens |-> buffer'[len]]
           /\ \A len \in Lens : FileStep(len)
<1> DEFINE Goal == /\ damaged \subseteq damaged'
                   /\ DOMAIN file' = Lens /\ DOMAIN buffer' = Lens
                   /\ file' = [len \in Lens |-> file'[len]]
                   /\ buffer' = [len \in Lens |-> buffer'[len]]
                   /\ \A len \in Lens : FileStep(len)
<1> SUFFICES Goal
  OBVIOUS
<1>0. /\ DOMAIN file = Lens /\ DOMAIN buffer = Lens
      /\ file = [len \in Lens |-> file[len]] /\ buffer = [len \in Lens |-> buffer[len]]
  BY DEF Files
<1>1. ASSUME UNCHANGED <<file, buffer, damaged>> PROVE Goal
  BY <1>0, <1>1 DEF FileStep, Kept
<1>2. ASSUME UNCHANGED <<file, damaged>>, Down PROVE Goal
  BY <1>0, <1>2 DEF FileStep, Kept, Down
<1>3. ASSUME UNCHANGED damaged, Down, file' = [len \in Lens |-> flushed(file[len], buffer[len])]
      PROVE  Goal
  BY <1>3 DEF FileStep, Flushes, Down
<1>4. ASSUME NEW g \in Codes, NEW len \in Lens, addFragment(g, len) PROVE Goal
  <2>1. ~contains(g, len) /\ AddToFile(g, len) /\ UNCHANGED damaged
    BY <1>4 DEF addFragment, Adds
  <2>2. CASE Len(Buffered(g, len)) > FLUSH_FCF_TRIGGER
    <3>1. /\ file' = [file EXCEPT ![len] = flushed(file[len], Buffered(g, len))]
          /\ buffer' = [buffer EXCEPT ![len] = <<>>]
      BY <2>1, <2>2 DEF AddToFile
    <3>2. Flushes(len, Buffered(g, len))
      BY <1>0, <3>1 DEF Flushes
    <3>3. \A l \in Lens \ {len} : Kept(l)
      BY <1>0, <3>1 DEF Kept
    <3> QED BY <1>0, <2>1, <3>1, <3>2, <3>3 DEF FileStep
  <2>3. CASE ~(Len(Buffered(g, len)) > FLUSH_FCF_TRIGGER)
    <3>1. buffer' = [buffer EXCEPT ![len] = Buffered(g, len)] /\ file' = file
      BY <2>1, <2>3 DEF AddToFile
    <3>2. Buffers(len, Buffered(g, len))
      BY <1>0, <3>1 DEF Buffers
    <3>3. \A l \in Lens \ {len} : Kept(l)
      BY <1>0, <3>1 DEF Kept
    <3> QED BY <1>0, <2>1, <3>1, <3>2, <3>3 DEF FileStep
  <2> QED BY <2>2, <2>3
<1>5. ASSUME NEW len \in Lens, NEW b, NEW other, CutFlush(len, b, other), Down,
             b = buffer[len] \/ (\E g \in Codes : b = Buffered(g, len)),
             \A l \in Lens : other[l] \in {file[l], flushed(file[l], buffer[l])}
      PROVE  Goal
  <2>1. PICK x \in Cut(file[len], b) :
            file' = [l \in Lens |-> IF l = len THEN x ELSE other[l]]
    BY <1>5 DEF CutFlush
  <2>2. damaged' = damaged \cup {len}
    BY <1>5 DEF CutFlush
  <2>3. CutShort(len, b)
    BY <1>5, <2>1, <2>2 DEF CutShort, Down
  <2>4. ASSUME NEW l \in Lens \ {len} PROVE Kept(l) \/ Flushes(l, buffer[l])
    <3>1. file'[l] = other[l] /\ buffer'[l] = <<>>
      BY <1>5, <2>1 DEF Down
    <3> QED BY <1>5, <3>1 DEF Kept, Flushes
  <2>5. FileStep(len)
    BY <1>5, <2>3 DEF FileStep
  <2>6. DOMAIN buffer' = Lens /\ buffer' = [l \in Lens |-> buffer'[l]]
    BY <1>5 DEF Down
  <2>7. DOMAIN file' = Lens /\ file' = [l \in Lens |-> file'[l]]
    BY <2>1
  <2> QED BY <2>2, <2>4, <2>5, <2>6, <2>7 DEF FileStep
<1>6. ASSUME NEW g \in Codes, NEW len \in Lens, CrashInAdd(g, len) PROVE Goal
  <2>1. CutFlush(len, Buffered(g, len), file) /\ Down
    BY <1>6 DEF CrashInAdd
  <2> HIDE DEF Goal
  <2> QED BY <1>5, <2>1
<1>7. ASSUME NEW len \in Lens, CrashInClose(len) PROVE Goal
  <2> DEFINE other == [l \in Lens |-> IF l < len THEN flushed(file[l], buffer[l]) ELSE file[l]]
  <2>1. CutFlush(len, buffer[len], other) /\ Down
    BY <1>7 DEF CrashInClose
  <2>2. \A l \in Lens : other[l] \in {file[l], flushed(file[l], buffer[l])}
    OBVIOUS
  <2> HIDE DEF Goal, other
  <2> QED BY <1>5, <2>1, <2>2
<1> HIDE DEF Goal
<1>8. CASE Open \/ LoadDies \/ Close \/ Crash \/ CrashInHash
  BY <1>1, <1>2, <1>3, <1>8 DEF Open, LoadDies, Close, Crash, CrashInHash
<1>9. ASSUME NEW g \in Codes, findLength(g) PROVE Goal
  BY <1>1, <1>9 DEF findLength
<1>10. ASSUME NEW g \in Codes, NEW len \in Lens, AddKnown(g, len) \/ AddDies(g, len) PROVE Goal
  BY <1>1, <1>2, <1>10 DEF AddKnown, AddDies
<1> QED BY <1>4, <1>6, <1>7, <1>8, <1>9, <1>10 DEF Next

\* In a file that no crash damaged the search is exact.
LEMMA Exact ==
    ASSUME Files, InOrder, NEW len \in Lens \ damaged, NEW g \in Codes
    PROVE  contains(g, len) = (Prefix(g, len) \in ToSet(file[len]) \cup ToSet(buffer[len]))
<1>1. file[len] \in Seq(Nat) /\ NonDecreasing(file[len]) /\ Prefix(g, len) \in Nat
  BY PrefixNat DEF Files, InOrder
<1>2. containsFile(g, len) <=> Prefix(g, len) \in ToSet(file[len])
  BY <1>1, BsearchExact DEF containsFile
<1> QED BY <1>2 DEF contains, containsBuffer

\* A step of one length keeps its part of the invariant.
LEMMA FileStepKeeps ==
    ASSUME FilesInv, NEW len \in Lens, FileStep(len), damaged \subseteq damaged'
    PROVE  /\ file'[len] \in Seq(Nat) /\ buffer'[len] \in Seq(Nat)
           /\ len \notin damaged' => /\ NonDecreasing(file'[len])
                                     /\ IsInjective(file'[len] \o buffer'[len])
<1> DEFINE f == file[len]
           b == buffer[len]
           Ok == len \notin damaged => NonDecreasing(f) /\ IsInjective(f \o b)
           Goal == /\ file'[len] \in Seq(Nat) /\ buffer'[len] \in Seq(Nat)
                   /\ len \notin damaged' => /\ NonDecreasing(file'[len])
                                             /\ IsInjective(file'[len] \o buffer'[len])
<1>0. f \in Seq(Nat) /\ b \in Seq(Nat) /\ Ok /\ <<>> \in Seq(Nat)
  BY DEF FilesInv, Files, InOrder, NoDuplicates
<1> HIDE DEF f, b
<1>1. CASE Kept(len)
  <2>1. file'[len] = f /\ buffer'[len] \in {b, <<>>}
    BY <1>1 DEF Kept, f, b
  <2>2. len \notin damaged => IsInjective(f \o <<>>)
    BY <1>0, 0 \in Nat, Injectives
  <2> QED BY <1>0, <2>1, <2>2
<1>2. CASE Flushes(len, b)
  <2>1. file'[len] = flushed(f, b) /\ buffer'[len] = <<>>
    BY <1>2 DEF Flushes, f, b
  <2> QED BY <1>0, <2>1, FlushedIs
<1>3. ASSUME NEW c \in Seq(Nat), CutShort(len, c) PROVE Goal
  <2>1. len \in damaged' /\ file'[len] \in Cut(f, c) /\ buffer'[len] = <<>>
    BY <1>3 DEF CutShort, f
  <2> QED BY <1>0, <2>1, CutIs
<1>4. ASSUME NEW g \in Codes
      PROVE  /\ Buffered(g, len) \in Seq(Nat)
             /\ ~contains(g, len) /\ len \notin damaged => IsInjective(f \o Buffered(g, len))
  <2>1. Prefix(g, len) \in Nat /\ Buffered(g, len) = Append(b, Prefix(g, len))
    BY PrefixNat DEF Buffered, b
  <2>2. ~contains(g, len) /\ len \notin damaged => Prefix(g, len) \notin ToSet(f) \cup ToSet(b)
    BY Exact DEF FilesInv, f, b
  <2> QED BY <1>0, <2>1, <2>2, Injectives
<1>5. ASSUME NEW g \in Codes, ~contains(g, len), Buffers(len, Buffered(g, len)) PROVE Goal
  <2>1. file'[len] = f /\ buffer'[len] = Buffered(g, len)
    BY <1>5 DEF Buffers, f
  <2> QED BY <1>0, <1>4, <1>5, <2>1
<1>6. ASSUME NEW g \in Codes, ~contains(g, len), Flushes(len, Buffered(g, len)) PROVE Goal
  <2>1. file'[len] = flushed(f, Buffered(g, len)) /\ buffer'[len] = <<>>
    BY <1>6 DEF Flushes, f
  <2> QED BY <1>0, <1>4, <1>6, <2>1, FlushedIs
<1>7. ASSUME NEW g \in Codes, CutShort(len, Buffered(g, len)) PROVE Goal
  BY <1>3, <1>4, <1>7
<1>8. CASE CutShort(len, b)
  BY <1>0, <1>3, <1>8
<1> QED BY <1>1, <1>2, <1>5, <1>6, <1>7, <1>8 DEF FileStep, b

\* The invariant is inductive.
LEMMA FilesInvKept == FilesInv /\ [Next]_vars => FilesInv'
<1> SUFFICES ASSUME FilesInv, [Next]_vars PROVE FilesInv'
  OBVIOUS
<1>1. CASE UNCHANGED vars
  BY <1>1 DEF vars, FilesInv, Files, InOrder, NoDuplicates
<1>2. CASE Next
  <2>1. /\ damaged \subseteq damaged'
        /\ file' = [len \in Lens |-> file'[len]] /\ buffer' = [len \in Lens |-> buffer'[len]]
        /\ \A len \in Lens : FileStep(len)
    BY <1>2, StepsOfFiles DEF FilesInv
  <2>2. \A len \in Lens :
          /\ file'[len] \in Seq(Nat) /\ buffer'[len] \in Seq(Nat)
          /\ len \notin damaged' => /\ NonDecreasing(file'[len])
                                    /\ IsInjective(file'[len] \o buffer'[len])
    BY <2>1, FileStepKeeps
  <2>3. Files'
    BY <2>1, <2>2 DEF Files
  <2>4. InOrder' /\ NoDuplicates'
    BY <2>2 DEF InOrder, NoDuplicates
  <2> QED BY <2>3, <2>4 DEF FilesInv
<1> QED BY <1>1, <1>2

LEMMA FilesInvAlways == Spec => []FilesInv
<1>1. Init => FilesInv
  <2> SUFFICES ASSUME Init PROVE FilesInv
    OBVIOUS
  <2>1. \A len \in Lens : file[len] = <<>> /\ buffer[len] = <<>>
    BY DEF Init
  <2>2. <<>> \in Seq(Nat) /\ NonDecreasing(<<>>) /\ <<>> \o <<>> = <<>> /\ IsInjective(<<>>)
    BY DEF NonDecreasing, IsInjective
  <2>3. Files
    BY <2>2 DEF Init, Files
  <2> QED BY <2>1, <2>2, <2>3 DEF FilesInv, InOrder, NoDuplicates
<1> QED BY <1>1, FilesInvKept, PTL DEF Spec

\* fragcache.cc never searches a file out of order unless a crash left it so:
\* the search of file and buffer is exact.
THEOREM SearchIsExact == Spec => []SearchExact
<1>1. FilesInv => SearchExact
  BY Exact DEF FilesInv, SearchExact
<1> QED BY <1>1, FilesInvAlways, PTL

\* addFragment stores no fragment twice, over any number of runs of the
\* program, in a file whose flush was never cut short.
THEOREM StoredOnce == Spec => []NoDuplicates
<1>1. FilesInv => NoDuplicates
  BY DEF FilesInv
<1> QED BY <1>1, FilesInvAlways, PTL

(***************************************************************************)
(* Types.                                                                  *)
(***************************************************************************)
Rec == [md : Lens \X Nat, len : Nat]
PendingRec == [md : Lens \X Nat, len : Nat, second : Int]

\* A length without a file has neither fragments on disk nor in its buffer.
UnseenEmpty == \A len \in Lens \ exists : file[len] = <<>> /\ buffer[len] = <<>>
TypeInv == TypeOK /\ UnseenEmpty

\* The first pending record with the digest, when there is one.
LEMMA FirstPending ==
    ASSUME NEW p \in Seq(PendingRec), NEW md,
           NEW is, is = {i \in DOMAIN p : p[i].md = md}, is # {}
    PROVE  p[CHOOSE i \in is : \A j \in is : i <= j].len \in Nat
<1>1. is \subseteq DOMAIN p /\ is \subseteq Nat /\ \A i \in DOMAIN p : p[i] \in PendingRec
  OBVIOUS
<1>2. PICK k \in is : \A j \in is : ~ (<<j, k>> \in OpToRel(<, Nat))
  BY <1>1, WFMin, NatLessThanWellFounded, Zenon
<1>3. \A j \in is : k <= j
  <2> SUFFICES ASSUME NEW j \in is PROVE k <= j
    OBVIOUS
  <2>1. j \in Nat /\ k \in Nat
    BY <1>1
  <2>2. ~(j < k)
    BY <1>2, <2>1 DEF OpToRel
  <2> QED BY <2>1, <2>2
<1>4. (CHOOSE i \in is : \A j \in is : i <= j) \in is
  BY <1>3
<1> QED BY <1>1, <1>4 DEF PendingRec

\* FCHash::lookup answers a length or a negative code.
LEMMA LookupType ==
    ASSUME TypeOK, NEW g, NEW n
    PROVE  lookup(g, n) \subseteq Int
<1>1. ASSUME NEW md PROVE findHashInPending(md) \in Int
  <2> DEFINE is == {i \in DOMAIN pending : pending[i].md = md}
  <2>1. CASE is = {}
    BY <2>1 DEF findHashInPending, FCHASH_NOTFOUND
  <2>2. CASE is # {}
    <3>1. pending \in Seq(PendingRec)
      BY DEF TypeOK, PendingRec
    <3>2. findHashInPending(md) = pending[CHOOSE i \in is : \A j \in is : i <= j].len
      BY <2>2 DEF findHashInPending
    <3>3. is = {i \in DOMAIN pending : pending[i].md = md}
      OBVIOUS
    <3> HIDE DEF is
    <3>4. pending[CHOOSE i \in is : \A j \in is : i <= j].len \in Nat
      BY <2>2, <3>1, <3>3, FirstPending
    <3> QED BY <3>2, <3>4
  <2> QED BY <2>1, <2>2
<1>2. ASSUME NEW md PROVE FileVals(md) \subseteq Int
  BY DEF FileVals, FileRecs, TypeOK, FCHASH_COLLISION
<1>3. ASSUME NEW md PROVE Hits(md) \subseteq Int
  BY <1>1, <1>2 DEF Hits
<1> DEFINE at(i) == Digest(g, i + 1)
           m == IF n < MaxLen THEN n ELSE MaxLen
           reaches(i) == \A j \in 1 .. (i - 1) : Misses(at(j))
           answers == UNION {Hits(at(i)) : i \in {k \in 1 .. m : reaches(k)}}
<1>4. lookup(g, n) = answers \cup {x \in {FCHASH_NOTFOUND} : reaches(m + 1)}
  BY DEF lookup
<1> HIDE DEF at, m, reaches
<1>5. answers \subseteq Int
  BY <1>3
<1>6. FCHASH_NOTFOUND \in Int
  BY DEF FCHASH_NOTFOUND
<1>7. {x \in {FCHASH_NOTFOUND} : reaches(m + 1)} \subseteq Int
  BY <1>6
<1> HIDE DEF answers
<1> QED BY <1>4, <1>5, <1>7

\* FCHash::add leaves records in pending, one more at the most.
LEMMA HashAddsType ==
    ASSUME TypeOK, NEW g \in Codes, NEW len \in Lens, NEW p \in HashAdds(g, len)
    PROVE  p \in Seq(PendingRec)
<1>1. pending \in Seq(PendingRec)
  BY DEF TypeOK, PendingRec
<1>2. CASE p = pending
  BY <1>1, <1>2
<1>3. CASE \E rc \in lookup(g, len), j \in Junk : p = Append(pending, NewRec(g, len, rc, j))
  <2>1. PICK rc \in lookup(g, len), j \in Junk : p = Append(pending, NewRec(g, len, rc, j))
    BY <1>3
  <2>2. rc \in Int /\ j \in Nat /\ Digest(g, len) \in Lens \X Nat
    BY LookupType, PrefixNat, CacheAssumption DEF Digest
  <2>3. NewRec(g, len, rc, j) \in PendingRec
    BY <2>2 DEF NewRec, PendingRec
  <2> QED BY <1>1, <2>1, <2>3
<1> QED BY <1>2, <1>3 DEF HashAdds

\* FCHash::flush writes records.
LEMMA FlushedTabType ==
    ASSUME TypeOK, NEW p \in Seq(PendingRec)
    PROVE  flushedTab(p) \subseteq Rec
<1>1. Writes(p) \subseteq Rec
  <2>1. ASSUME NEW i \in DOMAIN p PROVE [md |-> p[i].md, len |-> p[i].len] \in Rec
    <3>1. p[i] \in PendingRec
      OBVIOUS
    <3>2. p[i].md \in Lens \X Nat /\ p[i].len \in Nat
      BY <3>1 DEF PendingRec
    <3> QED BY <3>2 DEF Rec
  <2> QED BY <2>1 DEF Writes
<1>2. ASSUME NEW r \in hashtab PROVE r \in Rec /\ [r EXCEPT !.len = 0] \in Rec
  BY DEF TypeOK, Rec
<1> QED BY <1>1, <1>2 DEF flushedTab

\* A length that a search finds something in has a file.
LEMMA KnownExists ==
    ASSUME TypeInv, NEW g \in Codes, NEW len \in Lens, contains(g, len)
    PROVE  len \in exists
<1> SUFFICES ASSUME len \notin exists PROVE FALSE
  OBVIOUS
<1>1. file[len] = <<>> /\ buffer[len] = <<>>
  BY DEF TypeInv, UnseenEmpty
<1>2. <<>> \in Seq(Nat) /\ NonDecreasing(<<>>) /\ ToSet(<<>>) = {}
  BY DEF NonDecreasing, ToSet
<1>3. ~containsFile(g, len)
  BY <1>1, <1>2, PrefixNat, BsearchExact DEF containsFile
<1> QED BY <1>1, <1>2, <1>3 DEF contains, containsBuffer

\* The parts of the type invariant besides those of files and buffers.
DiskType ==
    /\ torn \subseteq Lens \cup {0} /\ exists \subseteq Lens
    /\ loaded \subseteq exists /\ damaged \subseteq exists
    /\ hashtab \subseteq Rec
    /\ pending \in Seq(PendingRec) /\ Len(pending) <= FLUSH_FCH_TRIGGER
    /\ up \in BOOLEAN
BufferType == \A len \in Lens : Len(buffer[len]) <= FLUSH_FCF_TRIGGER
LEMMA TypeParts == TypeInv <=> Files /\ DiskType /\ BufferType /\ UnseenEmpty
BY DEF TypeInv, TypeOK, Files, DiskType, BufferType, Rec, PendingRec

\* Buffers are emptied or grow by one fragment that does not fill them, and a
\* length gets its file with its first fragment.
LEMMA BuffersKept ==
    ASSUME TypeInv, Next
    PROVE  BufferType' /\ UnseenEmpty'
<1> DEFINE Goal == BufferType' /\ UnseenEmpty'
<1>0. /\ \A len \in Lens : file[len] \in Seq(Nat) /\ buffer[len] \in Seq(Nat)
      /\ DOMAIN file = Lens /\ DOMAIN buffer = Lens
      /\ Len(<<>>) = 0 /\ FLUSH_FCF_TRIGGER \in Nat
      /\ BufferType /\ UnseenEmpty
  BY TypeParts, CacheAssumption DEF Files
<1>1. ASSUME UNCHANGED <<file, buffer, exists>> PROVE Goal
  BY <1>0, <1>1 DEF BufferType, UnseenEmpty
<1>2. ASSUME Down PROVE BufferType' /\ \A len \in Lens : buffer'[len] = <<>>
  BY <1>0, <1>2 DEF BufferType, Down
<1>3. ASSUME Down, exists \subseteq exists', \A len \in Lens \ exists' : file'[len] = file[len]
      PROVE Goal
  BY <1>0, <1>2, <1>3 DEF UnseenEmpty
<1>4. \A len \in Lens \ exists : flushed(file[len], buffer[len]) = file[len]
  BY <1>0 DEF UnseenEmpty, flushed
<1>5. ASSUME Down, UNCHANGED exists,
             file' = [len \in Lens |-> flushed(file[len], buffer[len])]
      PROVE  Goal
  BY <1>3, <1>4, <1>5
<1>6. ASSUME NEW g \in Codes, NEW len \in Lens, addFragment(g, len) PROVE Goal
  <2>1. exists' = exists \cup {len} /\ AddToFile(g, len)
    BY <1>6 DEF addFragment
  <2>2. \A l \in Lens \ {len} : file'[l] = file[l] /\ buffer'[l] = buffer[l]
    BY <1>0, <2>1 DEF AddToFile
  <2>3. Len(buffer'[len]) <= FLUSH_FCF_TRIGGER
    <3>1. Buffered(g, len) \in Seq(Nat) /\ Len(Buffered(g, len)) \in Nat
      BY <1>0, PrefixNat DEF Buffered
    <3>2. CASE Len(Buffered(g, len)) > FLUSH_FCF_TRIGGER
      <4>1. buffer'[len] = <<>>
        BY <1>0, <2>1, <3>2 DEF AddToFile
      <4> QED BY <1>0, <4>1
    <3>3. CASE ~(Len(Buffered(g, len)) > FLUSH_FCF_TRIGGER)
      <4>1. buffer'[len] = Buffered(g, len)
        BY <1>0, <2>1, <3>3 DEF AddToFile
      <4> QED BY <1>0, <3>1, <3>3, <4>1
    <3> QED BY <3>2, <3>3
  <2>4. BufferType'
    BY <1>0, <2>2, <2>3 DEF BufferType
  <2>5. UnseenEmpty'
    BY <1>0, <2>1, <2>2 DEF UnseenEmpty
  <2> QED BY <2>4, <2>5
<1>7. ASSUME NEW g \in Codes, NEW len \in Lens, CrashInAdd(g, len) PROVE Goal
  <2>1. Down /\ exists' = exists \cup {len} /\ \A l \in Lens \ {len} : file'[l] = file[l]
    BY <1>7 DEF CrashInAdd, CutFlush
  <2> QED BY <1>3, <2>1
<1>8. ASSUME NEW len \in Lens, CrashInClose(len) PROVE Goal
  <2>1. Down /\ exists' = exists /\ buffer[len] # <<>>
    BY <1>8 DEF CrashInClose, CutFlush
  <2>2. \A l \in Lens \ {len} : file'[l] \in {file[l], flushed(file[l], buffer[l])}
    BY <1>8 DEF CrashInClose, CutFlush
  <2>3. len \in exists
    BY <1>0, <2>1 DEF UnseenEmpty
  <2> QED BY <1>3, <1>4, <2>1, <2>2, <2>3
<1> HIDE DEF Goal
<1>9. ASSUME Open \/ LoadDies \/ Close \/ Crash \/ CrashInHash PROVE Goal
  BY <1>1, <1>3, <1>5, <1>9 DEF Open, LoadDies, Close, Crash, CrashInHash
<1>10. ASSUME NEW g \in Codes, findLength(g) PROVE Goal
  BY <1>1, <1>10 DEF findLength
<1>11. ASSUME NEW g \in Codes, NEW len \in Lens, AddKnown(g, len) \/ AddDies(g, len) PROVE Goal
  BY <1>1, <1>3, <1>11 DEF AddKnown, AddDies
<1>12. Goal
  BY <1>6, <1>7, <1>8, <1>9, <1>10, <1>11 DEF Next
<1> QED BY <1>12 DEF Goal

\* The other parts of the type invariant.
LEMMA DiskKept ==
    ASSUME TypeInv, Next
    PROVE  DiskType'
<1>0. /\ DiskType /\ TypeOK /\ UnseenEmpty
      /\ <<>> \in Seq(PendingRec) /\ Len(<<>>) = 0 /\ FLUSH_FCH_TRIGGER \in Nat
  BY TypeParts, CacheAssumption DEF TypeInv
<1>1. pending \in Seq(PendingRec) /\ hashtab \subseteq Rec /\ flushedTab(pending) \subseteq Rec
  BY <1>0, FlushedTabType DEF DiskType
<1>2. ASSUME Down, torn' \subseteq Lens \cup {0}, exists' \subseteq Lens, damaged' \subseteq exists',
             hashtab' \subseteq Rec
      PROVE  DiskType'
  <2>1. pending' \in Seq(PendingRec) /\ Len(pending') <= FLUSH_FCH_TRIGGER
    BY <1>0, <1>2 DEF Down
  <2> QED BY <1>2, <2>1 DEF DiskType, Down
<1>3. CASE Open
  BY <1>0, <1>3 DEF Open, DiskType
<1>4. ASSUME NEW g \in Codes, NEW len \in Lens, addFragment(g, len) PROVE DiskType'
  <2>1. PICK p \in HashAdds(g, len) : HashFlush(p)
    BY <1>4 DEF addFragment
  <2>2. p \in Seq(PendingRec) /\ flushedTab(p) \subseteq Rec /\ Len(p) \in Nat
    BY <1>0, HashAddsType, FlushedTabType
  <2>3. hashtab' \subseteq Rec /\ pending' \in Seq(PendingRec)
    BY <1>0, <1>1, <2>1, <2>2 DEF HashFlush
  <2>4. Len(pending') <= FLUSH_FCH_TRIGGER
    BY <1>0, <2>1, <2>2 DEF HashFlush
  <2> QED BY <1>0, <1>4, <2>3, <2>4 DEF addFragment, DiskType
<1>5. ASSUME NEW g \in Codes, NEW len \in Lens, AddKnown(g, len) PROVE DiskType'
  <2>1. len \in exists
    BY <1>5, KnownExists DEF AddKnown
  <2> QED BY <1>0, <1>5, <2>1 DEF AddKnown, DiskType
<1>6. ASSUME NEW g \in Codes, NEW len \in Lens, AddDies(g, len) PROVE DiskType'
  <2>1. /\ torn' = torn /\ damaged' = damaged /\ hashtab' = hashtab
        /\ exists' = exists \cup {len} /\ Down
    BY <1>6 DEF AddDies
  <2> QED BY <1>0, <1>2, <2>1 DEF DiskType
<1>7. ASSUME NEW g \in Codes, NEW len \in Lens, CrashInAdd(g, len) PROVE DiskType'
  <2>1. /\ torn' \in {torn, torn \cup {len}} /\ damaged' = damaged \cup {len}
        /\ exists' = exists \cup {len} /\ Down
    BY <1>7 DEF CrashInAdd, CutFlush
  <2>2. PICK p \in HashAdds(g, len) : hashtab' \in {hashtab, flushedTab(p)}
    BY <1>7 DEF CrashInAdd
  <2>3. hashtab' \subseteq Rec
    BY <1>0, <1>1, <2>2, HashAddsType, FlushedTabType
  <2> QED BY <1>0, <1>2, <2>1, <2>3 DEF DiskType
<1>8. CASE LoadDies \/ Close \/ Crash
  <2>1. /\ torn' = torn /\ damaged' = damaged /\ exists' = exists /\ Down
        /\ hashtab' \in {hashtab, flushedTab(pending)}
    BY <1>8 DEF LoadDies, Close, Crash
  <2> QED BY <1>0, <1>1, <1>2, <2>1 DEF DiskType
<1>9. ASSUME NEW g \in Codes, findLength(g) PROVE DiskType'
  BY <1>0, <1>9 DEF findLength, DiskType
<1>10. CASE CrashInHash
  <2>1. PICK k \in 0 .. Len(pending) : hashtab' = flushedTab(SubSeq(pending, 1, k))
    BY <1>10 DEF CrashInHash
  <2>2. SubSeq(pending, 1, k) \in Seq(PendingRec)
    BY <1>1
  <2>3. hashtab' \subseteq Rec
    BY <1>0, <2>1, <2>2, FlushedTabType
  <2>4. torn' \in {torn, torn \cup {0}} /\ damaged' = damaged /\ exists' = exists /\ Down
    BY <1>10 DEF CrashInHash
  <2> QED BY <1>0, <1>2, <2>3, <2>4 DEF DiskType
<1>11. ASSUME NEW len \in Lens, CrashInClose(len) PROVE DiskType'
  <2>1. /\ torn' \in {torn, torn \cup {len}} /\ damaged' = damaged \cup {len}
        /\ exists' = exists /\ hashtab' = hashtab /\ Down /\ buffer[len] # <<>>
    BY <1>11 DEF CrashInClose, CutFlush
  <2>2. len \in exists
    BY <1>0, <2>1 DEF UnseenEmpty
  <2> QED BY <1>0, <1>2, <2>1, <2>2 DEF DiskType
<1> QED BY <1>3, <1>4, <1>5, <1>6, <1>7, <1>8, <1>9, <1>10, <1>11 DEF Next

\* Every file and buffer holds fragments, no buffer exceeds its trigger after a
\* call of fragcache.cc, and only lengths with a file are loaded.
THEOREM TypeCorrect == Spec => []TypeOK
<1>1. Init => TypeInv
  <2> SUFFICES ASSUME Init PROVE TypeInv
    OBVIOUS
  <2>1. <<>> \in Seq(Nat) /\ <<>> \in Seq(PendingRec) /\ Len(<<>>) = 0
    OBVIOUS
  <2>2. Files /\ BufferType /\ UnseenEmpty
    BY <2>1, CacheAssumption DEF Init, Files, BufferType, UnseenEmpty
  <2>3. pending \in Seq(PendingRec) /\ Len(pending) <= FLUSH_FCH_TRIGGER
    BY <2>1, CacheAssumption DEF Init
  <2>4. DiskType
    BY <2>3 DEF Init, DiskType
  <2> QED BY <2>2, <2>4, TypeParts
<1>2. TypeInv /\ FilesInv /\ FilesInv' /\ [Next]_vars => TypeInv'
  <2> SUFFICES ASSUME TypeInv, FilesInv', [Next]_vars PROVE TypeInv'
    OBVIOUS
  <2>1. CASE UNCHANGED vars
    BY <2>1 DEF vars, TypeInv, TypeOK, UnseenEmpty
  <2>2. CASE Next
    <3>1. Files'
      BY DEF FilesInv
    <3>2. DiskType' /\ BufferType' /\ UnseenEmpty'
      BY <2>2, DiskKept, BuffersKept
    <3>3. (Files /\ DiskType /\ BufferType /\ UnseenEmpty)' => TypeInv'
      BY DEF TypeInv, TypeOK, Files, DiskType, BufferType, Rec, PendingRec, UnseenEmpty
    <3> QED BY <3>1, <3>2, <3>3
  <2> QED BY <2>1, <2>2
<1>3. TypeInv => TypeOK
  BY DEF TypeInv
<1> QED BY <1>1, <1>2, <1>3, FilesInvAlways, PTL DEF Spec

(***************************************************************************)
(* The cache implements the store.                                         *)
(***************************************************************************)
\* A fragment is stored when its sequence holds it.
LEMMA OfSeqsIs ==
    ASSUME NEW f, NEW e
    PROVE  e \in OfSeqs(f) <=> \E len \in Lens : \E x \in ToSet(f[len]) : e = <<len, x>>
BY DEF OfSeqs

\* A fragment of OfSeqs(f) after a step.
LEMMA OfSeqsThen ==
    ASSUME NEW e
    PROVE  /\ e \in OfSeqs(file)' <=> \E len \in Lens : \E x \in ToSet(file'[len]) : e = <<len, x>>
           /\ e \in OfSeqs(buffer)' <=>
                  \E len \in Lens : \E x \in ToSet(buffer'[len]) : e = <<len, x>>
BY DEF OfSeqs

\* When the process ends, what is on disk was in a file or a buffer before, or
\* is the one fragment that was being added.
LEMMA Ends ==
    ASSUME NEW f \in Frags, up, Down,
           \A len \in Lens : \A x \in ToSet(file'[len]) :
              x \in ToSet(file[len]) \cup ToSet(buffer[len]) \/ <<len, x>> = f
    PROVE  Store!End(f)
<1>1. OfSeqs(file)' \subseteq OfSeqs(file) \cup (OfSeqs(buffer) \ OfSeqs(file)) \cup {f}
  <2> SUFFICES ASSUME NEW e \in OfSeqs(file)', e # f
               PROVE  e \in OfSeqs(file) \cup OfSeqs(buffer)
    OBVIOUS
  <2>1. PICK len \in Lens : \E x \in ToSet(file'[len]) : e = <<len, x>>
    BY OfSeqsThen
  <2>2. PICK x \in ToSet(file'[len]) : e = <<len, x>>
    BY <2>1
  <2>3. x \in ToSet(file[len]) \cup ToSet(buffer[len])
    BY <2>2
  <2> QED BY <2>2, <2>3, OfSeqsIs
<1>2. OfSeqs(buffer)' = {}
  <2> SUFFICES ASSUME NEW e \in OfSeqs(buffer)' PROVE FALSE
    OBVIOUS
  <2>1. PICK len \in Lens : \E x \in ToSet(buffer'[len]) : e = <<len, x>>
    BY OfSeqsThen
  <2>2. buffer'[len] = <<>>
    BY DEF Down
  <2> QED BY <2>1, <2>2 DEF ToSet
<1> QED BY <1>1, <1>2 DEF Store!End, Down

\* addFragment adds one fragment, or none when a damaged file hid it, and may
\* move others from the buffer to the file.
LEMMA AddsOne ==
    ASSUME Files, NEW g \in Codes, NEW len \in Lens, addFragment(g, len)
    PROVE  Store!Sync \/ Store!Add(<<len, Prefix(g, len)>>)
<1> DEFINE f == <<len, Prefix(g, len)>>
           D == OfSeqs(file)
           M == OfSeqs(buffer)
           D1 == OfSeqs(file)'
           M1 == OfSeqs(buffer)'
           b == Buffered(g, len)
<1>1. /\ file[len] \in Seq(Nat) /\ buffer[len] \in Seq(Nat) /\ Prefix(g, len) \in Nat
      /\ b \in Seq(Nat) /\ ToSet(b) = ToSet(buffer[len]) \cup {Prefix(g, len)}
  BY PrefixNat, ToSets DEF Files, Buffered
<1>2. up /\ up' = up
  BY DEF addFragment, Adds
<1>3. /\ D \subseteq D1
      /\ \A e \in D1 : e \in D \cup M \/ e = f
      /\ \A e \in M1 : e \in M \/ e = f
      /\ \A e \in M : e \in D1 \cup M1
      /\ f \in D1 \cup M1
  <2>1. \A l \in Lens \ {len} : file'[l] = file[l] /\ buffer'[l] = buffer[l]
    BY DEF addFragment, AddToFile, Files
  <2>2. \/ /\ ToSet(file'[len]) = ToSet(file[len]) \cup ToSet(b)
           /\ ToSet(buffer'[len]) = {}
        \/ /\ file'[len] = file[len]
           /\ buffer'[len] = b
    <3>1. CASE Len(b) > FLUSH_FCF_TRIGGER
      <4>1. file'[len] = flushed(file[len], b) /\ buffer'[len] = <<>>
        BY <3>1 DEF addFragment, AddToFile, Files
      <4>2. ToSet(<<>>) = {}
        BY DEF ToSet
      <4>3. ToSet(flushed(file[len], b)) = ToSet(file[len]) \cup ToSet(b)
        BY <1>1, FlushedIs
      <4> QED BY <4>1, <4>2, <4>3
    <3>2. CASE ~(Len(b) > FLUSH_FCF_TRIGGER)
      BY <3>2 DEF addFragment, AddToFile, Files
    <3> QED BY <3>1, <3>2
  <2> DEFINE F(l) == ToSet(file[l])
             F1(l) == ToSet(file'[l])
             B(l) == ToSet(buffer[l])
             B1(l) == ToSet(buffer'[l])
  <2>3. ASSUME NEW l \in Lens
        PROVE  /\ F(l) \subseteq F1(l)
               /\ \A x \in F1(l) : x \in F(l) \cup B(l) \/ <<l, x>> = f
               /\ \A x \in B1(l) : x \in B(l) \/ <<l, x>> = f
               /\ B(l) \subseteq F1(l) \cup B1(l)
    BY <1>1, <2>1, <2>2
  <2>4. Prefix(g, len) \in F1(len) \cup B1(len)
    BY <1>1, <2>2
  <2>5. \A e : /\ e \in D <=> \E l \in Lens : \E x \in F(l) : e = <<l, x>>
               /\ e \in M <=> \E l \in Lens : \E x \in B(l) : e = <<l, x>>
               /\ e \in D1 <=> \E l \in Lens : \E x \in F1(l) : e = <<l, x>>
               /\ e \in M1 <=> \E l \in Lens : \E x \in B1(l) : e = <<l, x>>
    BY OfSeqsIs, OfSeqsThen
  <2> HIDE DEF F, F1, B, B1, D, D1, M, M1
  <2>6. D \subseteq D1
    BY <2>3, <2>5
  <2>7. ASSUME NEW e \in D1 PROVE e \in D \cup M \/ e = f
    <3>1. PICK l \in Lens : \E x \in F1(l) : e = <<l, x>>
      BY <2>5, <2>7
    <3> QED BY <2>3, <2>5, <3>1
  <2>8. ASSUME NEW e \in M1 PROVE e \in M \/ e = f
    <3>1. PICK l \in Lens : \E x \in B1(l) : e = <<l, x>>
      BY <2>5, <2>8
    <3> QED BY <2>3, <2>5, <3>1
  <2>9. ASSUME NEW e \in M PROVE e \in D1 \cup M1
    <3>1. PICK l \in Lens : \E x \in B(l) : e = <<l, x>>
      BY <2>5, <2>9
    <3> QED BY <2>3, <2>5, <3>1
  <2>10. f \in D1 \cup M1
    BY <2>4, <2>5
  <2> QED BY <2>6, <2>7, <2>8, <2>9, <2>10
<1> HIDE DEF f, D, D1, M, M1
<1>4. CASE f \in D \cup M
  <2>1. D1 \cup (M1 \ D1) = D \cup (M \ D) /\ (M1 \ D1) \in SUBSET (M \ D)
    BY <1>3, <1>4
  <2>2. Store!Sync
    BY <1>2, <1>3, <2>1 DEF Store!Sync, D, D1, M, M1
  <2> QED BY <2>2
<1>5. CASE f \notin D \cup M
  <2>1. /\ f \notin D \cup (M \ D)
        /\ D1 \cup (M1 \ D1) = D \cup (M \ D) \cup {f}
        /\ (M1 \ D1) \in SUBSET ((M \ D) \cup {f})
    BY <1>3, <1>5
  <2>2. Store!Add(f)
    BY <1>2, <1>3, <2>1 DEF Store!Add, D, D1, M, M1
  <2> QED BY <2>2 DEF f
<1> QED BY <1>4, <1>5

\* There is a fragment, for an end of the process that adds none.
LEMMA SomeFragment == \E f : f \in Frags
<1>1. PICK g : g \in Codes
  BY CacheAssumption
<1>2. 1 \in Lens
  BY CacheAssumption DEF Lens
<1>3. <<1, Prefix(g, 1)>> \in Frags
  BY <1>1, <1>2 DEF Frags
<1> QED BY <1>3

\* Every step of the cache is a step of the store or leaves it alone.
LEMMA StoreStep ==
    ASSUME Files, up \in BOOLEAN, Next
    PROVE  Store!Next \/ UNCHANGED <<OfSeqs(file), OfSeqs(buffer) \ OfSeqs(file), up>>
<1> DEFINE Goal == Store!Next \/ UNCHANGED <<OfSeqs(file), OfSeqs(buffer) \ OfSeqs(file), up>>
           Held(l) == ToSet(file[l]) \cup ToSet(buffer[l])
<1> SUFFICES Goal
  OBVIOUS
<1>0. \A l \in Lens : file[l] \in Seq(Nat) /\ buffer[l] \in Seq(Nat)
  BY DEF Files
<1>1. ASSUME UNCHANGED <<file, buffer, up>> PROVE Goal
  BY <1>1
<1>2. ASSUME Open PROVE Goal
  <2>1. CASE 0 \in torn
    BY <1>2, <2>1 DEF Open
  <2>2. CASE 0 \notin torn
    BY <1>2, <2>2 DEF Open, Store!Next, Store!Open
  <2> QED BY <2>1, <2>2
<1>3. ASSUME NEW g \in Codes, NEW len \in Lens
      PROVE  <<len, Prefix(g, len)>> \in Frags
  BY DEF Frags
<1>4. ASSUME NEW g \in Codes, NEW len \in Lens, addFragment(g, len) PROVE Goal
  BY <1>3, <1>4, AddsOne DEF Store!Next
<1>5. ASSUME up, Down, \A l \in Lens : ToSet(file'[l]) \subseteq Held(l) PROVE Goal
  <2>1. PICK f : f \in Frags
    BY SomeFragment
  <2>2. Store!End(f)
    BY <1>5, <2>1, Ends
  <2> QED BY <2>1, <2>2 DEF Store!Next
<1>6. ASSUME up, Down, UNCHANGED file PROVE Goal
  BY <1>5, <1>6
<1>7. ASSUME NEW l \in Lens PROVE ToSet(flushed(file[l], buffer[l])) \subseteq Held(l)
  BY <1>0, FlushedIs
<1>8. ASSUME up, Down, file' = [l \in Lens |-> flushed(file[l], buffer[l])] PROVE Goal
  BY <1>5, <1>7, <1>8
<1>9. ASSUME NEW len \in Lens, CrashInClose(len) PROVE Goal
  <2>1. PICK x \in Cut(file[len], buffer[len]) :
            file' = [l \in Lens |-> IF l = len THEN x ELSE
                [k \in Lens |-> IF k < len THEN flushed(file[k], buffer[k]) ELSE file[k]][l]]
    BY <1>9 DEF CrashInClose, CutFlush
  <2>2. ToSet(x) \subseteq Held(len)
    BY <1>0, CutIs
  <2>3. \A l \in Lens : ToSet(file'[l]) \subseteq Held(l)
    BY <1>7, <2>1, <2>2
  <2> QED BY <1>5, <1>9, <2>3 DEF CrashInClose
<1>10. ASSUME NEW g \in Codes, NEW len \in Lens, CrashInAdd(g, len) PROVE Goal
  <2> DEFINE f == <<len, Prefix(g, len)>>
  <2>1. PICK x \in Cut(file[len], Buffered(g, len)) :
            file' = [l \in Lens |-> IF l = len THEN x ELSE file[l]]
    BY <1>10 DEF CrashInAdd, CutFlush
  <2>2. /\ Buffered(g, len) \in Seq(Nat)
        /\ ToSet(Buffered(g, len)) = ToSet(buffer[len]) \cup {Prefix(g, len)}
    BY <1>0, PrefixNat, ToSets DEF Buffered
  <2>3. ToSet(x) \subseteq Held(len) \cup {Prefix(g, len)}
    BY <1>0, <2>2, CutIs
  <2>4. \A l \in Lens : \A y \in ToSet(file'[l]) : y \in Held(l) \/ <<l, y>> = f
    BY <2>1, <2>3
  <2>5. up /\ Down
    BY <1>10 DEF CrashInAdd, Adds
  <2>6. Store!End(f)
    BY <1>3, <2>4, <2>5, Ends
  <2> QED BY <1>3, <2>6 DEF Store!Next
<1> HIDE DEF Goal
<1>11. CASE LoadDies \/ Close \/ Crash \/ CrashInHash
  BY <1>6, <1>8, <1>11 DEF LoadDies, Close, Crash, CrashInHash
<1>12. ASSUME NEW g \in Codes, findLength(g) PROVE Goal
  BY <1>1, <1>12 DEF findLength
<1>13. ASSUME NEW g \in Codes, NEW len \in Lens, AddKnown(g, len) \/ AddDies(g, len) PROVE Goal
  BY <1>1, <1>6, <1>13 DEF AddKnown, AddDies, Adds
<1> QED BY <1>2, <1>4, <1>9, <1>10, <1>11, <1>12, <1>13 DEF Next

\* FragCache keeps its promise, crashes in the middle of a flush included: while
\* the process runs nothing it stored is lost, and what is on disk when it ends
\* is what it was given.
THEOREM ImplementsStore == Spec => StoreSpec
<1>1. Init => Store!Init
  <2> SUFFICES ASSUME Init PROVE OfSeqs(file) = {} /\ OfSeqs(buffer) = {} /\ up = FALSE
    BY DEF Store!Init
  <2>1. \A len \in Lens : ToSet(file[len]) = {} /\ ToSet(buffer[len]) = {}
    BY DEF Init, ToSet
  <2> QED BY <2>1 DEF Init, OfSeqs
<1>2. Files /\ TypeOK /\ [Next]_vars =>
          [Store!Next]_<<OfSeqs(file), OfSeqs(buffer) \ OfSeqs(file), up>>
  <2>1. UNCHANGED vars => UNCHANGED <<OfSeqs(file), OfSeqs(buffer) \ OfSeqs(file), up>>
    BY DEF vars
  <2> QED BY <2>1, StoreStep DEF TypeOK
<1>3. FilesInv => Files
  BY DEF FilesInv
<1> QED BY <1>1, <1>2, <1>3, FilesInvAlways, TypeCorrect, PTL DEF Spec, StoreSpec, Store!Spec

\* ~FragCache: an orderly end leaves on disk everything that was there or in a
\* buffer, whatever earlier crashes left behind.
THEOREM CloseKeepsAll ==
    Spec => [][Close => OfSeqs(file)' = OfSeqs(file) \cup OfSeqs(buffer)]_vars
<1>1. ASSUME Files, Close PROVE OfSeqs(file)' = OfSeqs(file) \cup OfSeqs(buffer)
  <2>1. \A l \in Lens : ToSet(file'[l]) = ToSet(file[l]) \cup ToSet(buffer[l])
    <3> SUFFICES ASSUME NEW l \in Lens
                 PROVE  ToSet(file'[l]) = ToSet(file[l]) \cup ToSet(buffer[l])
      OBVIOUS
    <3>1. file[l] \in Seq(Nat) /\ buffer[l] \in Seq(Nat) /\ file'[l] = flushed(file[l], buffer[l])
      BY <1>1 DEF Files, Close
    <3> QED BY <3>1, FlushedIs
  <2>2. ASSUME NEW e PROVE e \in OfSeqs(file)' <=> e \in OfSeqs(file) \cup OfSeqs(buffer)
    BY <2>1, OfSeqsThen, OfSeqsIs
  <2> QED BY <2>2
<1>2. FilesInv => Files
  BY DEF FilesInv
<1>3. Files /\ [Next]_vars => [Close => OfSeqs(file)' = OfSeqs(file) \cup OfSeqs(buffer)]_vars
  BY <1>1
<1> QED BY <1>2, <1>3, FilesInvAlways, PTL DEF Spec
=============================================================================
