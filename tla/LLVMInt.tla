------------------------------ MODULE LLVMInt ------------------------------
(***************************************************************************)
(* The LLVM integer instructions the operator emitters of vexop.cc are     *)
(* built from, external to this repository.  An i<w> value is a number     *)
(* below 2^w; a vector of n lanes of w bits is a function from 0..n-1, and *)
(* Lanes and Pack are the bitcasts between the two (lane 0 is the least    *)
(* significant).  `junk' stands for the bits LLVM leaves undefined: the    *)
(* lane or value it fills is then arbitrary.                               *)
(***************************************************************************)
EXTENDS Integers

Signed(x, w) == IF x < 2^(w - 1) THEN x ELSE x - 2^w
Trunc(x, w) == x % 2^w
SExt(x, w, v) == Trunc(Signed(x, w), v)
Fill(junk, w) == IF junk THEN 2^w - 1 ELSE 0

Shl(x, k, w, junk) ==
    IF k < w THEN (x % 2^(w - k)) * 2^k ELSE Fill(junk, w)
LShr(x, k, w, junk) == IF k < w THEN x \div 2^k ELSE Fill(junk, w)
AShr(x, k, w, junk) ==
    IF k < w THEN Trunc(Signed(x, w) \div 2^k, w) ELSE Fill(junk, w)

Add(x, y, w) == Trunc(x + y, w)
Sub(x, y, w) == Trunc(x - y, w)
Mul(x, y, w) == Trunc(Signed(x, w) * Signed(y, w), w)

\* C-like division: the quotient is rounded towards zero and the remainder
\* has the sign of the dividend.
Quot(a, b) == LET Abs(x) == IF x < 0 THEN -x ELSE x IN
    IF (a < 0) = (b < 0) THEN Abs(a) \div Abs(b) ELSE -(Abs(a) \div Abs(b))
Rem(a, b) == a - b * Quot(a, b)

Bool(b) == IF b THEN 1 ELSE 0
Bit(x, i) == (x \div 2^i) % 2

Lanes(x, n, w) == [i \in 0 .. n - 1 |-> (x \div 2^(w * i)) % 2^w]
\* The lane comes before the sum, so that TLC evaluates what it needs of a
\* nested word before it descends, and not at the bottom.
Pack(f, n, w) ==
    LET P[i \in 0 .. n] ==
            IF i = 0 THEN 0 ELSE f[i - 1] * 2^(w * (i - 1)) + P[i - 1]
    IN  P[n]

Bitwise2(G(_, _), x, y, w) ==
    Pack([i \in 0 .. w - 1 |-> Bool(G(Bit(x, i) = 1, Bit(y, i) = 1))], w, 1)
And(x, y, w) == Bitwise2(LAMBDA a, b : a /\ b, x, y, w)
Or(x, y, w)  == Bitwise2(LAMBDA a, b : a \/ b, x, y, w)
Xor(x, y, w) == Bitwise2(LAMBDA a, b : a # b, x, y, w)
Not(x, w) == 2^w - 1 - x

\* CreateShuffleVector: the mask indexes the lanes of both operands.
Shuffle(f, g, n, mask) ==
    [i \in DOMAIN mask |-> IF mask[i] < n THEN f[mask[i]] ELSE g[mask[i] - n]]
=============================================================================
