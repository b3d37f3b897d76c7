----------------------------- MODULE CodecProofs ----------------------------
(***************************************************************************)
(* The wire codec, for payloads of every length and content: what is       *)
(* stuffed is unstuffed, what FrameBuilder builds is parsed back, and the  *)
(* FCS of what is sent checks.                                             *)
(*                                                                         *)
(* Inductions are over sets: the lemmas of the first part say that a set   *)
(* that holds 0 and is closed under successors holds Nat, and that one     *)
(* that holds <<>> and is closed under Append holds Seq(S).  A recursive   *)
(* function over 0..n exists because its finite approximations do.         *)
(***************************************************************************)
EXTENDS L2Packet, SequenceTheorems, WellFoundedInduction, TLAPS

-----------------------------------------------------------------------------
(***************************************************************************)
(* Induction and recursion                                                 *)
(***************************************************************************)
LEMMA LeastElement ==
    ASSUME NEW T, T \subseteq Nat, T # {}
    PROVE  \E x \in T : \A y \in T : x <= y
<1> DEFINE R == OpToRel(<, Nat)
<1>1. \A x, y \in Nat : x < y => <<x, y>> \in R
  BY DEF OpToRel
<1>2. IsWellFoundedOn(R, Nat)
  BY NatLessThanWellFounded
<1> HIDE DEF R
<1>3. PICK x \in T : \A y \in T : ~ (<<y, x>> \in R)
  BY <1>2, WFMin
<1>4. ASSUME NEW y \in T PROVE x <= y
  <2>1. x \in Nat /\ y \in Nat
    OBVIOUS
  <2>2. ~ (y < x)
    BY <1>1, <1>3, <2>1
  <2> QED
    BY <2>1, <2>2
<1> QED
  BY <1>4

LEMMA SetInduction ==
    ASSUME NEW T, 0 \in T, \A n \in Nat : n \in T => n + 1 \in T
    PROVE  \A n \in Nat : n \in T
<1> SUFFICES ASSUME NEW n \in Nat, n \notin T PROVE FALSE
  OBVIOUS
<1> DEFINE M == {k \in Nat : k \notin T}
<1>1. M # {} /\ M \subseteq Nat
  OBVIOUS
<1> HIDE DEF M
<1>2. PICK x \in M : \A y \in M : x <= y
  BY <1>1, LeastElement
<1> USE DEF M
<1>3. x \in Nat /\ x # 0
  BY <1>2
<1>4. x - 1 \in Nat /\ x - 1 \notin M
  BY <1>2, <1>3
<1>5. (x - 1) + 1 \in T
  BY <1>4
<1> QED
  BY <1>3, <1>5

\* f is the recursive function over 0..n that starts at a and makes these steps.
IsRun(f, S, n, a, step) ==
    f \in [0..n -> S] /\ f[0] = a /\ \A i \in 1..n : f[i] = step[i][f[i - 1]]
IsSteps(step, n, S) == step \in [1..n -> [S -> S]]

\* It exists.
LEMMA Recursion ==
    ASSUME NEW S, NEW n \in Nat, NEW a \in S, NEW step, IsSteps(step, n, S)
    PROVE  \E f : IsRun(f, S, n, a, step)
<1> DEFINE Good(k, f) == f[0] = a /\ \A i \in 1..k : f[i] = step[i][f[i - 1]]
           T == {k \in Nat : k <= n => \E f \in [0..k -> S] : Good(k, f)}
<1> USE DEF IsSteps
<1>1. 0 \in T
  <2> DEFINE f == [i \in 0..0 |-> a]
  <2>1. f \in [0..0 -> S] /\ Good(0, f)
    OBVIOUS
  <2> HIDE DEF Good, f
  <2> QED
    BY <2>1
<1>2. ASSUME NEW k \in Nat, k \in T PROVE k + 1 \in T
  <2> SUFFICES ASSUME k + 1 <= n PROVE \E g \in [0..(k + 1) -> S] : Good(k + 1, g)
    OBVIOUS
  <2>1. PICK f \in [0..k -> S] : Good(k, f)
    BY <1>2
  <2> DEFINE g == [i \in 0..(k + 1) |-> IF i = k + 1 THEN step[i][f[k]] ELSE f[i]]
  <2>2. g \in [0..(k + 1) -> S]
    BY <2>1
  <2>3. Good(k + 1, g)
    BY <2>1
  <2> HIDE DEF Good, g
  <2> QED
    BY <2>2, <2>3
<1> HIDE DEF T
<1>3. n \in T
  BY <1>1, <1>2, SetInduction
<1> QED
  BY <1>3 DEF T, IsRun

SameSteps(f, g, n) == f[0] = g[0] /\ \A i \in 1..n : f[i - 1] = g[i - 1] => f[i] = g[i]
SameUpTo(f, g, n) == \A i \in 0..n : f[i] = g[i]

\* Two of them agree as far as their steps do.
LEMMA SameRecursion ==
    ASSUME NEW n \in Nat, NEW f, NEW g, SameSteps(f, g, n)
    PROVE  SameUpTo(f, g, n)
<1> USE DEF SameSteps, SameUpTo
<1> DEFINE T == {k \in Nat : k <= n => f[k] = g[k]}
<1>1. 0 \in T
  OBVIOUS
<1>2. ASSUME NEW k \in Nat, k \in T PROVE k + 1 \in T
  <2> SUFFICES ASSUME k + 1 <= n PROVE f[k + 1] = g[k + 1]
    OBVIOUS
  <2>1. k + 1 \in 1..n /\ f[(k + 1) - 1] = g[(k + 1) - 1]
    BY <1>2
  <2> QED
    BY <2>1
<1> HIDE DEF T
<1>3. \A k \in Nat : k \in T
  BY <1>1, <1>2, SetInduction
<1> QED
  BY <1>3 DEF T

LEMMA SeqSetInduction ==
    ASSUME NEW S, NEW T, <<>> \in T,
           \A s \in Seq(S), e \in S : s \in T => Append(s, e) \in T
    PROVE  \A s \in Seq(S) : s \in T
<1> DEFINE U == {n \in Nat : \A s \in Seq(S) : Len(s) = n => s \in T}
<1>1. 0 \in U
  BY EmptySeq
<1>2. ASSUME NEW n \in Nat, n \in U PROVE n + 1 \in U
  <2> SUFFICES ASSUME NEW s \in Seq(S), Len(s) = n + 1 PROVE s \in T
    OBVIOUS
  <2> DEFINE front == SubSeq(s, 1, n)
             last == s[n + 1]
  <2>1. front \in Seq(S) /\ Len(front) = n /\ last \in S
    OBVIOUS
  <2>2. s = Append(front, last)
    OBVIOUS
  <2>3. front \in T
    BY <1>2, <2>1
  <2> HIDE DEF front, last
  <2> QED
    BY <2>1, <2>2, <2>3
<1> HIDE DEF U
<1>3. \A n \in Nat : n \in U
  BY <1>1, <1>2, SetInduction
<1> QED
  BY <1>3 DEF U

-----------------------------------------------------------------------------
(***************************************************************************)
(* Bytes and their bits                                                    *)
(***************************************************************************)
U8 == 0..255
U16s == 0..U16_MAX
Bytes == Seq(U8)
Bit(a, w) == (a \div w) % 2
Weights == {1, 2, 4, 8, 16, 32, 64, 128}

\* The bits of a sum of weighted bits.
LEMMA SumBits ==
    ASSUME NEW b0 \in {0, 1}, NEW b1 \in {0, 1}, NEW b2 \in {0, 1}, NEW b3 \in {0, 1},
           NEW b4 \in {0, 1}, NEW b5 \in {0, 1}, NEW b6 \in {0, 1}, NEW b7 \in {0, 1},
           NEW n, n = b0 + 2*b1 + 4*b2 + 8*b3 + 16*b4 + 32*b5 + 64*b6 + 128*b7
    PROVE  /\ n \in U8
           /\ Bit(n, 1) = b0 /\ Bit(n, 2) = b1 /\ Bit(n, 4) = b2 /\ Bit(n, 8) = b3
           /\ Bit(n, 16) = b4 /\ Bit(n, 32) = b5 /\ Bit(n, 64) = b6 /\ Bit(n, 128) = b7
BY SMTT(60) DEF Bit, U8

\* A byte is the sum of its bits.
LEMMA ByteBits ==
    ASSUME NEW a \in U8
    PROVE  /\ \A w \in Weights : Bit(a, w) \in {0, 1}
           /\ a = Bit(a, 1) + 2*Bit(a, 2) + 4*Bit(a, 4) + 8*Bit(a, 8) + 16*Bit(a, 16)
                  + 32*Bit(a, 32) + 64*Bit(a, 64) + 128*Bit(a, 128)
BY SMTT(60) DEF Bit, U8, Weights

LEMMA XorBits ==
    ASSUME NEW a \in U8, NEW b \in U8
    PROVE  /\ XorByte(a, b) \in U8
           /\ \A w \in Weights : Bit(XorByte(a, b), w) = (Bit(a, w) + Bit(b, w)) % 2
<1> DEFINE x(w) == ((a \div w) + (b \div w)) % 2
<1>1. \A w \in Weights : x(w) \in {0, 1} /\ x(w) = (Bit(a, w) + Bit(b, w)) % 2
  BY DEF Weights, U8, Bit
<1>2. XorByte(a, b) = x(1) + 2*x(2) + 4*x(4) + 8*x(8) + 16*x(16) + 32*x(32) + 64*x(64)
                      + 128*x(128)
  BY DEF XorByte
<1> HIDE DEF x
<1>3. \A w \in Weights : Bit(XorByte(a, b), w) = x(w)
  BY <1>1, <1>2, SumBits DEF Weights
<1>4. XorByte(a, b) \in U8
  BY <1>1, <1>2, SumBits DEF Weights
<1> QED
  BY <1>1, <1>3, <1>4

\* Bytes with the same bits are equal.
LEMMA SameBits ==
    ASSUME NEW a \in U8, NEW b \in U8, \A w \in Weights : Bit(a, w) = Bit(b, w)
    PROVE  a = b
BY ByteBits DEF Weights

LEMMA XorCommutes ==
    ASSUME NEW a \in U8, NEW b \in U8
    PROVE  XorByte(a, b) = XorByte(b, a)
<1>1. \A w \in Weights : Bit(XorByte(a, b), w) = Bit(XorByte(b, a), w)
  BY XorBits, ByteBits
<1> QED
  BY <1>1, SameBits, XorBits

LEMMA XorAssociates ==
    ASSUME NEW a \in U8, NEW b \in U8, NEW c \in U8
    PROVE  XorByte(XorByte(a, b), c) = XorByte(a, XorByte(b, c))
<1> DEFINE l == XorByte(XorByte(a, b), c)
           r == XorByte(a, XorByte(b, c))
<1>1. l \in U8 /\ r \in U8
  BY XorBits
<1>2. ASSUME NEW w \in Weights PROVE Bit(l, w) = Bit(r, w)
  <2>1. /\ Bit(l, w) = (Bit(XorByte(a, b), w) + Bit(c, w)) % 2
        /\ Bit(r, w) = (Bit(a, w) + Bit(XorByte(b, c), w)) % 2
        /\ Bit(XorByte(a, b), w) = (Bit(a, w) + Bit(b, w)) % 2
        /\ Bit(XorByte(b, c), w) = (Bit(b, w) + Bit(c, w)) % 2
    BY XorBits
  <2>2. Bit(a, w) \in {0, 1} /\ Bit(b, w) \in {0, 1} /\ Bit(c, w) \in {0, 1}
    BY ByteBits
  <2> QED
    BY <2>1, <2>2
<1> HIDE DEF l, r
<1>3. l = r
  BY <1>1, <1>2, SameBits
<1> QED
  BY <1>3 DEF l, r

LEMMA XorZero ==
    ASSUME NEW a \in U8
    PROVE  XorByte(a, 0) = a /\ XorByte(0, a) = a /\ XorByte(a, a) = 0
<1>1. 0 \in U8 /\ \A w \in Weights : Bit(0, w) = 0
  BY DEF U8, Weights, Bit
<1>2. /\ \A w \in Weights : Bit(a, w) \in {0, 1}
      /\ \A w \in Weights : Bit(XorByte(a, 0), w) = (Bit(a, w) + Bit(0, w)) % 2
      /\ \A w \in Weights : Bit(XorByte(0, a), w) = (Bit(0, w) + Bit(a, w)) % 2
      /\ \A w \in Weights : Bit(XorByte(a, a), w) = (Bit(a, w) + Bit(a, w)) % 2
      /\ XorByte(a, 0) \in U8 /\ XorByte(0, a) \in U8 /\ XorByte(a, a) \in U8
  BY <1>1, XorBits, ByteBits
<1>3. \A w \in Weights : /\ Bit(XorByte(a, 0), w) = Bit(a, w)
                         /\ Bit(XorByte(0, a), w) = Bit(a, w)
                         /\ Bit(XorByte(a, a), w) = Bit(0, w)
  BY <1>1, <1>2
<1> QED
  BY <1>1, <1>2, <1>3, SameBits

LEMMA XorCancels ==
    ASSUME NEW a \in U8, NEW b \in U8
    PROVE  XorByte(XorByte(a, b), b) = a
BY XorAssociates, XorZero

-----------------------------------------------------------------------------
(***************************************************************************)
(* FlattenSeq, which the codec concatenates with                           *)
(***************************************************************************)
Cat(s, ss, i) == s \o ss[i]
IsFlatten(f, ss) ==
    f = [i \in 1..Len(ss) |-> IF i = 1 THEN ss[i] ELSE f[i - 1] \o ss[i]]

IsCatenation(f, S, ss, n) ==
    /\ f \in [0..n -> Seq(S)]
    /\ f[0] = <<>>
    /\ \A i \in 1..n : f[i] = Cat(f[i - 1], ss, i)
    /\ FlattenSeq(ss) = f[n]

LEMMA CatType ==
    ASSUME NEW S, NEW ss \in Seq(Seq(S)), NEW i \in 1..Len(ss)
    PROVE  /\ ss[i] \in Seq(S) /\ Cat(<<>>, ss, i) = ss[i]
           /\ \A s \in Seq(S) : Cat(s, ss, i) \in Seq(S)
BY DEF Cat

\* Concatenation from left to right, after each piece.
LEMMA FlattenFold ==
    ASSUME NEW S, NEW ss \in Seq(Seq(S)), NEW n, n = Len(ss)
    PROVE  \E f : IsCatenation(f, S, ss, n)
<1> DEFINE Q == Seq(S)
           step == [i \in 1..n |-> [s \in Q |-> Cat(s, ss, i)]]
           empty == <<>>
<1> USE DEF IsCatenation
<1>1. n \in Nat /\ empty \in Q
  OBVIOUS
<1>2. IsSteps(step, n, Q)
  BY CatType DEF IsSteps
<1>0. PICK f : IsRun(f, Q, n, empty, step)
  <2> HIDE DEF step, empty, Q
  <2> QED
    BY <1>1, <1>2, Recursion
<1>3. f \in [0..n -> Q] /\ f[0] = empty /\ \A i \in 1..n : f[i] = step[i][f[i - 1]]
  BY <1>0 DEF IsRun
<1>4. \A i \in 1..n : f[i] = Cat(f[i - 1], ss, i)
  <2> HIDE DEF Q
  <2>1. ASSUME NEW i \in 1..n PROVE f[i - 1] \in Q
    <3>1. i - 1 \in 0..n
      BY <1>1
    <3> QED
      BY <1>3, <3>1
  <2> QED
    BY <1>3, <2>1
<1>5. CASE n = 0
  <2>1. ss = <<>>
    BY <1>5, EmptySeq
  <2>2. FlattenSeq(ss) = ss
    BY <1>5 DEF FlattenSeq
  <2> QED
    BY <1>3, <1>4, <1>5, <2>1, <2>2
<1>6. CASE n # 0
  <2> DEFINE h == CHOOSE g : IsFlatten(g, ss)
             g0 == [i \in 1..n |-> f[i]]
  <2>1. f[1] = ss[1]
    <3>1. 1 \in 1..n /\ f[1 - 1] = empty
      BY <1>1, <1>3, <1>6
    <3>2. f[1] = Cat(empty, ss, 1)
      BY <1>4, <3>1
    <3> QED
      BY <3>1, <3>2, CatType
  <2>2. \A i \in 1..n : i # 1 => i - 1 \in 1..n /\ f[i] = Cat(g0[i - 1], ss, i)
    <3> HIDE DEF Q
    <3> QED
      BY <1>1, <1>4
  <2>3. IsFlatten(g0, ss)
    BY <2>1, <2>2 DEF IsFlatten, Cat
  <2>4. IsFlatten(h, ss)
    BY <2>3
  <2>5. FlattenSeq(ss) = h[n]
    BY <1>6 DEF FlattenSeq, IsFlatten
  <2>6. \A i \in 1..n : h[i] = IF i = 1 THEN ss[i] ELSE Cat(h[i - 1], ss, i)
    BY <2>4 DEF IsFlatten, Cat
  <2> HIDE DEF h, Q
  <2> DEFINE h0 == [i \in 0..n |-> IF i = 0 THEN empty ELSE h[i]]
  <2>7. h0[0] = f[0]
    BY <1>1, <1>3
  <2>8. ASSUME NEW i \in 1..n, h0[i - 1] = f[i - 1] PROVE h0[i] = f[i]
    <3>1. h0[i] = h[i]
      BY <1>1
    <3>2. CASE i = 1
      BY <2>1, <2>6, <3>1, <3>2
    <3>3. CASE i # 1
      <4>1. h0[i - 1] = h[i - 1]
        BY <1>1, <3>3
      <4> QED
        BY <1>4, <2>6, <2>8, <3>1, <3>3, <4>1
    <3> QED
      BY <3>2, <3>3
  <2> HIDE DEF h0
  <2>9. SameUpTo(h0, f, n)
    <3>1. SameSteps(h0, f, n)
      BY <2>7, <2>8 DEF SameSteps
    <3> QED
      BY <1>1, <3>1, SameRecursion
  <2>10. h[n] = f[n]
    BY <1>1, <1>6, <2>9 DEF h0, SameUpTo
  <2> QED
    BY <1>3, <1>4, <2>5, <2>10 DEF Q
<1> QED
  BY <1>5, <1>6

LEMMA FlattenType ==
    ASSUME NEW S, NEW ss \in Seq(Seq(S))
    PROVE  FlattenSeq(ss) \in Seq(S)
<1> DEFINE n == Len(ss)
<1>1. n \in 0..n /\ n = Len(ss)
  OBVIOUS
<1> HIDE DEF n
<1> QED
  BY <1>1, FlattenFold DEF IsCatenation

LEMMA FlattenEmpty == FlattenSeq(<<>>) = <<>>
BY DEF FlattenSeq

LEMMA FlattenAppend ==
    ASSUME NEW S, NEW ss \in Seq(Seq(S)), NEW x \in Seq(S)
    PROVE  FlattenSeq(Append(ss, x)) = FlattenSeq(ss) \o x
<1> DEFINE n == Len(ss)
           m == n + 1
           tt == Append(ss, x)
<1>1. n \in Nat /\ tt \in Seq(Seq(S)) /\ m = Len(tt) /\ n = Len(ss) /\ m = n + 1
  OBVIOUS
<1>2. tt[m] = x /\ \A i \in 1..n : tt[i] = ss[i]
  OBVIOUS
<1> HIDE DEF tt, n, m
<1>3. PICK f : IsCatenation(f, S, ss, n)
  BY <1>1, FlattenFold
<1>4. PICK g : IsCatenation(g, S, tt, m)
  BY <1>1, FlattenFold
<1>5. \A i \in 1..n : \A s : Cat(s, tt, i) = Cat(s, ss, i)
  BY <1>2 DEF Cat
<1>6. \A i \in 1..n : f[i - 1] = g[i - 1] => f[i] = g[i]
  BY <1>1, <1>3, <1>4, <1>5 DEF IsCatenation
<1>7. SameSteps(f, g, n)
  BY <1>3, <1>4, <1>6 DEF IsCatenation, SameSteps
<1>8. SameUpTo(f, g, n)
  BY <1>1, <1>7, SameRecursion
<1>9. FlattenSeq(tt) = Cat(f[n], tt, m)
  <2>1. m \in 1..m /\ m - 1 = n /\ n \in 0..n
    BY <1>1
  <2> QED
    BY <1>4, <1>8, <2>1 DEF IsCatenation, SameUpTo
<1> QED
  BY <1>2, <1>3, <1>9 DEF tt, Cat, IsCatenation

-----------------------------------------------------------------------------
(***************************************************************************)
(* Byte stuffing                                                           *)
(***************************************************************************)
\* The bytes that may stand between two delimiters.
Clean == U8 \ {\h7E, \h11, \h12, \h13}

LEMMA EscapeType ==
    ASSUME NEW b \in U8
    PROVE  /\ Escape(b) \in Bytes /\ Escape(b) \in Seq(Clean)
           /\ Len(Escape(b)) \in {1, 2}
<1>1. \A x \in STUFF_BYTES : XorByte(x, STUFF_XOR) \in Clean
  BY DEF STUFF_BYTES, STUFF_XOR, XorByte, Clean, U8
<1>2. STUFF_ESCAPE \in Clean
  BY DEF STUFF_ESCAPE, Clean, U8
<1>3. b \notin STUFF_BYTES => b \in Clean
  BY DEF STUFF_BYTES, Clean, U8
<1>4. Clean \subseteq U8
  BY DEF Clean
<1> QED
  BY <1>1, <1>2, <1>3, <1>4 DEF Escape, Bytes

LEMMA StuffEmpty == stuff(<<>>) = <<>>
<1>1. [i \in 1..Len(<<>>) |-> Escape(<<>>[i])] = <<>>
  OBVIOUS
<1> QED
  BY <1>1, FlattenEmpty DEF stuff

LEMMA StuffAppend ==
    ASSUME NEW d \in Bytes, NEW b \in U8
    PROVE  stuff(Append(d, b)) = stuff(d) \o Escape(b)
<1> DEFINE pieces(s) == [i \in 1..Len(s) |-> Escape(s[i])]
<1>1. pieces(d) \in Seq(Bytes)
  BY EscapeType DEF Bytes
<1>2. Escape(b) \in Bytes
  BY EscapeType
<1>3. pieces(Append(d, b)) = Append(pieces(d), Escape(b))
  <2> DEFINE p == pieces(Append(d, b))
             q == Append(pieces(d), Escape(b))
             n == Len(d)
  <2>1. n \in Nat /\ Len(Append(d, b)) = n + 1 /\ Append(d, b)[n + 1] = b
        /\ \A i \in 1..n : Append(d, b)[i] = d[i]
    BY DEF Bytes
  <2>2. DOMAIN p = 1..(n + 1) /\ p[n + 1] = Escape(b) /\ \A i \in 1..n : p[i] = Escape(d[i])
    BY <2>1
  <2>3. Len(pieces(d)) = n /\ q \in Seq(Bytes) /\ Len(q) = n + 1 /\ q[n + 1] = Escape(b)
        /\ \A i \in 1..n : q[i] = Escape(d[i])
    BY <1>1, <1>2, <2>1
  <2>4. p \in Seq(Bytes) /\ Len(p) = n + 1
    BY <2>1, EscapeType DEF Bytes
  <2> HIDE DEF p, q, n
  <2>5. \A i \in 1..(n + 1) : p[i] = q[i]
    BY <2>1, <2>2, <2>3
  <2>6. p = q
    BY <2>3, <2>4, <2>5, SeqEqual
  <2> QED
    BY <2>6 DEF p, q
<1> HIDE DEF pieces
<1>4. FlattenSeq(Append(pieces(d), Escape(b))) = FlattenSeq(pieces(d)) \o Escape(b)
  BY <1>1, <1>2, FlattenAppend DEF Bytes
<1> QED
  BY <1>3, <1>4 DEF stuff, pieces

\* Nothing that delimits or controls is left in a stuffed body, and a body at
\* most doubles.
LEMMA StuffType ==
    ASSUME NEW d \in Bytes
    PROVE  /\ stuff(d) \in Bytes /\ stuff(d) \in Seq(Clean)
           /\ Len(stuff(d)) \in Len(d)..(2 * Len(d))
<1> DEFINE Good(s) == /\ stuff(s) \in Bytes /\ stuff(s) \in Seq(Clean)
                      /\ Len(stuff(s)) \in Len(s)..(2 * Len(s))
           T == {s \in Bytes : Good(s)}
<1>1. <<>> \in T
  <2>1. <<>> \in Bytes /\ <<>> \in Seq(Clean) /\ Len(<<>>) = 0
    BY DEF Bytes
  <2>2. 0 \in 0..(2 * 0)
    OBVIOUS
  <2> QED
    BY <2>1, <2>2, StuffEmpty
<1>2. ASSUME NEW s \in Seq(U8), NEW e \in U8, s \in T PROVE Append(s, e) \in T
  <2>1. s \in Bytes /\ Append(s, e) \in Bytes /\ Len(Append(s, e)) = Len(s) + 1 /\ Len(s) \in Nat
    BY DEF Bytes
  <2>2. stuff(Append(s, e)) = stuff(s) \o Escape(e)
    BY <2>1, StuffAppend
  <2>3. /\ stuff(s) \o Escape(e) \in Bytes
        /\ stuff(s) \o Escape(e) \in Seq(Clean)
        /\ Len(stuff(s) \o Escape(e)) = Len(stuff(s)) + Len(Escape(e))
    BY <1>2, EscapeType DEF Bytes
  <2>4. Len(stuff(s)) + Len(Escape(e)) \in (Len(s) + 1)..(2 * (Len(s) + 1))
    <3> DEFINE k == Len(s)
               m == Len(stuff(s))
               e1 == Len(Escape(e))
    <3>1. k \in Nat /\ m \in k..(2 * k) /\ e1 \in {1, 2}
      BY <1>2, <2>1, EscapeType
    <3> HIDE DEF k, m, e1
    <3>2. m + e1 \in (k + 1)..(2 * (k + 1))
      BY <3>1
    <3> QED
      BY <3>2 DEF k, m, e1
  <2> QED
    BY <2>1, <2>2, <2>3, <2>4
<1> HIDE DEF T
<1>3. \A s \in Seq(U8) : s \in T
  BY <1>1, <1>2, SeqSetInduction
<1> QED
  BY <1>3 DEF T, Bytes

-----------------------------------------------------------------------------
(***************************************************************************)
(* Unstuffing                                                              *)
(***************************************************************************)
Pieces(d) == [i \in 1..Len(d) |-> Unescape(Markers(d), d, i)]

\* Where the loop of unstuff is after d, and what one more byte does.
Unstuffed(d) == [out |-> FlattenSeq(Pieces(d)), esc |-> Markers(d)[Len(d)]]
UnstuffByte(s, b) ==
    IF s.esc THEN [out |-> Append(s.out, XorByte(b, STUFF_XOR)), esc |-> FALSE]
    ELSE IF b = STUFF_ESCAPE THEN [out |-> s.out, esc |-> TRUE]
    ELSE [out |-> Append(s.out, b), esc |-> FALSE]

IsMarking(m, d, n) ==
    /\ m \in [0..n -> BOOLEAN] /\ m[0] = FALSE
    /\ \A i \in 1..n : m[i] = (d[i] = STUFF_ESCAPE /\ ~ m[i - 1])
IsMarkers(m, d) ==
    m = [i \in 0..Len(d) |-> i # 0 /\ d[i] = STUFF_ESCAPE /\ ~ m[i - 1]]

LEMMA MarkersFold ==
    ASSUME NEW d \in Bytes, NEW n, n = Len(d)
    PROVE  IsMarking(Markers(d), d, n)
<1> DEFINE step == [i \in 1..n |-> [x \in BOOLEAN |-> d[i] = STUFF_ESCAPE /\ ~ x]]
<1>1. n \in Nat
  BY DEF Bytes
<1>2. IsSteps(step, n, BOOLEAN)
  BY DEF IsSteps
<1>3. PICK f : IsRun(f, BOOLEAN, n, FALSE, step)
  <2> HIDE DEF step
  <2> QED
    BY <1>1, <1>2, Recursion
<1>4. \A i \in 1..n : i - 1 \in 0..n /\ f[i - 1] \in BOOLEAN
  BY <1>1, <1>3 DEF IsRun
<1>5. \A i \in 1..n : f[i] = (d[i] = STUFF_ESCAPE /\ ~ f[i - 1])
  <2> TAKE i \in 1..n
  <2>1. f[i] = step[i][f[i - 1]]
    BY <1>3 DEF IsRun
  <2> QED
    BY <1>4, <2>1
<1>6. f = [i \in 0..n |-> i # 0 /\ d[i] = STUFF_ESCAPE /\ ~ f[i - 1]]
  <2>1. f = [i \in 0..n |-> f[i]] /\ f[0] = FALSE
    BY <1>3 DEF IsRun
  <2>2. ASSUME NEW i \in 0..n PROVE f[i] = (i # 0 /\ d[i] = STUFF_ESCAPE /\ ~ f[i - 1])
    <3>1. CASE i = 0
      BY <2>1, <3>1
    <3>2. CASE i # 0
      <4>1. i \in 1..n
        BY <1>1, <3>2
      <4> QED
        BY <1>5, <3>2, <4>1
    <3> QED
      BY <3>1, <3>2
  <2> QED
    BY <2>1, <2>2
<1>7. IsMarkers(f, d)
  BY <1>6 DEF IsMarkers
<1> DEFINE m == CHOOSE g : IsMarkers(g, d)
<1>8. IsMarkers(m, d)
  BY <1>7
<1>9. Markers(d) = m
  BY DEF Markers, IsMarkers
<1> HIDE DEF m
<1>10. m = [i \in 0..n |-> i # 0 /\ d[i] = STUFF_ESCAPE /\ ~ m[i - 1]]
  BY <1>8 DEF IsMarkers
<1>11. m \in [0..n -> BOOLEAN]
  <2> DEFINE B(i) == i # 0 /\ d[i] = STUFF_ESCAPE /\ ~ m[i - 1]
  <2>1. \A i \in 0..n : B(i) \in BOOLEAN
    OBVIOUS
  <2>2. m = [i \in 0..n |-> B(i)]
    BY <1>10
  <2> HIDE DEF B
  <2> QED
    BY <2>1, <2>2
<1>12. \A i \in 0..n : m[i] = (i # 0 /\ d[i] = STUFF_ESCAPE /\ ~ m[i - 1])
  BY <1>10
<1>13. 0 \in 0..n /\ \A i \in 1..n : i \in 0..n /\ i # 0
  BY <1>1
<1>14. IsMarking(m, d, n)
  BY <1>11, <1>12, <1>13 DEF IsMarking
<1> QED
  BY <1>9, <1>14

Loop0 == [out |-> <<>>, esc |-> FALSE]
LoopStates == [out : Bytes, esc : BOOLEAN]

LEMMA PieceType ==
    ASSUME NEW d \in Bytes
    PROVE  /\ \A i \in 1..Len(d) : Unescape(Markers(d), d, i) \in Bytes
           /\ Pieces(d) \in Seq(Bytes) /\ Len(Pieces(d)) = Len(d)
<1>1. ASSUME NEW i \in 1..Len(d) PROVE Unescape(Markers(d), d, i) \in Bytes
  <2>1. d[i] \in U8 /\ STUFF_XOR \in U8
    <3>1. STUFF_XOR \in U8
      BY DEF STUFF_XOR, U8
    <3>2. d[i] \in U8
      BY DEF Bytes
    <3> QED
      BY <3>1, <3>2
  <2>2. XorByte(d[i], STUFF_XOR) \in U8
    BY <2>1, XorBits
  <2> DEFINE x == XorByte(d[i], STUFF_XOR)
             y == d[i]
  <2>3. x \in U8 /\ y \in U8
    BY <2>1, <2>2
  <2> HIDE DEF x, y
  <2>4. <<>> \in Bytes /\ <<x>> \in Bytes /\ <<y>> \in Bytes
    BY <2>3 DEF Bytes
  <2> QED
    BY <2>4 DEF Unescape, x, y
<1>2. Len(d) \in Nat
  BY DEF Bytes
<1> DEFINE P(i) == Unescape(Markers(d), d, i)
<1>3. \A i \in 1..Len(d) : P(i) \in Bytes
  BY <1>1
<1> HIDE DEF P
<1>4. [i \in 1..Len(d) |-> P(i)] \in Seq(Bytes) /\ Len([i \in 1..Len(d) |-> P(i)]) = Len(d)
  BY <1>2, <1>3
<1> QED
  BY <1>1, <1>4 DEF Pieces, P

LEMMA UnstuffedType ==
    ASSUME NEW d \in Bytes
    PROVE  Unstuffed(d) \in LoopStates
<1> DEFINE n == Len(d)
<1>1. n \in 0..n /\ n = Len(d)
  BY DEF Bytes
<1>2. Markers(d)[n] \in BOOLEAN
  BY <1>1, MarkersFold DEF IsMarking
<1>3. FlattenSeq(Pieces(d)) \in Bytes
  BY PieceType, FlattenType DEF Bytes
<1> QED
  BY <1>2, <1>3 DEF Unstuffed, LoopStates

LEMMA UnstuffedEmpty == Unstuffed(<<>>) = Loop0
<1> DEFINE d == <<>>
           n == 0
<1>1. d \in Bytes /\ n = Len(d)
  BY DEF Bytes
<1>2. Pieces(d) = <<>>
  BY DEF Pieces
<1> HIDE DEF d
<1>3. Markers(d)[n] = FALSE
  BY <1>1, MarkersFold DEF IsMarking
<1>4. FlattenSeq(Pieces(d)) = <<>>
  BY <1>2, FlattenEmpty
<1> QED
  BY <1>1, <1>3, <1>4 DEF Unstuffed, Loop0, d

LEMMA UnstuffedAppend ==
    ASSUME NEW d \in Bytes, NEW b \in U8
    PROVE  /\ Unstuffed(d) \in LoopStates
           /\ Unstuffed(Append(d, b)) = UnstuffByte(Unstuffed(d), b)
<1> DEFINE n == Len(d)
           m == n + 1
           e == Append(d, b)
           f == Markers(d)
           g == Markers(e)
           p == Pieces(d)
           q == Pieces(e)
           x == Unescape(g, e, m)
<1>1. n \in Nat /\ e \in Bytes /\ m = Len(e) /\ n = Len(d) /\ m = n + 1
  BY DEF Bytes
<1>2. e[m] = b /\ \A i \in 1..n : e[i] = d[i]
  BY DEF Bytes
<1> HIDE DEF e, n, m
<1>3. IsMarking(f, d, n) /\ IsMarking(g, e, m)
  BY <1>1, MarkersFold
<1> HIDE DEF f, g
<1>4. SameSteps(f, g, n)
  <2>1. f[0] = g[0]
    BY <1>3 DEF IsMarking
  <2>2. ASSUME NEW i \in 1..n, f[i - 1] = g[i - 1] PROVE f[i] = g[i]
    <3>1. i \in 1..m
      BY <1>1
    <3> QED
      BY <1>2, <1>3, <2>2, <3>1 DEF IsMarking
  <2> QED
    BY <2>1, <2>2 DEF SameSteps
<1>5. SameUpTo(f, g, n)
  BY <1>1, <1>4, SameRecursion
<1>6. f[n] = g[n] /\ m \in 1..m /\ m - 1 = n /\ n \in 0..n
  BY <1>1, <1>5 DEF SameUpTo
<1>7. g[m] = (b = STUFF_ESCAPE /\ ~ f[n])
  BY <1>2, <1>3, <1>6 DEF IsMarking
<1>8. /\ p \in Seq(Bytes) /\ Len(p) = n /\ q \in Seq(Bytes) /\ Len(q) = m /\ x \in Bytes
  <2>1. x \in Bytes
    BY <1>1, <1>6, PieceType DEF g
  <2> QED
    BY <1>1, <2>1, PieceType
<1>9. q = Append(p, x)
  <2> DEFINE r == Append(p, x)
  <2>1. \A i \in 1..n : p[i] = Unescape(f, d, i)
    BY <1>1 DEF Pieces, f
  <2>2. \A i \in 1..m : q[i] = Unescape(g, e, i)
    BY <1>1 DEF Pieces, g
  <2>3. ASSUME NEW i \in 1..n PROVE q[i] = p[i]
    <3>1. i \in 1..m /\ i \in 0..n /\ i - 1 \in 0..n
      BY <1>1
    <3>2. f[i] = g[i] /\ f[i - 1] = g[i - 1] /\ e[i] = d[i]
      BY <1>2, <1>5, <3>1 DEF SameUpTo
    <3> QED
      BY <2>1, <2>2, <3>1, <3>2 DEF Unescape
  <2>4. q[m] = x
    BY <1>6, <2>2
  <2> HIDE DEF p, q, x
  <2>5. r \in Seq(Bytes) /\ Len(r) = m /\ r[m] = x /\ \A i \in 1..n : r[i] = p[i]
    BY <1>1, <1>8
  <2> HIDE DEF r
  <2>6. \A i \in 1..m : q[i] = r[i]
    BY <1>1, <2>3, <2>4, <2>5
  <2>7. q = r
    BY <1>8, <2>5, <2>6, SeqEqual
  <2> QED
    BY <2>7 DEF r
<1>10. x = IF b = STUFF_ESCAPE /\ ~ f[n] THEN <<>>
           ELSE IF f[n] THEN <<XorByte(b, STUFF_XOR)>> ELSE <<b>>
  BY <1>2, <1>6, <1>7 DEF Unescape
<1> HIDE DEF p, q, x
<1>11. FlattenSeq(q) = FlattenSeq(p) \o x
  BY <1>8, <1>9, FlattenAppend DEF Bytes
<1> DEFINE o == FlattenSeq(p)
           y == XorByte(b, STUFF_XOR)
<1>12. o \in Bytes /\ f[n] \in BOOLEAN
  <2>1. Unstuffed(d) \in LoopStates /\ Unstuffed(d) = [out |-> o, esc |-> f[n]]
    BY <1>1, UnstuffedType DEF Unstuffed, p, f
  <2> QED
    BY <2>1 DEF LoopStates
<1>13. y \in U8
  <2>1. STUFF_XOR \in U8
    BY DEF STUFF_XOR, U8
  <2> QED
    BY <2>1, XorBits
<1> HIDE DEF o, y
<1>14. o \o <<>> = o /\ o \o <<b>> = Append(o, b) /\ o \o <<y>> = Append(o, y)
  BY <1>12, <1>13 DEF Bytes
<1>15. Unstuffed(d) = [out |-> o, esc |-> f[n]] /\ Unstuffed(e) = [out |-> o \o x, esc |-> g[m]]
  BY <1>1, <1>11 DEF Unstuffed, o, p, q, f, g
<1> DEFINE u == Unstuffed(d)
           t == g[m]
           k == f[n]
<1>16. u.out = o /\ u.esc = k
  BY <1>15
<1>17. UnstuffByte(u, b) = IF k THEN [out |-> Append(o, y), esc |-> FALSE]
                           ELSE IF b = STUFF_ESCAPE THEN [out |-> o, esc |-> TRUE]
                           ELSE [out |-> Append(o, b), esc |-> FALSE]
  BY <1>16 DEF UnstuffByte, y
<1>18. UnstuffByte(u, b) = [out |-> o \o x, esc |-> t]
  <2> HIDE DEF u
  <2>1. CASE k
    <3>1. t = FALSE /\ x = <<y>>
      BY <1>7, <1>10, <2>1 DEF y
    <3> HIDE DEF t, k
    <3> QED
      BY <1>14, <1>17, <2>1, <3>1
  <2>2. CASE ~ k /\ b = STUFF_ESCAPE
    <3>1. t = TRUE /\ x = <<>>
      BY <1>7, <1>10, <2>2
    <3> HIDE DEF t, k
    <3> QED
      BY <1>14, <1>17, <2>2, <3>1
  <2>3. CASE ~ k /\ b # STUFF_ESCAPE
    <3>1. t = FALSE /\ x = <<b>>
      BY <1>7, <1>10, <2>3
    <3> HIDE DEF t, k
    <3> QED
      BY <1>14, <1>17, <2>3, <3>1
  <2> QED
    BY <2>1, <2>2, <2>3
<1> HIDE DEF u, t
<1> QED
  BY <1>15, <1>18, UnstuffedType DEF e, u, t

\* An escaped byte comes back, and the loop is ready for the next one.
LEMMA UnstuffEscape ==
    ASSUME NEW d \in Bytes, NEW b \in U8, NEW out \in Bytes,
           Unstuffed(d) = [out |-> out, esc |-> FALSE]
    PROVE  Unstuffed(d \o Escape(b)) = [out |-> Append(out, b), esc |-> FALSE]
<1>1. CASE b \in STUFF_BYTES
  <2> DEFINE x == XorByte(b, STUFF_XOR)
             d1 == Append(d, STUFF_ESCAPE)
             s1 == Unstuffed(d1)
  <2>1. STUFF_ESCAPE \in U8 /\ STUFF_XOR \in U8
    BY DEF STUFF_ESCAPE, STUFF_XOR, U8
  <2>2. x \in U8 /\ XorByte(x, STUFF_XOR) = b
    BY <2>1, XorBits, XorCancels
  <2>3. s1 = [out |-> out, esc |-> TRUE]
    <3>1. s1 = UnstuffByte(Unstuffed(d), STUFF_ESCAPE)
      BY <2>1, UnstuffedAppend
    <3> QED
      BY <3>1 DEF UnstuffByte
  <2>4. d1 \in Bytes
    BY <2>1 DEF Bytes
  <2> HIDE DEF x
  <2>5. d \o Escape(b) = Append(d1, x)
    BY <1>1, <2>1, <2>2 DEF Escape, Bytes, x
  <2> HIDE DEF d1
  <2>6. Unstuffed(Append(d1, x)) = UnstuffByte(s1, x)
    BY <2>2, <2>4, UnstuffedAppend
  <2> QED
    BY <2>2, <2>3, <2>5, <2>6 DEF UnstuffByte
<1>2. CASE b \notin STUFF_BYTES
  <2>1. d \o Escape(b) = Append(d, b)
    BY <1>2 DEF Escape, Bytes
  <2>2. b # STUFF_ESCAPE
    BY <1>2 DEF STUFF_BYTES, STUFF_ESCAPE
  <2>3. Unstuffed(Append(d, b)) = UnstuffByte(Unstuffed(d), b)
    BY UnstuffedAppend
  <2> QED
    BY <2>1, <2>2, <2>3 DEF UnstuffByte
<1> QED
  BY <1>1, <1>2

\* For every payload, of any length and content: unstuff takes back what stuff
\* put into the body, the escapes of escape bytes included.
THEOREM UnstuffStuff ==
    ASSUME NEW d \in Bytes
    PROVE  unstuff(stuff(d)) = Ok(d)
<1> DEFINE T == {s \in Bytes : Unstuffed(stuff(s)) = [out |-> s, esc |-> FALSE]}
<1>1. <<>> \in T
  BY StuffEmpty, UnstuffedEmpty DEF Bytes, Loop0
<1>2. ASSUME NEW s \in Seq(U8), NEW e \in U8, s \in T PROVE Append(s, e) \in T
  <2>1. s \in Bytes /\ Append(s, e) \in Bytes /\ stuff(s) \in Bytes
    BY StuffType DEF Bytes
  <2>2. stuff(Append(s, e)) = stuff(s) \o Escape(e)
    BY <2>1, StuffAppend
  <2>3. Unstuffed(stuff(s) \o Escape(e)) = [out |-> Append(s, e), esc |-> FALSE]
    BY <1>2, <2>1, UnstuffEscape
  <2> QED
    BY <2>1, <2>2, <2>3
<1> HIDE DEF T
<1>3. \A s \in Seq(U8) : s \in T
  BY <1>1, <1>2, SeqSetInduction
<1>4. Unstuffed(stuff(d)) = [out |-> d, esc |-> FALSE]
  BY <1>3 DEF T, Bytes
<1> DEFINE x == stuff(d)
           y == Unstuffed(x)
<1>5. unstuff(x) = IF y.esc THEN Err("TruncatedEscape") ELSE Ok(y.out)
  BY DEF unstuff, Unstuffed, Pieces
<1> HIDE DEF y
<1>6. y.esc = FALSE /\ y.out = d
  BY <1>4 DEF y
<1> QED
  BY <1>5, <1>6

-----------------------------------------------------------------------------
(***************************************************************************)
(* FCS-16                                                                  *)
(***************************************************************************)
LEMMA U16Max == U16_MAX \in Nat /\ U16_MAX = 65535
BY DEF U16_MAX

LEMMA InU16 ==
    ASSUME NEW n \in Nat, n <= 65535
    PROVE  n \in U16s
<1>1. U16_MAX \in Nat /\ n <= U16_MAX
  BY SMT, U16Max
<1> QED
  BY SMT, <1>1 DEF U16s

LEMMA U16Halves ==
    ASSUME NEW n \in U16s
    PROVE  /\ n % 256 \in U8 /\ n \div 256 \in U8 /\ n = (n % 256) + 256 * (n \div 256)
           /\ (n \div 256) % 256 = n \div 256
<1> DEFINE r == n % 256
           q == n \div 256
<1>1. n \in Int /\ 0 <= n /\ n < 65536
  BY SMT, U16Max DEF U16s
<1>2. r \in 0..255 /\ q \in Int /\ n = r + 256 * q
  BY SMT, <1>1
<1> HIDE DEF r, q
<1>3. 0 <= q /\ q < 256
  BY SMT, <1>1, <1>2
<1>4. q \in 0..255 /\ q % 256 = q
  BY SMT, <1>2, <1>3
<1> QED
  BY <1>2, <1>4 DEF r, q, U8

LEMMA U16FromHalves ==
    ASSUME NEW l \in U8, NEW h \in U8
    PROVE  l + 256 * h \in U16s /\ (l + 256 * h) % 256 = l /\ (l + 256 * h) \div 256 = h
<1> DEFINE n == l + 256 * h
<1>1. l \in 0..255 /\ h \in 0..255 /\ l \in Int /\ h \in Int
  BY SMT DEF U8
<1>2. n \in Nat /\ n <= 65535
  BY SMT, <1>1
<1>3. n % 256 = l
  BY SMT, <1>1
<1>4. n \div 256 = h
  BY SMT, <1>1
<1> HIDE DEF n
<1>5. n \in U16s
  BY SMT, <1>2, InU16
<1> QED
  BY <1>3, <1>4, <1>5 DEF n

LEMMA Xor16Halves ==
    ASSUME NEW a \in U16s, NEW b \in U16s
    PROVE  /\ Xor16(a, b) \in U16s
           /\ Xor16(a, b) % 256 = XorByte(a % 256, b % 256)
           /\ Xor16(a, b) \div 256 = XorByte(a \div 256, b \div 256)
<1> DEFINE l == XorByte(a % 256, b % 256)
           h == XorByte(a \div 256, b \div 256)
<1>1. l \in U8 /\ h \in U8
  BY U16Halves, XorBits
<1>2. Xor16(a, b) = l + 256 * h
  BY DEF Xor16
<1> HIDE DEF l, h
<1>3. /\ Xor16(a, b) \in U16s /\ Xor16(a, b) % 256 = l /\ Xor16(a, b) \div 256 = h
  BY <1>1, <1>2, U16FromHalves
<1> QED
  BY <1>3 DEF l, h

LEMMA ShiftType ==
    ASSUME NEW v \in U16s
    PROVE  Shift(v) \in U16s
<1> DEFINE w == v \div 2
<1>0. v \in Nat /\ v <= 65535
  BY SMT, U16Max DEF U16s
<1>1. w \in Nat /\ w <= 65535
  BY SMT, <1>0
<1> HIDE DEF w
<1>2. w \in U16s
  BY SMT, <1>1, InU16
<1>3. \h8408 \in U16s
  BY SMT, InU16
<1> QED
  BY SMT, <1>2, <1>3, Xor16Halves DEF Shift, w

\* The eight shifts of a byte.
LEMMA TableEntry ==
    ASSUME NEW b \in U8
    PROVE  /\ FCS_TAB[b] = Shift(Shift(Shift(Shift(Shift(Shift(Shift(Shift(b))))))))
           /\ FCS_TAB[b] \in U16s
<1>1. b \in U16s
  BY SMT, InU16 DEF U8
<1>2. FCS_TAB[b] = Shift(Shift(Shift(Shift(Shift(Shift(Shift(Shift(b))))))))
  BY DEF FCS_TAB, U8
<1> QED
  BY <1>1, <1>2, ShiftType

LEMMA UpdateType ==
    ASSUME NEW fcs \in U16s, NEW b \in U8
    PROVE  update(fcs, b) \in U16s
<1>0. U8 \subseteq U16s
  BY SMT, InU16 DEF U8
<1>1. fcs \div 256 \in U16s /\ fcs % 256 \in U8
  BY <1>0, U16Halves
<1>2. FCS_TAB[XorByte(fcs % 256, b)] \in U16s
  BY <1>1, XorBits, TableEntry
<1> QED
  BY <1>1, <1>2, Xor16Halves DEF update

\* The two entries of the table the FCS of an FCS meets.
LEMMA OddShift ==
    ASSUME NEW v, NEW l, NEW h, NEW x, NEW y, v % 2 = 1,
           (v \div 2) % 256 = l, (v \div 2) \div 256 = h, XorByte(l, 8) = x, XorByte(h, 132) = y
    PROVE  Shift(v) = x + 256 * y
<1>1. \h8408 % 256 = 8 /\ \h8408 \div 256 = 132
  BY SMT
<1> QED
  BY SMT, <1>1 DEF Shift, Xor16

LEMMA EvenShift ==
    ASSUME NEW v, NEW w, v % 2 = 0, v \div 2 = w
    PROVE  Shift(v) = w
BY DEF Shift

\* The entries of the table that the FCS of a body with its FCS meets.
LEMMA TableValues == FCS_TAB[255] = 3960 /\ FCS_TAB[135] = 61623
<1>1. Shift(255) = 33911
  <2>1. /\ 255 % 2 = 1 /\ (255 \div 2) % 256 = 127 /\ (255 \div 2) \div 256 = 0
        /\ 119 + 256 * 132 = 33911
    BY SMT
  <2>2. XorByte(127, 8) = 119 /\ XorByte(0, 132) = 132
    BY SMT DEF XorByte
  <2> QED
    BY SMT, <2>1, <2>2, OddShift
<1>2. Shift(33911) = 50739
  <2>1. /\ 33911 % 2 = 1 /\ (33911 \div 2) % 256 = 59 /\ (33911 \div 2) \div 256 = 66
        /\ 51 + 256 * 198 = 50739
    BY SMT
  <2>2. XorByte(59, 8) = 51 /\ XorByte(66, 132) = 198
    BY SMT DEF XorByte
  <2> QED
    BY SMT, <2>1, <2>2, OddShift
<1>3. Shift(50739) = 59153
  <2>1. /\ 50739 % 2 = 1 /\ (50739 \div 2) % 256 = 25 /\ (50739 \div 2) \div 256 = 99
        /\ 17 + 256 * 231 = 59153
    BY SMT
  <2>2. XorByte(25, 8) = 17 /\ XorByte(99, 132) = 231
    BY SMT DEF XorByte
  <2> QED
    BY SMT, <2>1, <2>2, OddShift
<1>4. Shift(59153) = 63360
  <2>1. /\ 59153 % 2 = 1 /\ (59153 \div 2) % 256 = 136 /\ (59153 \div 2) \div 256 = 115
        /\ 128 + 256 * 247 = 63360
    BY SMT
  <2>2. XorByte(136, 8) = 128 /\ XorByte(115, 132) = 247
    BY SMT DEF XorByte
  <2> QED
    BY SMT, <2>1, <2>2, OddShift
<1>5. Shift(63360) = 31680
  BY SMT, EvenShift
<1>6. Shift(31680) = 15840
  BY SMT, EvenShift
<1>7. Shift(15840) = 7920
  BY SMT, EvenShift
<1>8. Shift(7920) = 3960
  BY SMT, EvenShift
<1>9. Shift(135) = 33867
  <2>1. /\ 135 % 2 = 1 /\ (135 \div 2) % 256 = 67 /\ (135 \div 2) \div 256 = 0
        /\ 75 + 256 * 132 = 33867
    BY SMT
  <2>2. XorByte(67, 8) = 75 /\ XorByte(0, 132) = 132
    BY SMT DEF XorByte
  <2> QED
    BY SMT, <2>1, <2>2, OddShift
<1>10. Shift(33867) = 50733
  <2>1. /\ 33867 % 2 = 1 /\ (33867 \div 2) % 256 = 37 /\ (33867 \div 2) \div 256 = 66
        /\ 45 + 256 * 198 = 50733
    BY SMT
  <2>2. XorByte(37, 8) = 45 /\ XorByte(66, 132) = 198
    BY SMT DEF XorByte
  <2> QED
    BY SMT, <2>1, <2>2, OddShift
<1>11. Shift(50733) = 59166
  <2>1. /\ 50733 % 2 = 1 /\ (50733 \div 2) % 256 = 22 /\ (50733 \div 2) \div 256 = 99
        /\ 30 + 256 * 231 = 59166
    BY SMT
  <2>2. XorByte(22, 8) = 30 /\ XorByte(99, 132) = 231
    BY SMT DEF XorByte
  <2> QED
    BY SMT, <2>1, <2>2, OddShift
<1>12. Shift(59166) = 29583
  BY SMT, EvenShift
<1>13. Shift(29583) = 48591
  <2>1. /\ 29583 % 2 = 1 /\ (29583 \div 2) % 256 = 199 /\ (29583 \div 2) \div 256 = 57
        /\ 207 + 256 * 189 = 48591
    BY SMT
  <2>2. XorByte(199, 8) = 207 /\ XorByte(57, 132) = 189
    BY SMT DEF XorByte
  <2> QED
    BY SMT, <2>1, <2>2, OddShift
<1>14. Shift(48591) = 56047
  <2>1. /\ 48591 % 2 = 1 /\ (48591 \div 2) % 256 = 231 /\ (48591 \div 2) \div 256 = 94
        /\ 239 + 256 * 218 = 56047
    BY SMT
  <2>2. XorByte(231, 8) = 239 /\ XorByte(94, 132) = 218
    BY SMT DEF XorByte
  <2> QED
    BY SMT, <2>1, <2>2, OddShift
<1>15. Shift(56047) = 59775
  <2>1. /\ 56047 % 2 = 1 /\ (56047 \div 2) % 256 = 119 /\ (56047 \div 2) \div 256 = 109
        /\ 127 + 256 * 233 = 59775
    BY SMT
  <2>2. XorByte(119, 8) = 127 /\ XorByte(109, 132) = 233
    BY SMT DEF XorByte
  <2> QED
    BY SMT, <2>1, <2>2, OddShift
<1>16. Shift(59775) = 61623
  <2>1. /\ 59775 % 2 = 1 /\ (59775 \div 2) % 256 = 191 /\ (59775 \div 2) \div 256 = 116
        /\ 183 + 256 * 240 = 61623
    BY SMT
  <2>2. XorByte(191, 8) = 183 /\ XorByte(116, 132) = 240
    BY SMT DEF XorByte
  <2> QED
    BY SMT, <2>1, <2>2, OddShift
<1>17. 255 \in U8 /\ 135 \in U8
  BY SMT DEF U8
<1>18. FCS_TAB[255] = 3960
  BY SMT, <1>1, <1>2, <1>3, <1>4, <1>5, <1>6, <1>7, <1>8,
     <1>17, TableEntry
<1>19. FCS_TAB[135] = 61623
  BY SMT, <1>9, <1>10, <1>11, <1>12, <1>13, <1>14, <1>15, <1>16,
     <1>17, TableEntry
<1> QED
  BY SMT, <1>18, <1>19

\* The loop of update_slice as a fold from the left.
IsFcsRun(w, d, n) ==
    /\ w \in [0..n -> U16s]
    /\ w[0] = \hFFFF
    /\ \A i \in 1..n : w[i] = update(w[i - 1], d[i])

At(x, i) == [fcs |-> x, at |-> i]
FcsStates(n) == [fcs : 0..U16_MAX, at : 0..n]
IsFcsLoop(g, d) ==
    g = [s \in [fcs : 0..U16_MAX, at : 0..Len(d)] |->
          IF s.at = Len(d) THEN s.fcs
          ELSE g[[fcs |-> update(s.fcs, d[s.at + 1]), at |-> s.at + 1]]]

LEMMA FcsState ==
    ASSUME NEW n \in Nat
    PROVE  /\ \A x \in U16s, i \in 0..n : At(x, i) \in FcsStates(n)
           /\ \A x, i : At(x, i).fcs = x /\ At(x, i).at = i
           /\ \A s \in FcsStates(n) : s.fcs \in U16s /\ s.at \in 0..n
BY DEF At, FcsStates, U16s

LEMMA FcsLoopExists ==
    ASSUME NEW d \in Bytes
    PROVE  \E g : IsFcsLoop(g, d)
<1> DEFINE n == Len(d)
           S == [U16s -> U16s]
           id == [x \in U16s |-> x]
           step == [k \in 1..n |-> [F \in S |-> [x \in U16s |-> F[update(x, d[n - k + 1])]]]]
<1>1. n \in Nat /\ \A i \in 1..n : d[i] \in U8
  BY DEF Bytes
<1>2. IsSteps(step, n, S)
  <2> HIDE DEF n
  <2>1. ASSUME NEW k \in 1..n, NEW x \in U16s PROVE update(x, d[n - k + 1]) \in U16s
    <3>1. n - k + 1 \in 1..n
      BY <1>1
    <3> QED
      BY <1>1, <3>1, UpdateType
  <2> HIDE DEF U16s
  <2> QED
    BY <2>1 DEF IsSteps
<1>3. id \in S
  OBVIOUS
<1>4. PICK h : IsRun(h, S, n, id, step)
  <2> HIDE DEF S, step, id
  <2> QED
    BY <1>1, <1>2, <1>3, Recursion
<1> DEFINE g == [s \in FcsStates(n) |-> h[n - s.at][s.fcs]]
<1> HIDE DEF n
<1>5. ASSUME NEW s \in FcsStates(n), s.at = n PROVE g[s] = s.fcs
  <2>1. n - s.at = 0 /\ s.fcs \in U16s
    BY <1>1, <1>5, FcsState
  <2> QED
    BY <1>4, <2>1 DEF IsRun
<1>6. ASSUME NEW s \in FcsStates(n), s.at # n
      PROVE  g[s] = g[At(update(s.fcs, d[s.at + 1]), s.at + 1)]
  <2> DEFINE x == s.fcs
             i == s.at
             k == n - i
             y == update(x, d[i + 1])
  <2>1. x \in U16s /\ i \in 0..n /\ i # n
    BY <1>1, <1>6, FcsState
  <2> HIDE DEF x, i
  <2>2. k \in 1..n /\ n - k + 1 = i + 1 /\ i + 1 \in 1..n /\ i + 1 \in 0..n /\ k - 1 = n - (i + 1)
        /\ k - 1 \in 0..n
    BY <1>1, <2>1
  <2>3. y \in U16s
    BY <1>1, <2>1, <2>2, UpdateType
  <2> HIDE DEF k
  <2>4. h[k][x] = h[k - 1][update(x, d[n - k + 1])]
    <3>1. h[k] = step[k][h[k - 1]] /\ h[k - 1] \in S
      BY <1>4, <2>2 DEF IsRun
    <3> QED
      BY <2>1, <2>2, <3>1
  <2>5. g[s] = h[k][x]
    BY DEF x, i, k
  <2>6. At(y, i + 1) \in FcsStates(n) /\ At(y, i + 1).fcs = y /\ At(y, i + 1).at = i + 1
    BY <1>1, <2>2, <2>3, FcsState
  <2>7. g[At(y, i + 1)] = h[n - (i + 1)][y]
    <3> HIDE DEF y
    <3> QED
      BY <2>6
  <2>8. h[k - 1][update(x, d[n - k + 1])] = h[n - (i + 1)][y]
    BY <2>2
  <2> QED
    BY <2>4, <2>5, <2>7, <2>8 DEF x, i
<1> HIDE DEF g
<1>7. g = [s \in FcsStates(n) |-> g[s]]
  BY DEF g
<1>8. g = [s \in FcsStates(n) |->
            IF s.at = n THEN s.fcs ELSE g[At(update(s.fcs, d[s.at + 1]), s.at + 1)]]
  BY <1>5, <1>6, <1>7
<1>9. IsFcsLoop(g, d)
  BY <1>8 DEF IsFcsLoop, FcsStates, At, n
<1> QED
  BY <1>9

LEMMA FcsFold ==
    ASSUME NEW d \in Bytes, NEW n, n = Len(d)
    PROVE  \E w : IsFcsRun(w, d, n) /\ update_slice(d) = w[n]
<1> DEFINE step == [i \in 1..n |-> [x \in U16s |-> update(x, d[i])]]
           first == \hFFFF
<1>1. n \in Nat /\ \A i \in 1..n : d[i] \in U8
  BY DEF Bytes
<1>2. IsSteps(step, n, U16s)
  BY <1>1, UpdateType DEF IsSteps
<1>3. first \in U16s
  BY SMT, InU16
<1>4. PICK w : IsRun(w, U16s, n, first, step)
  <2> HIDE DEF step, first
  <2> QED
    BY <1>1, <1>2, <1>3, Recursion
<1>5. \A i \in 1..n : i - 1 \in 0..n /\ w[i - 1] \in U16s
  <2> HIDE DEF step, first
  <2> QED
    BY <1>1, <1>4 DEF IsRun
<1>6. \A i \in 1..n : w[i] = update(w[i - 1], d[i])
  <2> HIDE DEF first
  <2> QED
    BY <1>4, <1>5 DEF IsRun
<1> HIDE DEF step, first
<1>7. w \in [0..n -> U16s] /\ w[0] = first
  BY <1>4 DEF IsRun
<1>8. IsFcsRun(w, d, n)
  BY <1>6, <1>7 DEF IsFcsRun, first
<1> DEFINE g == CHOOSE f : IsFcsLoop(f, d)
<1>9. IsFcsLoop(g, d)
  BY FcsLoopExists
<1>10. update_slice(d) = g[At(first, 0)]
  BY DEF update_slice, IsFcsLoop, At, first
<1> HIDE DEF g
<1>11. \A s \in FcsStates(n) : g[s] = IF s.at = n THEN s.fcs
                                     ELSE g[At(update(s.fcs, d[s.at + 1]), s.at + 1)]
  BY <1>9 DEF IsFcsLoop, FcsStates, At
<1> DEFINE e == [i \in 0..n |-> g[At(w[i], i)]]
           c == [i \in 0..n |-> g[At(first, 0)]]
<1>12. ASSUME NEW i \in 0..n
       PROVE  /\ At(w[i], i) \in FcsStates(n) /\ At(w[i], i).fcs = w[i] /\ At(w[i], i).at = i
  BY <1>1, <1>7, FcsState
<1>13. ASSUME NEW i \in 1..n PROVE e[i] = e[i - 1]
  <2>1. i - 1 \in 0..n /\ i \in 0..n /\ i - 1 # n /\ (i - 1) + 1 = i
    BY <1>1
  <2>2. g[At(w[i - 1], i - 1)] = g[At(update(w[i - 1], d[(i - 1) + 1]), (i - 1) + 1)]
    BY <1>11, <1>12, <2>1
  <2> QED
    BY <1>6, <2>1, <2>2
<1>14. SameSteps(e, c, n)
  <2>1. e[0] = c[0]
    BY <1>1, <1>7
  <2>2. \A i \in 1..n : i \in 0..n /\ i - 1 \in 0..n /\ c[i] = c[i - 1]
    BY <1>1
  <2> HIDE DEF e, c
  <2> QED
    BY <1>13, <2>1, <2>2 DEF SameSteps
<1>15. e[n] = c[n]
  <2> HIDE DEF e, c
  <2>1. SameUpTo(e, c, n)
    BY <1>1, <1>14, SameRecursion
  <2> QED
    BY <1>1, <2>1 DEF SameUpTo
<1>16. n \in 0..n
  BY <1>1
<1>17. g[At(w[n], n)] = w[n]
  BY <1>11, <1>12, <1>16
<1> QED
  BY <1>8, <1>10, <1>15, <1>16, <1>17

LEMMA UpdateSliceAppend ==
    ASSUME NEW d \in Bytes, NEW b \in U8
    PROVE  /\ update_slice(d) \in U16s
           /\ update_slice(Append(d, b)) = update(update_slice(d), b)
<1> DEFINE n == Len(d)
           m == n + 1
           e == Append(d, b)
<1>1. n \in Nat /\ e \in Bytes /\ m = Len(e) /\ n = Len(d) /\ m = n + 1
  BY DEF Bytes
<1>2. e[m] = b /\ \A i \in 1..n : e[i] = d[i]
  BY DEF Bytes
<1> HIDE DEF e, n, m
<1>3. PICK f : IsFcsRun(f, d, n) /\ update_slice(d) = f[n]
  BY <1>1, FcsFold
<1>4. PICK g : IsFcsRun(g, e, m) /\ update_slice(e) = g[m]
  BY <1>1, FcsFold
<1>5. SameSteps(f, g, n)
  BY SMT, <1>1, <1>2, <1>3, <1>4 DEF SameSteps, IsFcsRun
<1>6. SameUpTo(f, g, n)
  BY SMT, <1>1, <1>5, SameRecursion
<1>7. f[n] = g[n] /\ m \in 1..m /\ m - 1 = n /\ n \in 0..n
  BY SMT, <1>1, <1>6 DEF SameUpTo
<1>8. f[n] \in U16s
  BY SMT, <1>3, <1>7 DEF IsFcsRun
<1>9. g[m] = update(g[m - 1], e[m])
  BY SMT, <1>4, <1>7 DEF IsFcsRun
<1>10. g[m] = update(f[n], b)
  BY <1>2, <1>7, <1>9
<1> QED
  BY <1>3, <1>4, <1>8, <1>10 DEF e

LEMMA ComputeType ==
    ASSUME NEW d \in Bytes
    PROVE  update_slice(d) \in U16s /\ compute(d) \in U16s
<1>1. 0 \in U8
  BY DEF U8
<1>2. update_slice(d) \in U16s
  BY <1>1, UpdateSliceAppend
<1>3. \hFFFF \in U16s
  BY SMT, InU16
<1> QED
  BY SMT, <1>2, <1>3, Xor16Halves DEF compute

\* A value followed by its complement, low byte first, leaves the residue.
LEMMA Complemented ==
    ASSUME NEW f \in U16s
    PROVE  LET c == Xor16(f, \hFFFF)
           IN  update(update(f, c % 256), c \div 256) = \hF0B8
<1> DEFINE c == Xor16(f, \hFFFF)
           l == f % 256
           h == f \div 256
           f1 == update(f, c % 256)
<1>1. l \in U8 /\ h \in U8 /\ h % 256 = h /\ h \in U16s /\ h \div 256 = 0
  <2>1. l \in U8 /\ h \in U8 /\ h % 256 = h
    BY U16Halves
  <2> HIDE DEF h
  <2>2. h \in Nat /\ h <= 65535 /\ h \div 256 = 0
    BY SMT, <2>1 DEF U8
  <2> QED
    BY SMT, <2>1, <2>2, InU16
<1>2. /\ \hFFFF \in U16s /\ \hFFFF % 256 = 255 /\ \hFFFF \div 256 = 255
      /\ 3960 \in U16s /\ 3960 % 256 = 120 /\ 3960 \div 256 = 15
      /\ 255 \in U8 /\ 120 \in U8 /\ 15 \in U8 /\ 0 \in U8
  BY SMT, InU16 DEF U8
<1>3. c % 256 = XorByte(l, 255) /\ c \div 256 = XorByte(h, 255)
  BY SMT, <1>2, Xor16Halves
<1>4. XorByte(l, XorByte(l, 255)) = 255
  BY SMT, <1>1, <1>2, XorAssociates, XorZero
<1> HIDE DEF l, h, c
<1>5. f1 = Xor16(h, 3960)
  BY SMT, <1>3, <1>4, TableValues DEF update, l, h
<1>6. f1 % 256 = XorByte(h, 120) /\ f1 \div 256 = 15
  <2>1. f1 % 256 = XorByte(h, 120) /\ f1 \div 256 = XorByte(0, 15)
    BY SMT, <1>1, <1>2, <1>5, Xor16Halves
  <2> QED
    BY SMT, <1>2, <2>1, XorZero
<1>7. XorByte(XorByte(h, 120), XorByte(h, 255)) = 135
  <2>1. XorByte(h, 120) = XorByte(120, h)
    BY SMT, <1>1, <1>2, XorCommutes
  <2>2. XorByte(h, 255) \in U8
    BY <1>1, <1>2, XorBits
  <2>3. XorByte(XorByte(120, h), XorByte(h, 255)) = XorByte(120, XorByte(h, XorByte(h, 255)))
    BY SMT, <1>1, <1>2, <2>2, XorAssociates
  <2>4. XorByte(h, XorByte(h, 255)) = 255
    BY SMT, <1>1, <1>2, XorAssociates, XorZero
  <2>5. XorByte(120, 255) = 135
    BY SMT DEF XorByte
  <2> QED
    BY SMT, <2>1, <2>3, <2>4, <2>5
<1> HIDE DEF f1
<1>8. update(f1, c \div 256) = Xor16(15, 61623)
  BY SMT, <1>3, <1>6, <1>7, TableValues DEF update
<1>9. Xor16(15, 61623) = \hF0B8
  <2>1. /\ 61623 % 256 = 183 /\ 61623 \div 256 = 240 /\ 15 % 256 = 15 /\ 15 \div 256 = 0
        /\ 184 + 256 * 240 = \hF0B8
    BY SMT
  <2>2. XorByte(15, 183) = 184 /\ XorByte(0, 240) = 240
    BY SMT DEF XorByte
  <2> QED
    BY SMT, <2>1, <2>2 DEF Xor16
<1> QED
  BY SMT, <1>8, <1>9 DEF f1, c

LEMMA LE16Type ==
    ASSUME NEW n \in Nat
    PROVE  /\ LE16(n) \in Bytes /\ Len(LE16(n)) = 2
           /\ LE16(n)[1] = n % 256 /\ LE16(n)[2] = (n \div 256) % 256
<1>1. n % 256 \in U8 /\ (n \div 256) % 256 \in U8
  BY SMT DEF U8
<1> QED
  BY <1>1 DEF LE16, Bytes

\* For every payload: a receiver that runs the FCS over what build_l2_wrapped
\* sends, the checksum included, ends in the residue of PPP.
THEOREM FcsResidue ==
    ASSUME NEW d \in Bytes
    PROVE  update_slice(d \o LE16(compute(d))) = \hF0B8
<1> DEFINE f == update_slice(d)
           c == compute(d)
           x == c % 256
           y == c \div 256
           d1 == Append(d, x)
           d2 == Append(d1, y)
<1>1. f \in U16s /\ c \in U16s
  BY ComputeType
<1>2. c = Xor16(f, \hFFFF)
  BY DEF compute
<1> HIDE DEF c
<1>3. x \in U8 /\ y \in U8 /\ y % 256 = y
  BY <1>1, U16Halves
<1>4. d \o LE16(c) = d2
  BY <1>3 DEF LE16, Bytes
<1> HIDE DEF x, y
<1>5. d1 \in Bytes
  BY <1>3 DEF Bytes
<1>6. update_slice(d1) = update(f, x)
  BY <1>3, UpdateSliceAppend
<1>7. update_slice(d2) = update(update_slice(d1), y)
  <2> HIDE DEF d1
  <2> QED
    BY <1>3, <1>5, UpdateSliceAppend
<1> HIDE DEF f
<1>8. update(update(f, x), y) = \hF0B8
  BY SMT, <1>1, <1>2, Complemented DEF x, y
<1> HIDE DEF d2
<1> QED
  BY SMT, <1>4, <1>6, <1>7, <1>8 DEF c

-----------------------------------------------------------------------------
(***************************************************************************)
(* Slices of concatenations                                                *)
(***************************************************************************)
LEMMA SliceType ==
    ASSUME NEW s \in Bytes, NEW from \in Nat, NEW to \in Nat, from <= to, to <= Len(s)
    PROVE  /\ Slice(s, from, to) \in Bytes
           /\ Len(Slice(s, from, to)) = to - from
           /\ \A i \in 1..(to - from) : Slice(s, from, to)[i] = s[from + i]
BY DEF Slice, Bytes

LEMMA CatElements ==
    ASSUME NEW a \in Bytes, NEW b \in Bytes
    PROVE  /\ a \o b \in Bytes
           /\ Len(a) \in Nat /\ Len(b) \in Nat /\ Len(a \o b) = Len(a) + Len(b)
           /\ \A i \in 1..Len(a) : (a \o b)[i] = a[i]
           /\ \A i \in 1..Len(b) : (a \o b)[Len(a) + i] = b[i]
BY DEF Bytes

LEMMA SameBytes ==
    ASSUME NEW s \in Bytes, NEW t \in Bytes, Len(s) = Len(t),
           \A i \in 1..Len(s) : s[i] = t[i]
    PROVE  s = t
BY SeqEqual DEF Bytes

\* The slice of the middle of three, and of a part of the first of two.
LEMMA SliceMiddle ==
    ASSUME NEW a \in Bytes, NEW b \in Bytes, NEW c \in Bytes
    PROVE  Slice(a \o b \o c, Len(a), Len(a) + Len(b)) = b
<1> DEFINE ab == a \o b
           s == ab \o c
           n == Len(a)
           m == Len(b)
           t == Slice(s, n, n + m)
<1>1. /\ ab \in Bytes /\ n \in Nat /\ m \in Nat /\ Len(ab) = n + m
      /\ \A i \in 1..m : ab[n + i] = b[i]
  BY CatElements
<1> HIDE DEF ab
<1>2. /\ s \in Bytes /\ n + m <= Len(s)
      /\ \A i \in 1..(n + m) : s[i] = ab[i]
  <2>1. /\ s \in Bytes /\ Len(s) = Len(ab) + Len(c) /\ Len(c) \in Nat
        /\ \A i \in 1..Len(ab) : s[i] = ab[i]
    BY <1>1, CatElements
  <2> HIDE DEF s, n, m
  <2> QED
    BY <1>1, <2>1
<1> HIDE DEF s, n, m
<1>3. /\ t \in Bytes /\ Len(t) = (n + m) - n
      /\ \A i \in 1..((n + m) - n) : t[i] = s[n + i]
  <2> DEFINE k == n + m
  <2>1. k \in Nat /\ n <= k /\ k <= Len(s)
    BY <1>1, <1>2
  <2> HIDE DEF k
  <2>2. /\ Slice(s, n, k) \in Bytes /\ Len(Slice(s, n, k)) = k - n
        /\ \A i \in 1..(k - n) : Slice(s, n, k)[i] = s[n + i]
    BY <1>1, <1>2, <2>1, SliceType
  <2> QED
    BY <2>2 DEF k
<1> HIDE DEF t
<1>4. Len(t) = m /\ \A i \in 1..m : t[i] = b[i]
  BY <1>1, <1>2, <1>3
<1>5. t = b
  BY <1>3, <1>4, SameBytes DEF m
<1> QED
  BY <1>5 DEF t, s, n, m, ab

LEMMA SliceFirst ==
    ASSUME NEW a \in Bytes, NEW b \in Bytes, NEW from \in Nat, NEW to \in Nat,
           from <= to, to <= Len(a)
    PROVE  Slice(a \o b, from, to) = Slice(a, from, to)
<1> DEFINE s == a \o b
           t == Slice(s, from, to)
           u == Slice(a, from, to)
<1>1. /\ s \in Bytes /\ Len(a) \in Nat /\ to <= Len(s)
      /\ \A i \in 1..Len(a) : s[i] = a[i]
  BY CatElements
<1> HIDE DEF s
<1>2. /\ t \in Bytes /\ Len(t) = to - from /\ \A i \in 1..(to - from) : t[i] = s[from + i]
      /\ u \in Bytes /\ Len(u) = to - from /\ \A i \in 1..(to - from) : u[i] = a[from + i]
  BY <1>1, SliceType
<1> HIDE DEF t, u
<1>3. \A i \in 1..(to - from) : from + i \in 1..Len(a)
  BY <1>1
<1>4. t = u
  BY <1>1, <1>2, <1>3, SameBytes
<1> QED
  BY <1>4 DEF t, u, s

LEMMA DropFirst ==
    ASSUME NEW a \in Bytes, NEW b \in Bytes
    PROVE  Drop(a \o b, Len(a)) = b
<1> DEFINE e == <<>>
<1>1. e \in Bytes /\ Len(e) = 0 /\ (a \o b) \o e = a \o b
  BY DEF Bytes
<1>2. Slice(a \o b \o e, Len(a), Len(a) + Len(b)) = b
  <2> HIDE DEF e
  <2> QED
    BY <1>1, SliceMiddle
<1>3. Len(a \o b) = Len(a) + Len(b)
  BY CatElements
<1> QED
  BY <1>1, <1>2, <1>3 DEF Slice, Drop

LEMMA SliceWhole ==
    ASSUME NEW a \in Bytes, NEW b \in Bytes
    PROVE  Slice(a \o b, 0, Len(a)) = a
<1> DEFINE e == <<>>
<1>1. e \in Bytes /\ Len(e) = 0 /\ e \o a = a
  BY DEF Bytes
<1>2. Slice(e \o a \o b, Len(e), Len(e) + Len(a)) = a
  <2> HIDE DEF e
  <2> QED
    BY <1>1, SliceMiddle
<1>3. Len(a) \in Nat
  BY DEF Bytes
<1> QED
  BY <1>1, <1>2, <1>3

LEMMA SliceSecond ==
    ASSUME NEW a \in Bytes, NEW b \in Bytes, NEW from \in Nat, NEW to \in Nat,
           from <= to, to <= Len(b)
    PROVE  Slice(a \o b, Len(a) + from, Len(a) + to) = Slice(b, from, to)
<1> DEFINE s == a \o b
           n == Len(a)
           t == Slice(s, n + from, n + to)
           u == Slice(b, from, to)
<1>1. /\ s \in Bytes /\ n \in Nat /\ Len(b) \in Nat /\ Len(s) = n + Len(b)
      /\ \A i \in 1..Len(b) : s[n + i] = b[i]
  BY CatElements
<1> HIDE DEF s, n
<1>2. n + from \in Nat /\ n + to \in Nat /\ n + from <= n + to /\ n + to <= Len(s)
  BY <1>1
<1>3. /\ t \in Bytes /\ Len(t) = (n + to) - (n + from)
      /\ \A i \in 1..((n + to) - (n + from)) : t[i] = s[(n + from) + i]
  BY <1>1, <1>2, SliceType
<1>4. u \in Bytes /\ Len(u) = to - from /\ \A i \in 1..(to - from) : u[i] = b[from + i]
  BY SliceType
<1> HIDE DEF t, u
<1>5. Len(t) = to - from
  BY <1>1, <1>3
<1>6. ASSUME NEW i \in 1..(to - from) PROVE t[i] = u[i]
  <2>1. i \in 1..((n + to) - (n + from)) /\ from + i \in 1..Len(b)
        /\ (n + from) + i = n + (from + i)
    BY <1>1
  <2> QED
    BY <1>1, <1>3, <1>4, <2>1
<1>7. t = u
  BY <1>3, <1>4, <1>5, <1>6, SameBytes
<1> QED
  BY <1>7 DEF t, u, s, n

\* s is a sequence of n bytes and then one of m.
Joined(s, a, n, b, m) ==
    /\ s \in Bytes /\ Len(s) = n + m
    /\ \A i \in 1..n : s[i] = a[i]
    /\ \A i \in 1..m : s[n + i] = b[i]

LEMMA Join ==
    ASSUME NEW a \in Bytes, NEW n, n = Len(a), NEW b \in Bytes, NEW m, m = Len(b)
    PROVE  Joined(a \o b, a, n, b, m)
BY CatElements DEF Joined

LEMMA One ==
    ASSUME NEW b \in U8
    PROVE  <<b>> \in Bytes /\ Len(<<b>>) = 1 /\ <<b>>[1] = b
BY DEF Bytes

-----------------------------------------------------------------------------
(***************************************************************************)
(* Frames                                                                  *)
(***************************************************************************)
\* A Bluetooth address, and what a FrameBuilder may be given.
Addresses == {a \in Bytes : Len(a) = 6}
Frames == [kind : {"L1Only", "L2Wrapped"}, local_bt : Addresses, dest_bt : Addresses,
           control : U16s, payload : Bytes]

LEMMA HeaderShape ==
    ASSUME NEW f \in Frames, NEW total \in U16s
    PROVE  LET h == Header(total, f) IN
           /\ h \in Bytes /\ Len(h) = 18
           /\ h[1] = FRAME_DELIMITER /\ h[2] = total % 256 /\ h[3] = total \div 256
           /\ h[4] = XorByte(XorByte(FRAME_DELIMITER, h[2]), h[3])
           /\ Slice(h, 4, 10) = f.local_bt /\ Slice(h, 10, 16) = f.dest_bt
           /\ h[17] + 256 * h[18] = f.control
<1> DEFINE l == f.local_bt
           d == f.dest_bt
           c == f.control
           ck == XorByte(XorByte(FRAME_DELIMITER, total % 256), total \div 256)
           h1 == <<FRAME_DELIMITER>>
           lt == LE16(total)
           kk == <<ck>>
           lc == LE16(c)
           h2 == h1 \o lt
           h3 == h2 \o kk
           h4 == h3 \o l
           h5 == h4 \o d
           h == h5 \o lc
<1>1. l \in Bytes /\ Len(l) = 6 /\ d \in Bytes /\ Len(d) = 6 /\ c \in U16s
  BY DEF Frames, Addresses
<1>2. Header(total, f) = h
  BY DEF Header
<1>3. total \in Nat /\ c \in Nat
  <2>1. U16s \subseteq Nat
    BY U16Max DEF U16s
  <2> QED
    BY <1>1, <2>1
<1>4. /\ total % 256 \in U8 /\ total \div 256 \in U8 /\ (total \div 256) % 256 = total \div 256
      /\ c = (c % 256) + 256 * (c \div 256) /\ (c \div 256) % 256 = c \div 256
  BY <1>1, U16Halves
<1>5. FRAME_DELIMITER \in U8
  BY DEF FRAME_DELIMITER, U8
<1>6. ck \in U8
  BY <1>4, <1>5, XorBits
<1>7. h1 \in Bytes /\ Len(h1) = 1 /\ h1[1] = FRAME_DELIMITER
  BY <1>5, One
<1>8. kk \in Bytes /\ Len(kk) = 1 /\ kk[1] = ck
  <2> HIDE DEF ck
  <2> QED
    BY <1>6, One
<1>9. lt \in Bytes /\ Len(lt) = 2 /\ lt[1] = total % 256 /\ lt[2] = total \div 256
  BY <1>3, <1>4, LE16Type
<1>10. lc \in Bytes /\ Len(lc) = 2 /\ lc[1] + 256 * lc[2] = c
  BY <1>3, <1>4, LE16Type
<1> HIDE DEF l, d, c, h1, lt, kk, lc
<1>11. h2 \in Bytes /\ Len(h2) = 3 /\ h2[1] = h1[1] /\ h2[2] = lt[1] /\ h2[3] = lt[2]
  <2>1. Joined(h2, h1, 1, lt, 2)
    BY <1>7, <1>9, Join
  <2> QED
    BY <2>1 DEF Joined
<1> HIDE DEF h2
<1>12. h3 \in Bytes /\ Len(h3) = 4 /\ (\A i \in 1..3 : h3[i] = h2[i]) /\ h3[4] = kk[1]
  <2>1. Joined(h3, h2, 3, kk, 1)
    BY <1>8, <1>11, Join
  <2> QED
    BY <2>1 DEF Joined
<1> HIDE DEF h3
<1>13. h4 \in Bytes /\ Len(h4) = 10 /\ (\A i \in 1..4 : h4[i] = h3[i])
  <2>1. Joined(h4, h3, 4, l, 6)
    BY <1>1, <1>12, Join
  <2> QED
    BY <2>1 DEF Joined
<1>14. Slice(h4 \o d, 4, 10) = l
  <2>1. Slice(h3 \o l \o d, Len(h3), Len(h3) + Len(l)) = l
    BY <1>1, <1>12, SliceMiddle
  <2> QED
    BY <1>1, <1>12, <2>1
<1> HIDE DEF h4
<1>15. h5 \in Bytes /\ Len(h5) = 16 /\ (\A i \in 1..4 : h5[i] = h4[i])
  <2>1. Joined(h5, h4, 10, d, 6)
    BY <1>1, <1>13, Join
  <2> HIDE DEF h5
  <2> QED
    BY <2>1 DEF Joined
<1>16. Slice(h5 \o lc, 10, 16) = d
  <2>1. Slice(h4 \o d \o lc, Len(h4), Len(h4) + Len(d)) = d
    BY <1>1, <1>10, <1>13, SliceMiddle
  <2> QED
    BY <1>1, <1>13, <2>1
<1>17. Slice(h5, 4, 10) = l
  BY <1>14
<1> HIDE DEF h5
<1>18. Slice(h5 \o lc, 4, 10) = l
  <2> DEFINE m == 4
             n == 10
  <2>1. m \in Nat /\ n \in Nat /\ m <= n /\ n <= Len(h5)
    BY <1>15
  <2> HIDE DEF m, n
  <2>2. Slice(h5 \o lc, m, n) = Slice(h5, m, n)
    BY <1>10, <1>15, <2>1, SliceFirst
  <2> QED
    BY <1>17, <2>2 DEF m, n
<1>19. h \in Bytes /\ Len(h) = 18 /\ (\A i \in 1..4 : h[i] = h5[i]) /\ h[17] = lc[1] /\ h[18] = lc[2]
  <2>1. Joined(h, h5, 16, lc, 2)
    BY <1>10, <1>15, Join
  <2> HIDE DEF h
  <2> QED
    BY <2>1 DEF Joined
<1>20. h[17] + 256 * h[18] = c
  BY <1>10, <1>19
<1>21. Slice(h, 4, 10) = l /\ Slice(h, 10, 16) = d
  BY <1>16, <1>18
<1> HIDE DEF h, ck
<1>22. h[1] = FRAME_DELIMITER /\ h[2] = total % 256 /\ h[3] = total \div 256 /\ h[4] = ck
  BY <1>7, <1>8, <1>9, <1>11, <1>12, <1>13, <1>15, <1>19
<1>23. ck = XorByte(XorByte(FRAME_DELIMITER, h[2]), h[3])
  BY <1>22 DEF ck
<1> QED
  BY <1>2, <1>19, <1>20, <1>21, <1>22, <1>23 DEF l, d, c

\* What parse sees of a frame with this body: a header without error, the
\* addresses and the control word, and the body after it.
Framed(raw, f, body) ==
    /\ raw \in Bytes /\ Len(raw) = 18 + Len(body)
    /\ raw[1] = FRAME_DELIMITER
    /\ DeclaredLen(raw[2], raw[3]) = Len(raw)
    /\ raw[4] = XorByte(XorByte(FRAME_DELIMITER, raw[2]), raw[3])
    /\ Slice(raw, 4, 10) = f.local_bt /\ Slice(raw, 10, 16) = f.dest_bt
    /\ U16(raw, 16) = f.control
    /\ \A i \in 1..Len(body) : raw[18 + i] = body[i]
    /\ Drop(raw, 18) = body

LEMMA FrameSeen ==
    ASSUME NEW f \in Frames, NEW body \in Bytes, 18 + Len(body) \in U16s
    PROVE  Framed(Header(18 + Len(body), f) \o body, f, body)
<1> DEFINE t == 18 + Len(body)
           h == Header(t, f)
           raw == h \o body
           n == Len(body)
<1>1. t = 18 + n /\ n = Len(body) /\ n \in Nat /\ t \in U16s
  BY DEF Bytes
<1> HIDE DEF t, n
<1>2. /\ h \in Bytes /\ Len(h) = 18
      /\ h[1] = FRAME_DELIMITER /\ h[2] = t % 256 /\ h[3] = t \div 256
      /\ h[4] = XorByte(XorByte(FRAME_DELIMITER, h[2]), h[3])
      /\ Slice(h, 4, 10) = f.local_bt /\ Slice(h, 10, 16) = f.dest_bt
      /\ h[17] + 256 * h[18] = f.control
  BY <1>1, HeaderShape
<1>3. t = (t % 256) + 256 * (t \div 256)
  BY <1>1, U16Halves
<1> HIDE DEF h
<1>4. Joined(raw, h, 18, body, n)
  BY <1>1, <1>2, Join
<1>5. Drop(raw, 18) = body
  <2>1. Drop(raw, Len(h)) = body
    BY <1>2, DropFirst
  <2> QED
    BY <1>2, <2>1
<1>6. Slice(raw, 4, 10) = f.local_bt /\ Slice(raw, 10, 16) = f.dest_bt
  <2> DEFINE a == 4
             b == 10
             c == 16
  <2>1. a \in Nat /\ b \in Nat /\ c \in Nat /\ a <= b /\ b <= c /\ c <= Len(h)
    BY <1>2
  <2>2. Slice(h, a, b) = f.local_bt /\ Slice(h, b, c) = f.dest_bt
    BY <1>2
  <2> HIDE DEF a, b, c
  <2>3. h \in Bytes /\ b <= Len(h)
    BY <1>2, <2>1 DEF Bytes
  <2>4. Slice(h \o body, a, b) = Slice(h, a, b)
    BY <2>1, <2>3, SliceFirst
  <2>5. Slice(h \o body, b, c) = Slice(h, b, c)
    BY <2>1, <2>3, SliceFirst
  <2> QED
    BY <2>2, <2>4, <2>5 DEF a, b, c
<1> HIDE DEF raw
<1>7. /\ raw \in Bytes /\ Len(raw) = t
      /\ raw[1] = h[1] /\ raw[2] = h[2] /\ raw[3] = h[3] /\ raw[4] = h[4]
      /\ raw[17] = h[17] /\ raw[18] = h[18]
      /\ \A i \in 1..n : raw[18 + i] = body[i]
  BY <1>1, <1>4 DEF Joined
<1>8. U16(raw, 16) = f.control
  BY <1>2, <1>7 DEF U16
<1>9. DeclaredLen(raw[2], raw[3]) = Len(raw)
  BY <1>2, <1>3, <1>7 DEF DeclaredLen
<1>10. Framed(raw, f, body)
  BY <1>1, <1>2, <1>5, <1>6, <1>7, <1>8, <1>9 DEF Framed
<1> QED
  BY <1>10 DEF raw, h, t

LEMMA HeaderAccepted ==
    ASSUME NEW f, NEW body \in Bytes, NEW raw, Framed(raw, f, body),
           MIN_FRAME_LEN \in Nat, MIN_FRAME_LEN <= 18
    PROVE  HeaderError(raw) = "none"
<1>1. Len(body) \in Nat
  BY DEF Bytes
<1>2. ~ (Len(raw) < MIN_FRAME_LEN)
  BY <1>1 DEF Framed
<1> QED
  BY <1>2 DEF Framed, HeaderError

LEMMA CatAssociates ==
    ASSUME NEW a \in Bytes, NEW b \in Bytes, NEW c \in Bytes
    PROVE  (a \o b) \o c = a \o (b \o c)
BY ConcatAssociative DEF Bytes

LEMMA AppendCat ==
    ASSUME NEW a \in Seq(U8), NEW b \in Seq(U8), NEW e \in U8
    PROVE  a \o Append(b, e) = Append(a \o b, e)
<1>1. <<e>> \in Seq(U8)
  OBVIOUS
<1>2. Append(b, e) = b \o <<e>>
  BY AppendIsConcat
<1>3. Append(a \o b, e) = (a \o b) \o <<e>>
  BY AppendIsConcat
<1> QED
  BY <1>1, <1>2, <1>3, ConcatAssociative

\* stuff is a homomorphism.
LEMMA StuffCat ==
    ASSUME NEW a \in Bytes, NEW b \in Bytes
    PROVE  stuff(a \o b) = stuff(a) \o stuff(b)
<1> DEFINE T == {s \in Bytes : stuff(a \o s) = stuff(a) \o stuff(s)}
           none == <<>>
<1>0. stuff(a) \in Bytes
  BY StuffType
<1>1. none \in T
  <2>1. none \in Bytes /\ a \o none = a /\ stuff(none) = none /\ stuff(a) \o none = stuff(a)
    BY <1>0, StuffEmpty DEF Bytes
  <2> HIDE DEF none
  <2> QED
    BY <2>1
<1>2. ASSUME NEW s \in Seq(U8), NEW e \in U8, s \in T PROVE Append(s, e) \in T
  <2> DEFINE x == stuff(a)
             y == stuff(s)
             z == Escape(e)
  <2>1. s \in Bytes /\ Append(s, e) \in Bytes /\ a \o Append(s, e) = Append(a \o s, e)
    BY <1>2, AppendCat DEF Bytes
  <2>2. a \o s \in Bytes
    BY <2>1, CatElements
  <2>3. stuff(Append(a \o s, e)) = stuff(a \o s) \o z /\ stuff(Append(s, e)) = y \o z
    BY <2>1, <2>2, StuffAppend
  <2>4. stuff(a \o s) = x \o y
    BY <1>2
  <2>5. y \in Bytes /\ z \in Bytes
    BY <2>1, StuffType, EscapeType
  <2> HIDE DEF x, y, z
  <2>6. (x \o y) \o z = x \o (y \o z)
    BY <1>0, <2>5, CatAssociates DEF x
  <2> QED
    BY <2>1, <2>3, <2>4, <2>6 DEF x
<1> HIDE DEF T, none
<1>3. \A s \in Seq(U8) : s \in T
  BY <1>1, <1>2, SeqSetInduction DEF none
<1> QED
  BY <1>3 DEF T, Bytes

LEMMA SplitAt ==
    ASSUME NEW s \in Bytes, NEW k \in Nat, k <= Len(s)
    PROVE  /\ Slice(s, 0, k) \in Bytes /\ Drop(s, k) \in Bytes
           /\ s = Slice(s, 0, k) \o Drop(s, k)
           /\ Len(Slice(s, 0, k)) = k /\ Len(Drop(s, k)) = Len(s) - k
<1> DEFINE a == Slice(s, 0, k)
           b == Drop(s, k)
           n == Len(s)
           c == a \o b
<1>0. n \in Nat /\ n = Len(s) /\ k <= n /\ n <= Len(s)
  BY DEF Bytes
<1>1. a \in Bytes /\ Len(a) = k /\ \A i \in 1..k : a[i] = s[i]
  <2> DEFINE z == 0
  <2>1. z \in Nat /\ z <= k
    OBVIOUS
  <2> HIDE DEF z
  <2>2. /\ Slice(s, z, k) \in Bytes /\ Len(Slice(s, z, k)) = k - z
        /\ \A i \in 1..(k - z) : Slice(s, z, k)[i] = s[z + i]
    BY <2>1, SliceType
  <2> QED
    BY <2>2 DEF z
<1>2. b \in Bytes /\ Len(b) = n - k /\ \A i \in 1..(n - k) : b[i] = s[k + i]
  <2>1. b = Slice(s, k, n)
    BY DEF Slice, Drop
  <2> HIDE DEF b, n
  <2>2. /\ Slice(s, k, n) \in Bytes /\ Len(Slice(s, k, n)) = n - k
        /\ \A i \in 1..(n - k) : Slice(s, k, n)[i] = s[k + i]
    BY <1>0, SliceType
  <2> QED
    BY <2>1, <2>2
<1> HIDE DEF a, b, n
<1>3. n - k \in Nat
  BY <1>0
<1>4. Joined(c, a, k, b, n - k)
  BY <1>1, <1>2, Join
<1> HIDE DEF c
<1>5. c \in Bytes /\ Len(c) = n
  BY <1>0, <1>4 DEF Joined
<1>6. ASSUME NEW i \in 1..n PROVE s[i] = c[i]
  <2>1. CASE i <= k
    BY <1>1, <1>4, <2>1 DEF Joined
  <2>2. CASE ~ (i <= k)
    <3>1. i - k \in 1..(n - k) /\ k + (i - k) = i
      BY <1>0, <2>2
    <3> QED
      BY <1>2, <1>4, <3>1 DEF Joined
  <2> QED
    BY <2>1, <2>2
<1>7. s = c
  BY <1>0, <1>5, <1>6, SameBytes
<1> QED
  BY <1>0, <1>1, <1>2, <1>7 DEF a, b, n, c

\* The payload of an L2 packet starts with the signature.
Signed(p) == Len(p) >= 4 /\ Slice(p, 0, 4) = BT_L2_SIGNATURE

\* The signature needs no escapes.
LEMMA StuffSignature ==
    BT_L2_SIGNATURE \in Bytes /\ Len(BT_L2_SIGNATURE) = 4 /\ stuff(BT_L2_SIGNATURE) = BT_L2_SIGNATURE
<1> DEFINE s0 == <<>>
           s1 == <<\hFF>>
           s2 == <<\hFF, \h03>>
           s3 == <<\hFF, \h03, \h60>>
           s4 == <<\hFF, \h03, \h60, \h65>>
<1>1. s0 \in Bytes /\ s1 \in Bytes /\ s2 \in Bytes /\ s3 \in Bytes /\ s4 \in Bytes
  BY DEF Bytes, U8
<1>2. s1 = Append(s0, \hFF) /\ s2 = Append(s1, \h03) /\ s3 = Append(s2, \h60) /\ s4 = Append(s3, \h65)
  OBVIOUS
<1>3. \A b \in {\hFF, \h03, \h60, \h65} : Escape(b) = <<b>> /\ b \in U8
  BY DEF Escape, STUFF_BYTES, U8
<1>4. \A s \in Bytes, b \in {\hFF, \h03, \h60, \h65} : s \o <<b>> = Append(s, b)
  BY <1>3, AppendIsConcat DEF Bytes
<1>5. ASSUME NEW s \in Bytes, NEW b \in {\hFF, \h03, \h60, \h65}, stuff(s) = s
      PROVE  stuff(Append(s, b)) = Append(s, b)
  <2>1. b \in U8 /\ Escape(b) = <<b>>
    BY <1>3
  <2>2. stuff(Append(s, b)) = stuff(s) \o Escape(b)
    BY <2>1, StuffAppend
  <2> QED
    BY <1>4, <1>5, <2>1, <2>2
<1>6. stuff(s0) = s0
  BY StuffEmpty
<1> HIDE DEF s0, s1, s2, s3, s4
<1>7. stuff(s4) = s4
  <2>1. stuff(Append(s0, \hFF)) = Append(s0, \hFF)
    BY <1>1, <1>5, <1>6
  <2>2. stuff(Append(s1, \h03)) = Append(s1, \h03)
    <3>1. stuff(s1) = s1
      BY <1>2, <2>1
    <3> QED
      BY <1>1, <1>5, <3>1
  <2>3. stuff(Append(s2, \h60)) = Append(s2, \h60)
    <3>1. stuff(s2) = s2
      BY <1>2, <2>2
    <3> QED
      BY <1>1, <1>5, <3>1
  <2>4. stuff(Append(s3, \h65)) = Append(s3, \h65)
    <3>1. stuff(s3) = s3
      BY <1>2, <2>3
    <3> QED
      BY <1>1, <1>5, <3>1
  <2> QED
    BY <1>2, <2>4
<1>8. BT_L2_SIGNATURE = s4 /\ Len(s4) = 4
  BY DEF BT_L2_SIGNATURE, s4
<1> QED
  BY <1>1, <1>7, <1>8

LEMMA StuffSigned ==
    ASSUME NEW p \in Bytes, Signed(p)
    PROVE  Signed(stuff(p))
<1> DEFINE r == Drop(p, 4)
           q == stuff(r)
<1>1. r \in Bytes /\ p = BT_L2_SIGNATURE \o r
  <2> DEFINE k == 4
  <2>1. k \in Nat /\ k <= Len(p)
    BY DEF Signed, Bytes
  <2>2. Slice(p, 0, k) = BT_L2_SIGNATURE
    BY DEF Signed
  <2> HIDE DEF k
  <2>3. Drop(p, k) \in Bytes /\ p = Slice(p, 0, k) \o Drop(p, k)
    BY <2>1, SplitAt
  <2> QED
    BY <2>2, <2>3 DEF k
<1>2. q \in Bytes
  BY <1>1, StuffType
<1>3. stuff(p) = BT_L2_SIGNATURE \o q
  BY <1>1, StuffCat, StuffSignature
<1> HIDE DEF r, q
<1>4. Slice(BT_L2_SIGNATURE \o q, 0, Len(BT_L2_SIGNATURE)) = BT_L2_SIGNATURE
  BY <1>2, SliceWhole, StuffSignature
<1>5. Len(BT_L2_SIGNATURE \o q) >= 4
  <2> DEFINE g == BT_L2_SIGNATURE
  <2>1. g \in Bytes /\ Len(g) = 4
    BY StuffSignature
  <2> HIDE DEF g
  <2>2. Len(g \o q) = Len(g) + Len(q) /\ Len(q) \in Nat
    BY <1>2, <2>1, CatElements
  <2> QED
    BY <2>1, <2>2 DEF g
<1> QED
  BY <1>3, <1>4, <1>5, StuffSignature DEF Signed

LEMMA FramedSlice ==
    ASSUME NEW f, NEW body \in Bytes, NEW raw, Framed(raw, f, body),
           NEW from \in Nat, NEW to \in Nat, from <= to, to <= Len(body)
    PROVE  Slice(raw, 18 + from, 18 + to) = Slice(body, from, to)
<1> DEFINE n == 18 + from
           m == 18 + to
           t == Slice(raw, n, m)
           u == Slice(body, from, to)
<1>1. raw \in Bytes /\ Len(raw) = 18 + Len(body) /\ \A i \in 1..Len(body) : raw[18 + i] = body[i]
  BY DEF Framed
<1>2. Len(body) \in Nat
  BY DEF Bytes
<1>3. n \in Nat /\ m \in Nat /\ n <= m /\ m <= Len(raw) /\ m - n = to - from
  BY <1>1, <1>2
<1>4. u \in Bytes /\ Len(u) = to - from /\ \A i \in 1..(to - from) : u[i] = body[from + i]
  BY SliceType
<1> HIDE DEF n, m
<1>5. t \in Bytes /\ Len(t) = m - n /\ \A i \in 1..(m - n) : t[i] = raw[n + i]
  BY <1>1, <1>3, SliceType
<1> HIDE DEF t, u
<1>6. ASSUME NEW i \in 1..(to - from) PROVE t[i] = u[i]
  <2>1. from + i \in 1..Len(body) /\ n + i = 18 + (from + i)
    BY <1>2 DEF n
  <2> QED
    BY <1>1, <1>3, <1>4, <1>5, <2>1
<1>7. t = u
  BY <1>3, <1>4, <1>5, <1>6, SameBytes
<1> QED
  BY <1>7 DEF t, u, n, m

\* Where parse finds the signature.
LEMMA SignatureFirst ==
    ASSUME NEW f, NEW body \in Bytes, NEW raw, Framed(raw, f, body)
    PROVE  SignatureAt(raw, 18) <=> Signed(body)
<1> DEFINE n == Len(body)
           z == 0
           k == 4
<1>1. n \in Nat /\ Len(raw) = 18 + n /\ n = Len(body)
  BY DEF Framed, Bytes
<1>2. Len(raw) >= 18 + 4 <=> n >= k
  BY <1>1
<1>3. ASSUME n >= k PROVE Slice(raw, 18, 22) = Slice(body, 0, 4)
  <2>1. z \in Nat /\ k \in Nat /\ z <= k /\ k <= n /\ 18 + z = 18 /\ 18 + k = 22
    BY <1>1, <1>3
  <2> HIDE DEF z, k
  <2>2. Slice(raw, 18 + z, 18 + k) = Slice(body, z, k)
    BY <2>1, FramedSlice
  <2> QED
    BY <2>1, <2>2 DEF z, k
<1>4. SignatureAt(raw, 18) <=> Len(raw) >= 18 + 4 /\ Slice(raw, 18, 22) = BT_L2_SIGNATURE
  BY DEF SignatureAt
<1> HIDE DEF n
<1> QED
  BY <1>1, <1>2, <1>3, <1>4 DEF Signed

LEMMA SignatureSecond ==
    ASSUME NEW f, NEW body \in Bytes, NEW raw, Framed(raw, f, body)
    PROVE  SignatureAt(raw, 19)
           <=> Len(body) >= 5 /\ body[1] = FRAME_DELIMITER /\ Slice(body, 1, 5) = BT_L2_SIGNATURE
<1> DEFINE n == Len(body)
           z == 1
           k == 5
<1>1. n \in Nat /\ Len(raw) = 18 + n /\ n = Len(body)
  BY DEF Framed, Bytes
<1>2. Len(raw) >= 19 + 4 <=> n >= k
  BY <1>1
<1>3. ASSUME n >= k PROVE Slice(raw, 19, 23) = Slice(body, 1, 5)
  <2>1. z \in Nat /\ k \in Nat /\ z <= k /\ k <= n /\ 18 + z = 19 /\ 18 + k = 23
    BY <1>1, <1>3
  <2> HIDE DEF z, k
  <2>2. Slice(raw, 18 + z, 18 + k) = Slice(body, z, k)
    BY <2>1, FramedSlice
  <2> QED
    BY <2>1, <2>2 DEF z, k
<1>4. ASSUME n >= k PROVE raw[19] = body[1]
  <2>1. 1 \in 1..n /\ 18 + 1 = 19
    BY <1>1, <1>4
  <2>2. \A i \in 1..n : raw[18 + i] = body[i]
    BY DEF Framed
  <2>3. raw[18 + 1] = body[1]
    BY <2>1, <2>2
  <2> QED
    BY <2>3
<1>5. SignatureAt(raw, 19) <=> /\ Len(raw) >= 19 + 4 /\ raw[19] = FRAME_DELIMITER
                               /\ Slice(raw, 19, 23) = BT_L2_SIGNATURE
  BY DEF SignatureAt
<1> HIDE DEF n
<1> QED
  BY <1>1, <1>2, <1>3, <1>4, <1>5

\* The checksum is cut off.
LEMMA Stripped ==
    ASSUME NEW p \in Bytes
    PROVE  StripFcs(unstuff(stuff(p \o LE16(compute(p))))) = Ok(p)
<1> DEFINE c == LE16(compute(p))
           s == p \o c
           u == Ok(s)
<1>1. c \in Bytes /\ Len(c) = 2
  <2>1. U16s \subseteq Nat
    BY U16Max DEF U16s
  <2> QED
    BY <2>1, ComputeType, LE16Type
<1> HIDE DEF c
<1>2. s \in Bytes /\ Len(s) = Len(p) + 2 /\ Len(p) \in Nat
  <2>1. s \in Bytes /\ Len(s) = Len(p) + Len(c) /\ Len(p) \in Nat
    BY <1>1, CatElements
  <2> HIDE DEF s
  <2> QED
    BY <1>1, <2>1
<1>3. Slice(s, 0, Len(p)) = p
  BY <1>1, SliceWhole
<1> HIDE DEF s
<1>4. unstuff(stuff(s)) = u
  BY <1>2, UnstuffStuff
<1>5. u.tag = "ok" /\ u.val = s
  BY DEF Ok
<1>6. Len(s) - 2 = Len(p) /\ ~ (Len(s) < 2)
  BY <1>2
<1>7. StripFcs(u) = Ok(p)
  BY <1>3, <1>5, <1>6 DEF StripFcs
<1> QED
  BY <1>4, <1>7 DEF s, c

\* The body of an L2-wrapped frame: the stuffed payload and FCS.
Stuffed(p) == stuff(p \o LE16(compute(p)))

Delimiter == <<FRAME_DELIMITER>>

LEMMA DelimiterType ==
    Delimiter \in Bytes /\ Len(Delimiter) = 1 /\ Delimiter[1] = FRAME_DELIMITER
BY One DEF Delimiter, FRAME_DELIMITER, U8

EndsStuffed(raw, f, pre, p) ==
    Stuffed(p) \in Bytes /\ Framed(raw, f, pre \o Stuffed(p) \o Delimiter)

\* The payload of a frame with a trailer, behind a separator or not, and of a
\* push.
LEMMA Trailed ==
    ASSUME NEW f, NEW raw, NEW p \in Bytes, NEW pre \in Bytes, EndsStuffed(raw, f, pre, p)
    PROVE  L2Payload(raw, 18 + Len(pre)) = Ok(p)
<1> DEFINE s == Stuffed(p)
           off == 18 + Len(pre)
           e == Delimiter
           body == pre \o s \o e
           n == Len(pre)
           m == Len(s)
           ps == pre \o s
<1>1. e \in Bytes /\ Len(e) = 1 /\ e[1] = FRAME_DELIMITER
  BY DelimiterType
<1>0. s \in Bytes
  BY DEF EndsStuffed
<1> HIDE DEF e, s
<1>2. ps \in Bytes /\ Len(ps) = n + m /\ n \in Nat /\ m \in Nat
  BY <1>0, CatElements
<1>3. Slice(body, n, n + m) = s
  BY <1>0, <1>1, SliceMiddle
<1> HIDE DEF ps
<1>4. Joined(ps \o e, ps, n + m, e, 1)
  BY <1>1, <1>2, Join
<1>5. body = ps \o e
  BY DEF ps
<1> HIDE DEF body, n, m
<1>6. body \in Bytes /\ Len(body) = n + m + 1 /\ body[n + m + 1] = FRAME_DELIMITER
  <2>1. Joined(body, ps, n + m, e, 1) /\ 1 \in 1..1
    BY <1>4, <1>5
  <2> QED
    BY <1>1, <2>1 DEF Joined
<1>7. Framed(raw, f, body)
  BY DEF EndsStuffed, body, e, s
<1>8. raw \in Bytes /\ Len(raw) = 18 + (n + m + 1) /\ raw[18 + (n + m + 1)] = FRAME_DELIMITER
  <2> DEFINE k == n + m + 1
  <2>1. k \in 1..Len(body) /\ k = Len(body)
    BY <1>2, <1>6
  <2> QED
    BY <1>6, <1>7, <2>1 DEF Framed
<1>9. Last(raw) = FRAME_DELIMITER
  BY <1>8 DEF Last
<1>10. Slice(raw, off, Len(raw) - 1) = s
  <2>1. n <= n + m /\ n + m <= Len(body) /\ n + m \in Nat
    BY <1>2, <1>6
  <2>2. Slice(raw, 18 + n, 18 + (n + m)) = s
    BY <1>2, <1>3, <1>6, <1>7, <2>1, FramedSlice
  <2>3. Len(raw) - 1 = 18 + (n + m) /\ off = 18 + n
    BY <1>2, <1>8 DEF n
  <2> QED
    BY <2>2, <2>3
<1> QED
  BY <1>9, <1>10, Stripped DEF L2Payload, Stuffed, s

LEMMA Untrailed ==
    ASSUME NEW f, NEW raw, NEW p \in Bytes, p # <<>>, Framed(raw, f, stuff(p))
    PROVE  L2Payload(raw, 18) = Ok(p)
<1> DEFINE s == stuff(p)
           n == Len(s)
<1>1. s \in Bytes /\ s \in Seq(Clean) /\ n \in Nat /\ n >= Len(p) /\ Len(p) \in Nat
  BY StuffType DEF Bytes
<1>2. Len(p) # 0
  BY EmptySeq DEF Bytes
<1>3. unstuff(s) = Ok(p)
  BY UnstuffStuff
<1> HIDE DEF s
<1>4. n \in 1..n /\ s[n] \in Clean
  BY <1>1, <1>2
<1>5. Len(raw) = 18 + n /\ raw[18 + n] = s[n] /\ Drop(raw, 18) = s
  BY <1>4 DEF Framed, s
<1>6. Last(raw) # FRAME_DELIMITER
  BY <1>4, <1>5 DEF Last, Clean, FRAME_DELIMITER
<1> QED
  BY <1>3, <1>5, <1>6 DEF L2Payload

\* parse of a frame, once the offset of the signature is known.
Parsed(f, kind, payload) == Ok(Frame(kind, f.local_bt, f.dest_bt, f.control, payload))

LEMMA ParseFramed ==
    ASSUME NEW f, NEW body \in Bytes, NEW raw, Framed(raw, f, body),
           MIN_FRAME_LEN \in Nat, MIN_FRAME_LEN <= 18
    PROVE  /\ ~ SignatureAt(raw, 18) /\ ~ SignatureAt(raw, 19)
                => parse(raw) = Parsed(f, "L1Only", body)
           /\ \A p : SignatureAt(raw, 18) /\ L2Payload(raw, 18) = Ok(p)
                => parse(raw) = Parsed(f, "L2Wrapped", p)
           /\ \A p : /\ ~ SignatureAt(raw, 18) /\ SignatureAt(raw, 19)
                     /\ L2Payload(raw, 19) = Ok(p)
                => parse(raw) = Parsed(f, "L2Wrapped", p)
<1> DEFINE sigs == {off \in {18, 19} : SignatureAt(raw, off)}
           b == IF sigs = {} THEN Ok(Drop(raw, 18)) ELSE L2Payload(raw, Min(sigs))
<1>1. HeaderError(raw) = "none"
  BY HeaderAccepted
<1>2. /\ Slice(raw, 4, 10) = f.local_bt /\ Slice(raw, 10, 16) = f.dest_bt
      /\ U16(raw, 16) = f.control /\ Drop(raw, 18) = body
  BY DEF Framed
<1>3. \A p : Ok(p).tag = "ok" /\ Ok(p).val = p
  BY DEF Ok
<1>4. ASSUME b.tag # "err"
      PROVE  parse(raw) = Parsed(f, IF sigs = {} THEN "L1Only" ELSE "L2Wrapped", b.val)
  BY <1>1, <1>2, <1>4 DEF parse, Parsed
<1>5. ASSUME ~ SignatureAt(raw, 18), ~ SignatureAt(raw, 19)
      PROVE  parse(raw) = Parsed(f, "L1Only", body)
  <2>1. sigs = {}
    BY <1>5
  <2> HIDE DEF sigs
  <2>2. b = Ok(body)
    BY <1>2, <2>1
  <2> HIDE DEF b
  <2> QED
    BY <1>3, <1>4, <2>1, <2>2
<1>6. ASSUME NEW p, SignatureAt(raw, 18), L2Payload(raw, 18) = Ok(p)
      PROVE  parse(raw) = Parsed(f, "L2Wrapped", p)
  <2>1. sigs # {}
    BY <1>6
  <2>2. Min(sigs) = 18
    <3>1. 18 \in sigs /\ \A y \in sigs : 18 <= y
      BY <1>6
    <3>2. \A x \in sigs : x \in {18, 19}
      OBVIOUS
    <3> HIDE DEF sigs
    <3>3. \A x \in sigs : (\A y \in sigs : x <= y) => x = 18
      BY <3>1, <3>2
    <3> QED
      BY <3>1, <3>3 DEF Min
  <2> HIDE DEF sigs
  <2>3. b = Ok(p)
    BY <1>6, <2>1, <2>2
  <2> HIDE DEF b
  <2> QED
    BY <1>3, <1>4, <2>1, <2>3
<1>7. ASSUME NEW p, ~ SignatureAt(raw, 18), SignatureAt(raw, 19), L2Payload(raw, 19) = Ok(p)
      PROVE  parse(raw) = Parsed(f, "L2Wrapped", p)
  <2>1. sigs # {}
    BY <1>7
  <2>2. Min(sigs) = 19
    <3>1. sigs = {19}
      BY <1>7
    <3> HIDE DEF sigs
    <3> QED
      BY <3>1 DEF Min
  <2> HIDE DEF sigs
  <2>3. b = Ok(p)
    BY <1>7, <2>1, <2>2
  <2> HIDE DEF b
  <2> QED
    BY <1>3, <1>4, <2>1, <2>3
<1> QED
  BY <1>5, <1>6, <1>7

LEMMA StuffedType ==
    ASSUME NEW p \in Bytes
    PROVE  /\ Stuffed(p) \in Bytes /\ Stuffed(p) \in Seq(Clean)
           /\ Len(Stuffed(p)) \in Nat /\ Len(Stuffed(p)) <= 2 * Len(p) + 4
           /\ Len(Stuffed(p)) >= Len(p) + 2 /\ Len(p) \in Nat
           /\ Signed(p) => Signed(Stuffed(p))
<1> DEFINE c == LE16(compute(p))
           s == p \o c
<1>1. c \in Bytes /\ Len(c) = 2
  <2>1. U16s \subseteq Nat
    BY U16Max DEF U16s
  <2> QED
    BY <2>1, ComputeType, LE16Type
<1> HIDE DEF c
<1>2. s \in Bytes /\ Len(s) = Len(p) + Len(c) /\ Len(p) \in Nat
  BY <1>1, CatElements
<1>3. Signed(p) => Signed(s)
  <2>1. SUFFICES ASSUME Len(p) >= 4, Slice(p, 0, 4) = BT_L2_SIGNATURE PROVE Signed(s)
    BY DEF Signed
  <2> DEFINE z == 0
             k == 4
  <2>2. z \in Nat /\ k \in Nat /\ z <= k /\ k <= Len(p)
    BY <1>2, <2>1
  <2> HIDE DEF z, k
  <2>3. Slice(s, z, k) = Slice(p, z, k)
    BY <1>1, <2>2, SliceFirst
  <2> HIDE DEF s
  <2>4. Len(s) >= 4
    BY <1>1, <1>2, <2>1
  <2> QED
    BY <2>1, <2>3, <2>4 DEF Signed, z, k
<1> HIDE DEF s
<1>4. Stuffed(p) = stuff(s)
  BY DEF Stuffed, s, c
<1>5. stuff(s) \in Bytes /\ stuff(s) \in Seq(Clean) /\ Len(stuff(s)) \in Len(s)..(2 * Len(s))
  BY <1>2, StuffType
<1>6. Signed(s) => Signed(stuff(s))
  BY <1>2, StuffSigned
<1>7. Len(s) = Len(p) + 2
  BY <1>1, <1>2
<1> QED
  BY <1>2, <1>3, <1>4, <1>5, <1>6, <1>7

\* The body of a frame with separator and trailer.
LEMMA Wrapped ==
    ASSUME NEW f \in Frames, NEW s \in Bytes, Len(s) + 20 \in U16s
    PROVE  /\ Delimiter \o s \o Delimiter \in Bytes
           /\ Len(Delimiter \o s \o Delimiter) = Len(s) + 2
           /\ Framed(Wrap(f, s), f, Delimiter \o s \o Delimiter)
<1> DEFINE d == Delimiter
           ds == d \o s
           body == ds \o d
           h == Header(18 + 1 + Len(s) + 1, f)
           t == 18 + Len(body)
<1>1. d \in Bytes /\ Len(d) = 1
  BY DelimiterType
<1>2. ds \in Bytes /\ Len(ds) = Len(s) + 1 /\ Len(s) \in Nat
  <2>1. ds \in Bytes /\ Len(ds) = Len(d) + Len(s) /\ Len(s) \in Nat
    BY <1>1, CatElements
  <2> HIDE DEF d, ds
  <2> QED
    BY <1>1, <2>1
<1>3. body \in Bytes /\ Len(body) = Len(s) + 2
  <2> HIDE DEF d, ds
  <2>1. body \in Bytes /\ Len(body) = Len(ds) + Len(d)
    BY <1>1, <1>2, CatElements
  <2> HIDE DEF body
  <2> QED
    BY <1>1, <1>2, <2>1
<1> HIDE DEF d
<1>4. 18 + 1 + Len(s) + 1 = Len(s) + 20 /\ 18 + Len(body) = Len(s) + 20
  <2> HIDE DEF body
  <2> QED
    BY <1>2, <1>3
<1>5. h \in Bytes
  <2> DEFINE u == Len(s) + 20
  <2>1. u \in U16s /\ h = Header(u, f)
    BY <1>4
  <2> HIDE DEF u, h
  <2> QED
    BY <2>1, HeaderShape
<1>6. Framed(Header(t, f) \o body, f, body)
  <2> HIDE DEF body
  <2> QED
    BY <1>3, <1>4, FrameSeen
<1>7. Header(t, f) = h
  BY <1>4
<1> HIDE DEF h, t
<1>8. Wrap(f, s) = ((h \o d) \o s) \o d
  BY DEF Wrap, h, d, Delimiter
<1>9. (h \o d) \o s = h \o ds
  BY <1>1, <1>5, CatAssociates
<1> HIDE DEF ds
<1>10. (h \o ds) \o d = h \o body
  BY <1>1, <1>2, <1>5, CatAssociates
<1> HIDE DEF body
<1>11. Framed(Wrap(f, s), f, body)
  BY <1>6, <1>7, <1>8, <1>9, <1>10
<1> QED
  BY <1>3, <1>11 DEF body, ds, d

\* What stands where in such a body.
LEMMA WrappedEnds ==
    ASSUME NEW s \in Bytes, NEW n, n = Len(s), NEW body, body = Delimiter \o s \o Delimiter
    PROVE  /\ n \in Nat /\ body \in Bytes /\ Len(body) = n + 2
           /\ body[1] = FRAME_DELIMITER /\ body[n + 2] = FRAME_DELIMITER
           /\ Slice(body, 1, n + 1) = s
<1> DEFINE d == Delimiter
           sd == s \o d
           m == n + 1
<1>1. d \in Bytes /\ Len(d) = 1 /\ d[1] = FRAME_DELIMITER /\ 1 \in 1..1 /\ n \in Nat
  BY DelimiterType DEF Bytes
<1> HIDE DEF d
<1>2. Slice(body, 1, n + 1) = s
  <2>1. Slice(d \o s \o d, Len(d), Len(d) + Len(s)) = s
    BY <1>1, SliceMiddle
  <2>2. Len(d) + Len(s) = n + 1
    BY <1>1
  <2> QED
    BY <1>1, <2>1, <2>2 DEF d
<1>3. body = d \o sd
  BY <1>1, CatAssociates DEF d
<1>4. Joined(sd, s, n, d, 1)
  BY <1>1, Join
<1>5. Len(sd) = m /\ sd \in Bytes /\ sd[m] = FRAME_DELIMITER
  BY <1>1, <1>4 DEF Joined
<1>6. m \in 1..m /\ 1 + m = n + 2
  BY <1>1
<1> HIDE DEF sd, m
<1>7. Joined(d \o sd, d, 1, sd, m)
  BY <1>1, <1>5, Join
<1>8. Joined(body, d, 1, sd, m)
  BY <1>3, <1>7
<1>9. body \in Bytes /\ Len(body) = n + 2 /\ body[1] = FRAME_DELIMITER
  BY <1>1, <1>6, <1>8 DEF Joined
<1>10. body[1 + m] = FRAME_DELIMITER
  BY <1>5, <1>6, <1>8 DEF Joined
<1> QED
  BY <1>1, <1>2, <1>6, <1>9, <1>10

\* The three shapes of an L2-wrapped frame.
LEMMA ParseSeparator ==
    ASSUME NEW f \in Frames, Signed(f.payload), Len(Stuffed(f.payload)) + 20 \in U16s,
           MIN_FRAME_LEN \in Nat, MIN_FRAME_LEN <= 18
    PROVE  parse(Wrap(f, Stuffed(f.payload))) = Parsed(f, "L2Wrapped", f.payload)
<1> DEFINE p == f.payload
           s == Stuffed(p)
           d == Delimiter
           body == d \o s \o d
           raw == Wrap(f, s)
<1>1. p \in Bytes
  BY DEF Frames
<1>2. s \in Bytes /\ Signed(s) /\ Len(s) \in Nat
  BY <1>1, StuffedType
<1>3. s = Stuffed(p)
  OBVIOUS
<1> HIDE DEF s, p
<1>4. d \in Bytes /\ Len(d) = 1 /\ d[1] = FRAME_DELIMITER
  BY DelimiterType
<1>5. body \in Bytes /\ Len(body) = Len(s) + 2 /\ Framed(raw, f, body)
  BY <1>2, Wrapped DEF s, p
<1> HIDE DEF d, raw
<1>6. L2Payload(raw, 19) = Ok(p)
  <2>1. 19 = 18 + Len(d)
    BY <1>4
  <2>2. EndsStuffed(raw, f, d, p)
    BY <1>2, <1>3, <1>5 DEF d, EndsStuffed
  <2>3. L2Payload(raw, 18 + Len(d)) = Ok(p)
    BY <1>1, <1>4, <2>2, Trailed
  <2> QED
    BY <2>1, <2>3
<1>7. body[1] = FRAME_DELIMITER /\ Slice(body, 1, 5) = BT_L2_SIGNATURE /\ Len(body) >= 5
  <2> DEFINE sd == s \o d
             z == 0
             k == 4
  <2>1. body = d \o sd
    BY <1>2, <1>4, CatAssociates
  <2>2. sd \in Bytes /\ Len(sd) = Len(s) + Len(d)
    BY <1>2, <1>4, CatElements
  <2>3. z \in Nat /\ k \in Nat /\ z <= k /\ k <= Len(s)
    BY <1>2 DEF Signed
  <2>4. Slice(s, z, k) = BT_L2_SIGNATURE
    BY <1>2 DEF Signed
  <2> HIDE DEF z, k
  <2>5. Slice(sd, z, k) = Slice(s, z, k)
    BY <1>2, <1>4, <2>3, SliceFirst
  <2> HIDE DEF sd
  <2>6. k <= Len(sd)
    BY <1>2, <1>4, <2>2, <2>3
  <2>7. Slice(d \o sd, Len(d) + z, Len(d) + k) = Slice(sd, z, k)
    BY <1>4, <2>2, <2>3, <2>6, SliceSecond
  <2>8. Joined(d \o sd, d, 1, sd, Len(sd))
    BY <1>4, <2>2, Join
  <2>9. Len(d) + z = 1 /\ Len(d) + k = 5
    BY <1>4 DEF z, k
  <2> HIDE DEF body
  <2>10. body[1] = d[1]
    <3>1. Joined(body, d, 1, sd, Len(sd)) /\ 1 \in 1..1
      BY <2>1, <2>8
    <3> QED
      BY <3>1 DEF Joined
  <2>11. Len(body) >= 5
    BY <1>2, <1>5 DEF Signed
  <2> QED
    BY <1>4, <2>1, <2>4, <2>5, <2>7, <2>9, <2>10, <2>11
<1> HIDE DEF body
<1>8. SignatureAt(raw, 19)
  BY <1>5, <1>7, SignatureSecond
<1>9. ~ SignatureAt(raw, 18)
  <2>1. SUFFICES ASSUME Signed(body) PROVE FALSE
    BY <1>5, SignatureFirst
  <2>2. Slice(body, 0, 4)[1] = body[1]
    <3> DEFINE z == 0
               k == 4
    <3>1. z \in Nat /\ k \in Nat /\ z <= k /\ k <= Len(body) /\ 1 \in 1..(k - z) /\ z + 1 = 1
      BY <2>1 DEF Signed
    <3> HIDE DEF z, k
    <3>2. Slice(body, z, k)[1] = body[z + 1]
      BY <1>5, <3>1, SliceType
    <3> QED
      BY <3>1, <3>2 DEF z, k
  <2>3. BT_L2_SIGNATURE[1] = 255
    BY DEF BT_L2_SIGNATURE
  <2> QED
    BY <1>7, <2>1, <2>2, <2>3 DEF Signed, FRAME_DELIMITER
<1>10. parse(raw) = Parsed(f, "L2Wrapped", p)
  BY <1>5, <1>6, <1>8, <1>9, ParseFramed
<1> QED
  BY <1>10 DEF raw, s, p

LEMMA ParsePlain ==
    ASSUME NEW f \in Frames, Signed(f.payload), NEW s, s = Stuffed(f.payload),
           Len(s) + 19 \in U16s, MIN_FRAME_LEN \in Nat, MIN_FRAME_LEN <= 18
    PROVE  /\ Framed(Header(18 + Len(s) + 1, f) \o s \o Delimiter, f, s \o Delimiter)
           /\ s \o Delimiter \in Bytes
           /\ parse(Header(18 + Len(s) + 1, f) \o s \o Delimiter)
                = Parsed(f, "L2Wrapped", f.payload)
<1> DEFINE p == f.payload
           d == Delimiter
           e == <<>>
           body == s \o d
           t == 18 + Len(body)
           h == Header(18 + Len(s) + 1, f)
           raw == (h \o s) \o d
<1>1. p \in Bytes
  BY DEF Frames
<1>2. s \in Bytes /\ Signed(s) /\ Len(s) \in Nat
  BY <1>1, StuffedType
<1>3. s = Stuffed(p)
  OBVIOUS
<1>4. d \in Bytes /\ Len(d) = 1
  BY DelimiterType
<1>5. e \in Bytes /\ Len(e) = 0 /\ e \o s = s
  BY <1>2 DEF Bytes
<1> HIDE DEF p, d, e
<1>6. body \in Bytes /\ Len(body) = Len(s) + Len(d)
  BY <1>2, <1>4, CatElements
<1> HIDE DEF body
<1>7. 18 + Len(s) + 1 = Len(s) + 19 /\ 18 + Len(body) = Len(s) + 19
  BY <1>2, <1>4, <1>6
<1>8. h \in Bytes
  <2> DEFINE u == Len(s) + 19
  <2>1. u \in U16s /\ h = Header(u, f)
    BY <1>7
  <2> HIDE DEF u, h
  <2> QED
    BY <2>1, HeaderShape
<1>9. Framed(Header(t, f) \o body, f, body)
  BY <1>6, <1>7, FrameSeen
<1>10. Header(t, f) = h
  BY <1>7
<1> HIDE DEF h, t
<1>11. raw = h \o body
  BY <1>2, <1>4, <1>8, CatAssociates DEF body
<1>12. Framed(raw, f, body)
  BY <1>9, <1>10, <1>11
<1> HIDE DEF raw
<1>13. L2Payload(raw, 18) = Ok(p)
  <2>1. 18 = 18 + Len(e)
    BY <1>5
  <2>2. EndsStuffed(raw, f, e, p)
    BY <1>2, <1>3, <1>5, <1>12 DEF d, body, EndsStuffed
  <2>3. L2Payload(raw, 18 + Len(e)) = Ok(p)
    BY <1>1, <1>5, <2>2, Trailed
  <2> QED
    BY <2>1, <2>3
<1>14. Signed(body)
  <2> DEFINE z == 0
             k == 4
  <2>1. z \in Nat /\ k \in Nat /\ z <= k /\ k <= Len(s)
    BY <1>2 DEF Signed
  <2>2. Slice(s, z, k) = BT_L2_SIGNATURE
    BY <1>2 DEF Signed
  <2> HIDE DEF z, k
  <2>3. Slice(body, z, k) = Slice(s, z, k)
    BY <1>2, <1>4, <2>1, SliceFirst DEF body
  <2>4. Len(body) >= 4
    BY <1>2, <1>4, <1>6 DEF Signed
  <2> QED
    BY <2>2, <2>3, <2>4 DEF Signed, z, k
<1>15. SignatureAt(raw, 18)
  BY <1>6, <1>12, <1>14, SignatureFirst
<1>16. parse(raw) = Parsed(f, "L2Wrapped", p)
  BY <1>6, <1>12, <1>13, <1>15, ParseFramed
<1> QED
  BY <1>6, <1>12, <1>16 DEF raw, h, body, d, p

LEMMA ParsePush ==
    ASSUME NEW f \in Frames, Signed(f.payload), NEW s, s = stuff(f.payload),
           18 + Len(s) \in U16s, MIN_FRAME_LEN \in Nat, MIN_FRAME_LEN <= 18
    PROVE  /\ s \in Bytes
           /\ Framed(Header(18 + Len(s), f) \o s, f, s)
           /\ parse(Header(18 + Len(s), f) \o s) = Parsed(f, "L2Wrapped", f.payload)
<1> DEFINE p == f.payload
           raw == Header(18 + Len(s), f) \o s
<1>1. p \in Bytes /\ p # <<>>
  BY DEF Frames, Signed
<1>2. s \in Bytes /\ Signed(s)
  BY <1>1, StuffType, StuffSigned
<1>3. Framed(raw, f, s)
  BY <1>2, FrameSeen
<1> HIDE DEF raw
<1>4. L2Payload(raw, 18) = Ok(p)
  BY <1>1, <1>3, Untrailed
<1>5. SignatureAt(raw, 18)
  BY <1>2, <1>3, SignatureFirst
<1>6. parse(raw) = Parsed(f, "L2Wrapped", p)
  BY <1>2, <1>3, <1>4, <1>5, ParseFramed
<1> QED
  BY <1>2, <1>3, <1>6 DEF raw

\* The frames FrameBuilder is used for: an L2 packet is wrapped and fits into
\* the sixteen bits of the length, an L1 payload does not look like one.
Separated(p) == Len(p) >= 5 /\ p[1] = FRAME_DELIMITER /\ Slice(p, 1, 5) = BT_L2_SIGNATURE
Buildable(f) ==
    IF f.kind = "L1Only"
    THEN ~ Signed(f.payload) /\ ~ Separated(f.payload) /\ 18 + Len(f.payload) \in U16s
    ELSE Signed(f.payload) /\ Len(Stuffed(f.payload)) + 20 \in U16s

\* For every frame, with addresses, control word and payload of any content:
\* Frame::parse gives back what FrameBuilder::build was given.
THEOREM ParseBuild ==
    ASSUME NEW f \in Frames, Buildable(f), MIN_FRAME_LEN \in Nat, MIN_FRAME_LEN <= 18
    PROVE  parse(build(f)) = Ok(f)
<1> DEFINE p == f.payload
<1>1. p \in Bytes /\ f.kind \in {"L1Only", "L2Wrapped"}
  BY DEF Frames
<1>2. f = Frame(f.kind, f.local_bt, f.dest_bt, f.control, p)
  BY DEF Frames, Frame
<1>3. CASE f.kind = "L1Only"
  <2> DEFINE raw == Header(18 + Len(p), f) \o p
  <2>1. build(f) = raw
    BY <1>3 DEF build, build_l1_only
  <2>2. ~ Signed(p) /\ ~ Separated(p) /\ 18 + Len(p) \in U16s
    BY <1>3 DEF Buildable
  <2>3. Framed(raw, f, p)
    BY <1>1, <2>2, FrameSeen
  <2> HIDE DEF raw, p
  <2>4. ~ SignatureAt(raw, 18)
    BY <1>1, <2>2, <2>3, SignatureFirst
  <2>5. ~ SignatureAt(raw, 19)
    BY <1>1, <2>2, <2>3, SignatureSecond DEF Separated
  <2>6. parse(raw) = Parsed(f, "L1Only", p)
    BY <1>1, <2>3, <2>4, <2>5, ParseFramed
  <2> QED
    BY <1>2, <1>3, <2>1, <2>6 DEF Parsed
<1>4. CASE f.kind = "L2Wrapped"
  <2>1. build(f) = Wrap(f, Stuffed(p))
    BY <1>4 DEF build, build_l2_wrapped, Stuffed
  <2>2. Signed(p) /\ Len(Stuffed(p)) + 20 \in U16s
    BY <1>4 DEF Buildable
  <2>3. parse(Wrap(f, Stuffed(p))) = Parsed(f, "L2Wrapped", p)
    BY <2>2, ParseSeparator
  <2> HIDE DEF p
  <2> QED
    BY <1>2, <1>4, <2>1, <2>3 DEF Parsed
<1> QED
  BY <1>1, <1>3, <1>4

\* For every such frame parse_l2_only_blob, given what follows the header,
\* finds the trailer (no byte of the body is a delimiter) and the payload.
THEOREM BlobBuild ==
    ASSUME NEW f \in Frames, Buildable(f), f.kind = "L2Wrapped"
    PROVE  parse_l2_only_blob(Drop(build(f), 18)) = Ok(f.payload)
<1> DEFINE p == f.payload
           s == Stuffed(p)
           d == Delimiter
           body == d \o s \o d
           n == Len(s)
           sd == s \o d
<1>1. p \in Bytes
  BY DEF Frames
<1>2. Signed(p) /\ Len(s) + 20 \in U16s
  BY DEF Buildable
<1>3. s \in Bytes /\ s \in Seq(Clean) /\ Signed(s) /\ n \in Nat /\ n = Len(s)
  BY <1>1, <1>2, StuffedType
<1>4. d \in Bytes /\ Len(d) = 1 /\ d[1] = FRAME_DELIMITER
  BY DelimiterType
<1>5. Drop(build(f), 18) = body /\ body \in Bytes
  <2>1. build(f) = Wrap(f, s)
    BY DEF build, build_l2_wrapped, Stuffed
  <2>2. Framed(Wrap(f, s), f, body) /\ body \in Bytes
    BY <1>2, <1>3, Wrapped
  <2> QED
    BY <2>1, <2>2 DEF Framed
<1>6. StripFcs(unstuff(s)) = Ok(p)
  BY <1>1, Stripped DEF Stuffed
<1> HIDE DEF p, s, d, n
<1>7. Slice(body, 1, n + 1) = s
  <2>1. Slice(d \o s \o d, Len(d), Len(d) + Len(s)) = s
    BY <1>3, <1>4, SliceMiddle
  <2>2. Len(d) = 1 /\ Len(d) + Len(s) = n + 1
    BY <1>3, <1>4
  <2> QED
    BY <2>1, <2>2
<1>8. body = d \o sd
  BY <1>3, <1>4, CatAssociates
<1>9. Joined(sd, s, n, d, 1)
  BY <1>3, <1>4, Join
<1> DEFINE m == n + 1
<1>10. Len(sd) = m /\ sd \in Bytes
  BY <1>9 DEF Joined
<1> HIDE DEF sd
<1>11. Joined(d \o sd, d, 1, sd, m)
  BY <1>4, <1>10, Join
<1> HIDE DEF body, m
<1>12. Joined(body, d, 1, sd, m)
  BY <1>8, <1>11
<1>13. n \in Nat /\ n >= 4 /\ m = n + 1 /\ m \in Nat
  BY <1>3 DEF Signed, m
<1>14. Len(body) = n + 2 /\ body[1] = FRAME_DELIMITER
  <2>1. 1 \in 1..1
    OBVIOUS
  <2> QED
    BY <1>4, <1>12, <1>13, <2>1 DEF Joined
<1>15. body[n + 2] = FRAME_DELIMITER
  <2>1. sd[n + 1] = d[1]
    <3>1. 1 \in 1..1
      OBVIOUS
    <3> QED
      BY <1>9, <3>1 DEF Joined
  <2>2. m \in 1..m /\ 1 + m = n + 2
    BY <1>13
  <2>3. body[1 + m] = sd[m]
    BY <1>12, <2>2 DEF Joined
  <2> QED
    BY <1>4, <1>13, <2>1, <2>2, <2>3
<1>16. \A i \in 2..(n + 1) : body[i] # FRAME_DELIMITER
  <2> SUFFICES ASSUME NEW i \in 2..(n + 1) PROVE body[i] # FRAME_DELIMITER
    OBVIOUS
  <2> DEFINE j == i - 1
  <2>1. j \in 1..n /\ j \in 1..m /\ 1 + j = i
    BY <1>13
  <2> HIDE DEF j
  <2>2. body[1 + j] = sd[j]
    BY <1>12, <2>1 DEF Joined
  <2>3. sd[j] = s[j]
    BY <1>9, <2>1 DEF Joined
  <2>4. s[j] \in Clean
    BY <1>3, <2>1
  <2> QED
    BY <2>1, <2>2, <2>3, <2>4 DEF Clean, FRAME_DELIMITER
<1> DEFINE ends == {i \in 6..Len(body) : body[i] = FRAME_DELIMITER}
<1>17. ends = {n + 2}
  <2>1. n + 2 \in ends
    BY <1>13, <1>14, <1>15
  <2>2. ASSUME NEW i \in ends PROVE i = n + 2
    <3>1. i \in 6..(n + 2) /\ body[i] = FRAME_DELIMITER
      BY <1>14
    <3> QED
      BY <1>13, <1>16, <3>1
  <2> QED
    BY <2>1, <2>2
<1> HIDE DEF ends
<1>18. Min(ends) = n + 2 /\ ends # {}
  BY <1>13, <1>17 DEF Min
<1>19. Slice(body, 1, 5) = BT_L2_SIGNATURE
  <2> DEFINE z == 0
             k == 4
  <2>1. z \in Nat /\ k \in Nat /\ z <= k /\ k <= Len(s) /\ k <= Len(sd)
    BY <1>3, <1>10, <1>13
  <2>2. Slice(s, z, k) = BT_L2_SIGNATURE
    BY <1>3 DEF Signed
  <2> HIDE DEF z, k
  <2>3. Slice(sd, z, k) = Slice(s, z, k)
    BY <1>3, <1>4, <2>1, SliceFirst DEF sd
  <2>4. Slice(d \o sd, Len(d) + z, Len(d) + k) = Slice(sd, z, k)
    BY <1>4, <1>10, <2>1, SliceSecond
  <2>5. Len(d) + z = 1 /\ Len(d) + k = 5
    BY <1>4 DEF z, k
  <2> QED
    BY <1>8, <2>2, <2>3, <2>4, <2>5
<1>20. ~ (Len(body) < 6) /\ (n + 2) - 1 = n + 1
  BY <1>13, <1>14
<1>21. parse_l2_only_blob(body) = StripFcs(unstuff(Slice(body, 1, Min(ends) - 1)))
  BY <1>14, <1>18, <1>19, <1>20 DEF parse_l2_only_blob, ends
<1>22. parse_l2_only_blob(body) = Ok(p)
  BY <1>6, <1>7, <1>18, <1>20, <1>21
<1> QED
  BY <1>5, <1>22 DEF p

-----------------------------------------------------------------------------
(***************************************************************************)
(* L2 packets                                                              *)
(***************************************************************************)
\* e has the bytes x at offset at.
Piece(e, at, x) ==
    /\ x \in Bytes /\ at \in Nat /\ at + Len(x) <= Len(e)
    /\ Slice(e, at, at + Len(x)) = x

\* A packet is put together field by field: each goes to the end, and the
\* fields before it stay where they are.
Grown(e, a, x, n, m) ==
    /\ e \in Bytes /\ Len(e) = m
    /\ Piece(e, n, x)
    /\ \A at, y : Piece(a, at, y) => Piece(e, at, y)

LEMMA Grow ==
    ASSUME NEW a \in Bytes, NEW x \in Bytes, NEW n, Len(a) = n, NEW k, Len(x) = k
    PROVE  Grown(a \o x, a, x, n, n + k)
<1> DEFINE e == a \o x
<1>1. e \in Bytes /\ n \in Nat /\ k \in Nat /\ Len(e) = n + k
  BY CatElements
<1>2. Drop(e, n) = x
  BY DropFirst
<1>3. Slice(e, n, n + k) = x
  BY <1>1, <1>2 DEF Slice, Drop
<1>4. ASSUME NEW at, NEW y, Piece(a, at, y) PROVE Piece(e, at, y)
  <2> DEFINE to == at + Len(y)
  <2>1. y \in Bytes /\ at \in Nat /\ Len(y) \in Nat /\ Slice(a, at, to) = y /\ to <= Len(a)
    BY <1>4 DEF Piece, Bytes
  <2>2. to \in Nat /\ at <= to
    BY <2>1
  <2> HIDE DEF to
  <2>3. Slice(a \o x, at, to) = Slice(a, at, to)
    BY <2>1, <2>2, SliceFirst
  <2> HIDE DEF e
  <2>4. to <= Len(e)
    BY <1>1, <2>1, <2>2
  <2> QED
    BY <2>1, <2>3, <2>4 DEF Piece, to, e
<1> HIDE DEF e
<1>5. Piece(e, n, x)
  BY <1>1, <1>3 DEF Piece
<1>6. Grown(e, a, x, n, n + k)
  BY <1>1, <1>4, <1>5 DEF Grown
<1> QED
  BY <1>6 DEF e

LEMMA PieceBytes ==
    ASSUME NEW e \in Bytes, NEW at, NEW x, Piece(e, at, x)
    PROVE  \A i \in 1..Len(x) : e[at + i] = x[i]
<1> DEFINE to == at + Len(x)
<1>1. /\ at \in Nat /\ Len(x) \in Nat /\ to \in Nat /\ at <= to /\ to <= Len(e)
      /\ to - at = Len(x) /\ Slice(e, at, to) = x
  BY DEF Piece, Bytes
<1> HIDE DEF to
<1>2. \A i \in 1..(to - at) : Slice(e, at, to)[i] = e[at + i]
  BY <1>1, SliceType
<1> QED
  BY <1>1, <1>2

LEMMA PieceU16 ==
    ASSUME NEW e \in Bytes, NEW at, NEW n \in U16s, Piece(e, at, LE16(n))
    PROVE  U16(e, at) = n
<1> DEFINE x == LE16(n)
<1>0. U16s \subseteq Nat
  BY U16Max DEF U16s
<1>1. Len(x) = 2 /\ x[1] = n % 256 /\ x[2] = (n \div 256) % 256
  BY <1>0, LE16Type
<1>2. n = (n % 256) + 256 * (n \div 256) /\ (n \div 256) % 256 = n \div 256
  BY U16Halves
<1> HIDE DEF x
<1>3. 1 \in 1..Len(x) /\ 2 \in 1..Len(x)
  BY <1>1
<1>4. e[at + 1] = x[1] /\ e[at + 2] = x[2]
  BY <1>3, PieceBytes DEF x
<1> QED
  BY <1>1, <1>2, <1>4 DEF U16

\* Two fields side by side.
LEMMA PieceTwo ==
    ASSUME NEW e \in Bytes, NEW at, NEW x, NEW y, NEW to, Piece(e, at, x), Piece(e, to, y),
           to = at + Len(x)
    PROVE  Piece(e, at, x \o y)
<1> DEFINE n == Len(x)
           m == Len(y)
           z == x \o y
           k == at + (n + m)
           t == Slice(e, at, k)
<1>1. /\ x \in Bytes /\ y \in Bytes /\ at \in Nat /\ n \in Nat /\ m \in Nat /\ Len(e) \in Nat
      /\ at + n + m <= Len(e) /\ to = at + n
  BY DEF Piece, Bytes
<1>2. (\A i \in 1..n : e[at + i] = x[i]) /\ (\A i \in 1..m : e[to + i] = y[i])
  BY PieceBytes
<1>3. Joined(z, x, n, y, m)
  BY <1>1, Join
<1>4. at <= k /\ k \in Nat /\ k <= Len(e) /\ k - at = n + m
  BY <1>1
<1> HIDE DEF n, m, z, k
<1>5. t \in Bytes /\ Len(t) = k - at /\ \A i \in 1..(k - at) : t[i] = e[at + i]
  BY <1>1, <1>4, SliceType
<1> HIDE DEF t
<1>6. z \in Bytes /\ Len(z) = n + m
  BY <1>3 DEF Joined
<1>7. ASSUME NEW i \in 1..(n + m) PROVE t[i] = z[i]
  <2>1. t[i] = e[at + i]
    BY <1>4, <1>5
  <2>2. CASE i <= n
    <3>1. i \in 1..n
      BY <1>1, <2>2
    <3> QED
      BY <1>2, <1>3, <2>1, <3>1 DEF Joined
  <2>3. CASE ~ (i <= n)
    <3> DEFINE j == i - n
    <3>1. j \in 1..m /\ n + j = i /\ to + j = at + i
      BY <1>1, <2>3
    <3> HIDE DEF j
    <3>2. z[n + j] = y[j] /\ e[to + j] = y[j]
      BY <1>2, <1>3, <3>1 DEF Joined
    <3> QED
      BY <2>1, <3>1, <3>2
  <2> QED
    BY <2>2, <2>3
<1>8. t = z
  BY <1>4, <1>5, <1>6, <1>7, SameBytes
<1>9. Piece(e, at, z)
  BY <1>1, <1>4, <1>6, <1>8 DEF Piece, t, k
<1> QED
  BY <1>9 DEF z

Words4 == {w \in Bytes : Len(w) = 4}
PacketIds == 0..(APP_PACKET_BIT - 1)
L2Headers ==
    [longwords : U8, ctrl : U8, dst_susy_id : U16s, dst_serial : Words4, ctrl2 : U16s,
     app_susy_id : U16s, app_serial : Words4, error_code : U16s, pkt_id : PacketIds]

\* The fields of an encoded packet and where they are.
Encoded(e, h, body) ==
    /\ e \in Bytes /\ Len(e) = 28 + Len(body)
    /\ Piece(e, 0, BT_L2_SIGNATURE) /\ Piece(e, 4, <<h.longwords, h.ctrl>>)
    /\ Piece(e, 6, LE16(h.dst_susy_id)) /\ Piece(e, 8, h.dst_serial)
    /\ Piece(e, 12, LE16(h.ctrl2)) /\ Piece(e, 14, LE16(h.app_susy_id))
    /\ Piece(e, 16, h.app_serial) /\ Piece(e, 22, LE16(h.error_code))
    /\ Piece(e, 26, LE16(SetAppBit(h.pkt_id))) /\ Piece(e, 28, body)

LEMMA AppBit ==
    ASSUME NEW n \in PacketIds
    PROVE  /\ n \in Nat /\ SetAppBit(n) = n + APP_PACKET_BIT /\ SetAppBit(n) \in U16s
           /\ ClearAppBit(SetAppBit(n)) = n /\ APP_PACKET_BIT \in Nat
<1>1. n \in Nat /\ n < 32768 /\ APP_PACKET_BIT = 32768
  BY SMT DEF PacketIds, APP_PACKET_BIT
<1>2. n % 32768 = n /\ (n + 32768) % 32768 = n /\ n + 32768 <= 65535 /\ n + 32768 \in Nat
  BY <1>1, SMT
<1>3. SetAppBit(n) = n + 32768 /\ ClearAppBit(n + 32768) = n
  BY <1>1, <1>2, SMT DEF SetAppBit, ClearAppBit
<1> DEFINE m == n + 32768
<1>4. m \in Nat /\ m <= 65535
  BY <1>2, SMT
<1> HIDE DEF m
<1>5. m \in U16s
  BY <1>4, InU16
<1> QED
  BY <1>1, <1>3, <1>5, SMT DEF m

LEMMA PacketShape ==
    ASSUME NEW h \in L2Headers, NEW body \in Bytes
    PROVE  Encoded(encode_l2(h, body), h, body)
<1> DEFINE x1 == BT_L2_SIGNATURE
           x2 == <<h.longwords, h.ctrl>>
           x3 == LE16(h.dst_susy_id)
           x4 == h.dst_serial
           x5 == LE16(h.ctrl2)
           x6 == LE16(h.app_susy_id)
           x7 == h.app_serial
           x9 == LE16(h.error_code)
           x10 == <<0, 0>>
           x11 == LE16(SetAppBit(h.pkt_id))
           e2 == x1 \o x2
           e3 == e2 \o x3
           e4 == e3 \o x4
           e5 == e4 \o x5
           e6 == e5 \o x6
           e7 == e6 \o x7
           e8 == e7 \o x5
           e9 == e8 \o x9
           e10 == e9 \o x10
           e11 == e10 \o x11
           e == e11 \o body
<1>0. U16s \subseteq Nat
  BY U16Max DEF U16s
<1>1. x1 \in Bytes /\ Len(x1) = 4
  BY StuffSignature
<1>2. x2 \in Bytes /\ Len(x2) = 2 /\ x10 \in Bytes /\ Len(x10) = 2
  BY DEF Bytes, L2Headers, U8
<1>3. x4 \in Bytes /\ Len(x4) = 4 /\ x7 \in Bytes /\ Len(x7) = 4
  BY DEF L2Headers, Words4
<1>4. \A n \in U16s : LE16(n) \in Bytes /\ Len(LE16(n)) = 2
  BY <1>0, LE16Type
<1>5. /\ x3 \in Bytes /\ Len(x3) = 2 /\ x5 \in Bytes /\ Len(x5) = 2
      /\ x6 \in Bytes /\ Len(x6) = 2 /\ x9 \in Bytes /\ Len(x9) = 2
  BY <1>4 DEF L2Headers
<1>6. x11 \in Bytes /\ Len(x11) = 2
  <2>1. h.pkt_id \in PacketIds
    BY DEF L2Headers
  <2> QED
    BY <1>4, <2>1, AppBit
<1>7. Len(body) \in Nat
  BY DEF Bytes
<1>8. encode_l2(h, body) = e
  BY DEF encode_l2
<1>9. Piece(x1, 0, x1)
  <2> DEFINE z == <<>>
  <2> HIDE DEF x1
  <2>1. z \in Bytes /\ x1 \o z = x1
    BY <1>1 DEF Bytes
  <2>2. Slice(x1 \o z, 0, Len(x1)) = x1
    BY <1>1, <2>1, SliceWhole
  <2> HIDE DEF z
  <2> QED
    BY <1>1, <2>1, <2>2 DEF Piece
<1> HIDE DEF x1, x2, x3, x4, x5, x6, x7, x9, x10, x11
<1>12. Grown(e2, x1, x2, 4, 4 + 2)
  BY <1>1, <1>2, Grow
<1> HIDE DEF e2
<1>22. e2 \in Bytes /\ Len(e2) = 6
  BY <1>12 DEF Grown
<1>13. Grown(e3, e2, x3, 6, 6 + 2)
  BY <1>5, <1>22, Grow
<1> HIDE DEF e3
<1>23. e3 \in Bytes /\ Len(e3) = 8
  BY <1>13 DEF Grown
<1>14. Grown(e4, e3, x4, 8, 8 + 4)
  BY <1>3, <1>23, Grow
<1> HIDE DEF e4
<1>24. e4 \in Bytes /\ Len(e4) = 12
  BY <1>14 DEF Grown
<1>15. Grown(e5, e4, x5, 12, 12 + 2)
  BY <1>5, <1>24, Grow
<1> HIDE DEF e5
<1>25. e5 \in Bytes /\ Len(e5) = 14
  BY <1>15 DEF Grown
<1>16. Grown(e6, e5, x6, 14, 14 + 2)
  BY <1>5, <1>25, Grow
<1> HIDE DEF e6
<1>26. e6 \in Bytes /\ Len(e6) = 16
  BY <1>16 DEF Grown
<1>17. Grown(e7, e6, x7, 16, 16 + 4)
  BY <1>3, <1>26, Grow
<1> HIDE DEF e7
<1>27. e7 \in Bytes /\ Len(e7) = 20
  BY <1>17 DEF Grown
<1>18. Grown(e8, e7, x5, 20, 20 + 2)
  BY <1>5, <1>27, Grow
<1> HIDE DEF e8
<1>28. e8 \in Bytes /\ Len(e8) = 22
  BY <1>18 DEF Grown
<1>19. Grown(e9, e8, x9, 22, 22 + 2)
  BY <1>5, <1>28, Grow
<1> HIDE DEF e9
<1>29. e9 \in Bytes /\ Len(e9) = 24
  BY <1>19 DEF Grown
<1>20. Grown(e10, e9, x10, 24, 24 + 2)
  BY <1>2, <1>29, Grow
<1> HIDE DEF e10
<1>30. e10 \in Bytes /\ Len(e10) = 26
  BY <1>20 DEF Grown
<1>21. Grown(e11, e10, x11, 26, 26 + 2)
  BY <1>6, <1>30, Grow
<1> HIDE DEF e11
<1>31. e11 \in Bytes /\ Len(e11) = 28
  BY <1>21 DEF Grown
<1>32. Grown(e, e11, body, 28, 28 + Len(body))
  BY <1>31, Grow
<1> HIDE DEF e
<1>33. e \in Bytes /\ Len(e) = 28 + Len(body)
  BY <1>32 DEF Grown
<1>41. Piece(e, 28, body) /\ Piece(e, 26, x11)
  BY <1>32, <1>21 DEF Grown
<1>42. Piece(e, 22, x9)
  BY <1>32, <1>21, <1>20, <1>19 DEF Grown
<1>43. \A at, y : Piece(e7, at, y) => Piece(e, at, y)
  BY <1>32, <1>21, <1>20, <1>19, <1>18 DEF Grown
<1>44. Piece(e, 16, x7)
  BY <1>43, <1>17 DEF Grown
<1>45. \A at, y : Piece(e4, at, y) => Piece(e, at, y)
  BY <1>43, <1>17, <1>16, <1>15 DEF Grown
<1>46. Piece(e, 12, x5) /\ Piece(e, 14, x6)
  BY <1>43, <1>17, <1>16, <1>15 DEF Grown
<1>47. Piece(e, 8, x4) /\ Piece(e, 6, x3)
  BY <1>45, <1>14, <1>13 DEF Grown
<1>48. Piece(e, 4, x2) /\ Piece(e, 0, x1)
  BY <1>45, <1>14, <1>13, <1>12, <1>9 DEF Grown
<1>49. Encoded(e, h, body)
  BY <1>33, <1>41, <1>42, <1>44, <1>46, <1>47, <1>48
     DEF Encoded, x1, x2, x3, x4, x5, x6, x7, x9, x11
<1> QED
  BY <1>8, <1>49

\* What decode_l2 makes of a payload is the header and the body encode_l2 was
\* given, for every header and body: every field is where the other side
\* looks for it, and the application bit is set and cleared.
THEOREM DecodeEncode ==
    ASSUME NEW h \in L2Headers, NEW body \in Bytes
    PROVE  decode_l2(encode_l2(h, body)) = <<h, body>>
<1> DEFINE e == encode_l2(h, body)
<1>1. Encoded(e, h, body)
  BY PacketShape
<1> HIDE DEF e
<1>2. e \in Bytes /\ Len(body) \in Nat /\ ~ (Len(e) < 28) /\ Len(e) = 28 + Len(body)
  <2>1. Len(body) \in Nat
    BY DEF Bytes
  <2> QED
    BY <1>1, <2>1 DEF Encoded
<1>3. Slice(e, 0, 4) = BT_L2_SIGNATURE
  BY <1>1, StuffSignature DEF Encoded, Piece
<1>4. e[5] = h.longwords /\ e[6] = h.ctrl
  <2> DEFINE x == <<h.longwords, h.ctrl>>
  <2>1. x[1] = h.longwords /\ x[2] = h.ctrl /\ 1 \in 1..Len(x) /\ 2 \in 1..Len(x)
    OBVIOUS
  <2>2. Piece(e, 4, x)
    BY <1>1 DEF Encoded
  <2> HIDE DEF x
  <2>3. e[4 + 1] = x[1] /\ e[4 + 2] = x[2]
    BY <1>2, <2>1, <2>2, PieceBytes
  <2> QED
    BY <2>1, <2>3
<1>5. /\ h.dst_susy_id \in U16s /\ h.ctrl2 \in U16s /\ h.app_susy_id \in U16s
      /\ h.error_code \in U16s /\ h.pkt_id \in PacketIds /\ Len(h.dst_serial) = 4
      /\ Len(h.app_serial) = 4
  BY DEF L2Headers, Words4
<1>6. SetAppBit(h.pkt_id) \in U16s /\ ClearAppBit(SetAppBit(h.pkt_id)) = h.pkt_id
  BY <1>5, AppBit
<1>7. /\ U16(e, 6) = h.dst_susy_id /\ U16(e, 12) = h.ctrl2 /\ U16(e, 14) = h.app_susy_id
      /\ U16(e, 22) = h.error_code /\ U16(e, 26) = SetAppBit(h.pkt_id)
  BY <1>1, <1>2, <1>5, <1>6, PieceU16 DEF Encoded
<1>8. Slice(e, 8, 12) = h.dst_serial /\ Slice(e, 16, 20) = h.app_serial
  BY <1>1, <1>5 DEF Encoded, Piece
<1>9. Drop(e, 28) = body
  <2>1. Slice(e, 28, 28 + Len(body)) = body
    BY <1>1 DEF Encoded, Piece
  <2> QED
    BY <1>2, <2>1 DEF Slice, Drop
<1> DEFINE g == [longwords |-> e[5], ctrl |-> e[6], dst_susy_id |-> U16(e, 6),
                 dst_serial |-> Slice(e, 8, 12), ctrl2 |-> U16(e, 12),
                 app_susy_id |-> U16(e, 14), app_serial |-> Slice(e, 16, 20),
                 error_code |-> U16(e, 22), pkt_id |-> ClearAppBit(U16(e, 26))]
<1>10. g = h
  BY <1>4, <1>6, <1>7, <1>8 DEF L2Headers
<1>11. decode_l2(e) = <<g, Drop(e, 28)>>
  BY <1>2, <1>3 DEF decode_l2
<1> HIDE DEF g
<1> QED
  BY <1>9, <1>10, <1>11 DEF e
=============================================================================
