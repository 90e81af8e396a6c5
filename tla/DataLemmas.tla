----------------------------- MODULE DataLemmas ------------------------------
(***************************************************************************)
(* Facts about numbers and sequences that several proofs need: least and   *)
(* greatest elements, induction over a set, powers of two, alignment, and  *)
(* inserting into and removing from a sequence.                            *)
(*                                                                         *)
(* Both inductions come from the library's theorem that strict inclusion   *)
(* of finite sets is well founded: the numbers n of a set are the sets     *)
(* 0 .. n.  That powers of two double comes from its theorem on the        *)
(* cardinality of SUBSET.                                                  *)
(***************************************************************************)
EXTENDS Integers, Sequences, SequencesExt, FiniteSets, FiniteSetTheorems,
        SequenceTheorems, TLAPS

-------------------------------------------------------------------------------
(* Least and greatest elements *)

\* A set of naturals has a least element.
LEMMA LeastNat ==
  ASSUME NEW S \in SUBSET Nat, S # {}
  PROVE  \E x \in S : \A y \in S : x <= y
<1> DEFINE T == {0 .. n : n \in S}
           R == StrictSubsetOrdering(Nat)
<1>1. T # {} /\ T \subseteq FiniteSubsetsOf(Nat)
  <2>1. \A n \in Nat : IsFiniteSet(0 .. n) /\ 0 .. n \in SUBSET Nat
    BY FS_Interval
  <2> QED
    BY <2>1 DEF FiniteSubsetsOf
<1>2. IsWellFoundedOn(R, FiniteSubsetsOf(Nat))
  BY FS_StrictSubsetOrderingWellFounded
<1> HIDE DEF R, T
<1>3. PICK t \in T : \A u \in T : ~ (<<u, t>> \in R)
  BY <1>1, <1>2, WFMin
<1>4. PICK x \in S : t = 0 .. x
  BY <1>3 DEF T
<1>5. ASSUME NEW y \in S, y < x
      PROVE  FALSE
  <2>1. 0 .. y \in T
    BY DEF T
  <2>2. 0 .. y \subseteq 0 .. x /\ x \in 0 .. x /\ x \notin 0 .. y
    BY <1>5
  <2>3. 0 .. y # 0 .. x /\ 0 .. y \in SUBSET Nat /\ 0 .. x \in SUBSET Nat
    BY <2>2
  <2>4. <<0 .. y, 0 .. x>> \in R
    BY <2>2, <2>3 DEF R, StrictSubsetOrdering
  <2> QED
    BY <1>3, <1>4, <2>1, <2>4
<1> QED
  BY <1>5

\* A bounded set of naturals has a greatest element.
LEMMA GreatestNat ==
  ASSUME NEW S \in SUBSET Nat, S # {}, NEW b \in Nat, \A x \in S : x <= b
  PROVE  \E x \in S : \A y \in S : y <= x
<1> DEFINE T == {b - x : x \in S}
<1>1. T \in SUBSET Nat /\ T # {}
  <2>1. \A x \in S : b - x \in Nat
    OBVIOUS
  <2>2. \A t \in T : t \in Nat
    BY <2>1
  <2>3. T # {}
    OBVIOUS
  <2> QED
    BY <2>2, <2>3
<1>2. PICK t \in T : \A u \in T : t <= u
  <2> HIDE DEF T
  <2> QED
    BY <1>1, LeastNat
<1>3. PICK x \in S : t = b - x
  OBVIOUS
<1>4. \A y \in S : b - x <= b - y
  BY <1>2, <1>3
<1> QED
  BY <1>4

\* A set with 0 and the successor of each of its naturals has all naturals.
LEMMA NatSetInduction ==
  ASSUME NEW S, 0 \in S, \A n \in Nat : n \in S => n + 1 \in S
  PROVE  \A n \in Nat : n \in S
<1> SUFFICES ASSUME \E n \in Nat : n \notin S
             PROVE  FALSE
  OBVIOUS
<1>1. PICK x \in Nat \ S : \A y \in Nat \ S : x <= y
  BY LeastNat
<1>2. x # 0 /\ x - 1 \in Nat
  BY <1>1
<1>3. x - 1 \in S
  BY <1>1, <1>2
<1> QED
  BY <1>1, <1>2, <1>3

-------------------------------------------------------------------------------
(* Powers of two *)

\* 1 .. n has 2^n subsets.
LEMMA PowerCount ==
  ASSUME NEW n \in Nat
  PROVE  IsFiniteSet(SUBSET (1 .. n)) /\ Cardinality(SUBSET (1 .. n)) = 2^n
<1>1. IsFiniteSet(1 .. n) /\ Cardinality(1 .. n) = n
  BY FS_Interval
<1> QED
  BY <1>1, FS_SUBSET

\* Each power is twice the one before: half of the subsets have the last element.
LEMMA PowerStep ==
  ASSUME NEW n \in Nat
  PROVE  2^n \in Nat /\ 2^n # 0 /\ 2^(n + 1) = 2 * 2^n
<1> DEFINE A == SUBSET (1 .. n)
           B == {T \in SUBSET (1 .. n + 1) : n + 1 \in T}
           f == [T \in A |-> T \cup {n + 1}]
<1>1. IsFiniteSet(A) /\ Cardinality(A) = 2^n
  BY PowerCount
<1>2. IsFiniteSet(SUBSET (1 .. n + 1)) /\ Cardinality(SUBSET (1 .. n + 1)) = 2^(n + 1)
  <2>1. n + 1 \in Nat
    OBVIOUS
  <2> QED
    BY <2>1, PowerCount
<1>3. f \in Bijection(A, B)
  <2>1. \A T \in A : T \cup {n + 1} \in B /\ n + 1 \notin T
    OBVIOUS
  <2>2. f \in [A -> B]
    BY <2>1
  <2>3. \A S, T \in A : f[S] = f[T] => S = T
    <3> SUFFICES ASSUME NEW S \in A, NEW T \in A, S \cup {n + 1} = T \cup {n + 1}
                 PROVE  S = T
      OBVIOUS
    <3>1. n + 1 \notin S /\ n + 1 \notin T
      BY <2>1
    <3> QED
      BY <3>1
  <2>4. \A U \in B : \E T \in A : f[T] = U
    <3> SUFFICES ASSUME NEW U \in B
                 PROVE  \E T \in A : T \cup {n + 1} = U
      OBVIOUS
    <3>1. U \ {n + 1} \in A
      <4>1. \A x \in U \ {n + 1} : x \in 1 .. n
        OBVIOUS
      <4> QED
        BY <4>1
    <3>2. (U \ {n + 1}) \cup {n + 1} = U
      OBVIOUS
    <3> QED
      BY <3>1, <3>2
  <2> QED
    BY <2>2, <2>3, <2>4 DEF Bijection, Injection, Surjection, IsInjective
<1>4. IsFiniteSet(B) /\ Cardinality(B) = 2^n
  <2>1. ExistsBijection(A, B)
    BY <1>3 DEF ExistsBijection
  <2> QED
    BY <1>1, <2>1, FS_Bijection
<1>5. SUBSET (1 .. n + 1) = A \cup B /\ A \cap B = {}
  <2>1. \A T \in SUBSET (1 .. n + 1) : n + 1 \notin T => T \in A
    <3> SUFFICES ASSUME NEW T \in SUBSET (1 .. n + 1), n + 1 \notin T, NEW x \in T
                 PROVE  x \in 1 .. n
      OBVIOUS
    <3>1. x \in 1 .. n + 1 /\ x # n + 1
      OBVIOUS
    <3> QED
      BY <3>1
  <2>2. \A T \in A : T \in SUBSET (1 .. n + 1) /\ n + 1 \notin T
    OBVIOUS
  <2> QED
    BY <2>1, <2>2
<1> HIDE DEF A, B
<1>6. Cardinality(A \cup B) = Cardinality(A) + Cardinality(B) - Cardinality({})
  BY <1>1, <1>4, <1>5, FS_Union
<1>7. 2^n \in Nat /\ Cardinality({}) = 0
  BY <1>1, FS_CardinalityType, FS_EmptySet
<1>8. 2^n # 0
  <2>1. {} \in A
    BY DEF A
  <2> QED
    BY <1>1, <2>1, FS_EmptySet
<1>9. 2^(n + 1) = 2 * 2^n
  <2> DEFINE x == 2^n
             y == 2^(n + 1)
  <2>1. y = Cardinality(A \cup B) /\ Cardinality(A) = x /\ Cardinality(B) = x /\ x \in Nat
    BY <1>1, <1>2, <1>4, <1>5, <1>7
  <2> HIDE DEF x, y
  <2>2. y = 2 * x
    BY <1>6, <1>7, <2>1
  <2> QED
    BY <2>2 DEF x, y
<1> QED
  BY <1>7, <1>8, <1>9

\* Powers grow with the exponent.
LEMMA PowerMono ==
  ASSUME NEW i \in Nat, NEW j \in Nat, i <= j
  PROVE  2^i <= 2^j
<1> DEFINE S == {n \in Nat : 2^i <= 2^(i + n)}
<1>1. 0 \in S
  <2>1. 2^i \in Nat /\ i + 0 = i
    BY PowerStep
  <2> QED
    BY <2>1
<1>2. ASSUME NEW n \in Nat, n \in S
      PROVE  n + 1 \in S
  <2>1. 2^i \in Nat /\ 2^(i + n) \in Nat /\ 2^((i + n) + 1) = 2 * 2^(i + n)
    BY PowerStep
  <2>2. 2^i <= 2^(i + n) /\ i + (n + 1) = (i + n) + 1
    BY <1>2
  <2>3. 2^i <= 2^((i + n) + 1)
    BY <2>1, <2>2
  <2> QED
    BY <2>2, <2>3
<1> HIDE DEF S
<1>3. j - i \in S
  <2>1. j - i \in Nat
    OBVIOUS
  <2> QED
    BY <1>1, <1>2, <2>1, NatSetInduction
<1>4. i + (j - i) = j
  OBVIOUS
<1> QED
  BY <1>3, <1>4 DEF S

\* The smallest block is one page.
LEMMA PowerZero == 2^0 = 1
<1>1. Cardinality(SUBSET (1 .. 0)) = 2^0
  BY PowerCount
<1>2. SUBSET (1 .. 0) = {{}}
  OBVIOUS
<1>3. Cardinality({{}}) = 1
  BY FS_Singleton
<1> QED
  BY <1>1, <1>2, <1>3

-------------------------------------------------------------------------------
(* Alignment to a size s *)

\* The remainder of a number split into a multiple of s and a rest.
LEMMA RemainderOf ==
  ASSUME NEW k \in Nat, NEW s \in Nat \ {0}, NEW r \in 0 .. s - 1,
         NEW p, p = k * s + r
  PROVE  p % s = r
OBVIOUS

\* Counting up by one, the remainder goes up by one or back to zero.
LEMMA NextRemainder ==
  ASSUME NEW p \in Nat, NEW s \in Nat \ {0}
  PROVE  /\ p % s \in 0 .. s - 1
         /\ (p + 1) % s = IF p % s = s - 1 THEN 0 ELSE (p % s) + 1
<1> DEFINE r == p % s
           q == p + 1
<1>1. r \in 0 .. s - 1
  OBVIOUS
<1>2. PICK k \in Nat : p - r = k * s
  OBVIOUS
<1> HIDE DEF r
<1>3. p = k * s + r /\ q = k * s + (r + 1) /\ k * s \in Nat
  BY <1>1, <1>2
<1>4. CASE r = s - 1
  <2>1. k + 1 \in Nat /\ 0 \in 0 .. s - 1
    BY <1>1
  <2>2. (k + 1) * s = k * s + s
    OBVIOUS
  <2>3. q = (k + 1) * s + 0
    BY <1>3, <1>4, <2>2
  <2> HIDE DEF q
  <2>4. q % s = 0
    BY <2>1, <2>3, RemainderOf
  <2> QED
    BY <1>1, <1>4, <2>4 DEF q, r
<1>5. CASE r # s - 1
  <2> DEFINE r1 == r + 1
  <2>1. r1 \in 0 .. s - 1 /\ q = k * s + r1
    BY <1>1, <1>3, <1>5
  <2> HIDE DEF q, r1
  <2>2. q % s = r1
    BY <2>1, RemainderOf
  <2> QED
    BY <1>1, <1>5, <2>2 DEF q, r, r1
<1> QED
  BY <1>4, <1>5

\* Rounding down gives the aligned number at most s - 1 below.
LEMMA RoundDown ==
  ASSUME NEW p \in Nat, NEW s \in Nat \ {0}
  PROVE  LET a == p - (p % s)
         IN  a \in Nat /\ a % s = 0 /\ a <= p /\ p <= a + s - 1
<1>1. p % s \in 0 .. s - 1 /\ p - (p % s) \in Nat
  OBVIOUS
<1>2. PICK k \in Nat : p - (p % s) = k * s
  OBVIOUS
<1>3. (p - (p % s)) % s = 0
  <2> DEFINE a == p - (p % s)
  <2>1. a = k * s + 0 /\ 0 \in 0 .. s - 1
    BY <1>1, <1>2
  <2> HIDE DEF a
  <2>2. a % s = 0
    BY <2>1, RemainderOf
  <2> QED
    BY <2>2 DEF a
<1> QED
  BY <1>1, <1>3

\* An aligned number is its own rounding.
LEMMA RoundAligned ==
  ASSUME NEW p \in Nat, NEW s \in Nat \ {0}, p % s = 0
  PROVE  p - (p % s) = p
OBVIOUS

\* What is aligned to 2 * s is aligned to s.
LEMMA AlignedHalf ==
  ASSUME NEW p \in Nat, NEW s \in Nat \ {0}, p % (2 * s) = 0
  PROVE  p % s = 0
<1> DEFINE d == 2 * s
<1>1. d \in Nat \ {0} /\ p % d = 0
  OBVIOUS
<1> HIDE DEF d
<1>2. PICK k \in Nat : p = k * d
  <2>1. p = (p \div d) * d /\ p \div d \in Nat
    BY <1>1
  <2> QED
    BY <2>1
<1>3. p = (2 * k) * s /\ 2 * k \in Nat
  BY <1>2 DEF d
<1> QED
  BY <1>3

\* The halves of an aligned block of size 2 * s: an aligned number is the start
\* of the lower half or of the upper one, and rounds to the start of the block.
LEMMA Halves ==
  ASSUME NEW p \in Nat, NEW s \in Nat \ {0}
  PROVE  LET a == p - (p % s)
             c == p - (p % (2 * s))
         IN  \/ a % (2 * s) = 0 /\ c = a
             \/ a % (2 * s) # 0 /\ c = a - s
<1> DEFINE d == 2 * s
           r == p % d
           q == p \div d
           x == q * d
<1>1. d \in Nat \ {0} /\ s < d
  OBVIOUS
<1>2. r \in 0 .. d - 1 /\ q \in Nat /\ p = x + r
  <2> HIDE DEF d
  <2> QED
    BY <1>1
<1>3. x = (2 * q) * s /\ 2 * q \in Nat /\ x + s = (2 * q + 1) * s /\ x \in Nat
  <2> HIDE DEF q
  <2> QED
    BY <1>2
<1>4. CASE r < s
  <2>1. p % s = r
    <3> HIDE DEF r, x, q
    <3> QED
      BY <1>2, <1>3, <1>4
  <2>2. x % d = 0
    <3> HIDE DEF d, r
    <3> QED
      BY <1>1, <1>2
  <2> HIDE DEF x, r
  <2>3. p - (p % s) = x /\ p - r = x
    BY <1>2, <2>1, <1>3
  <2> QED
    BY <2>1, <2>2, <2>3 DEF d, r
<1>5. CASE r >= s
  <2>1. p % s = r - s
    <3>1. p = (2 * q + 1) * s + (r - s) /\ r - s \in 0 .. s - 1 /\ 2 * q + 1 \in Nat
      <4> HIDE DEF r, x, q
      <4> QED
        BY <1>2, <1>3, <1>5 DEF d
    <3> DEFINE k == 2 * q + 1
    <3> HIDE DEF r, q, k
    <3>2. p = k * s + (r - s) /\ k \in Nat
      BY <3>1 DEF k
    <3> QED
      BY <3>1, <3>2, RemainderOf
  <2>2. (x + s) % d = s
    <3> HIDE DEF d, r
    <3> QED
      BY <1>1, <1>2
  <2> HIDE DEF x, r
  <2>3. p - (p % s) = x + s /\ p - r = (x + s) - s
    BY <1>2, <2>1, <1>3
  <2> QED
    BY <2>1, <2>2, <2>3 DEF d, r
<1> QED
  <2> HIDE DEF r, d
  <2> QED
    BY <1>2, <1>4, <1>5, <1>1

-------------------------------------------------------------------------------
(* Sequences *)

\* What InsertAt has at each place.
LEMMA InsertAtFacts ==
  ASSUME NEW S, NEW s \in Seq(S), NEW e \in S, NEW i \in 1 .. Len(s) + 1
  PROVE  /\ InsertAt(s, i, e) \in Seq(S)
         /\ Len(InsertAt(s, i, e)) = Len(s) + 1
         /\ \A j \in 1 .. Len(s) + 1 :
              InsertAt(s, i, e)[j] = IF j < i THEN s[j] ELSE IF j = i THEN e ELSE s[j - 1]
<1> DEFINE a == SubSeq(s, 1, i - 1)
           c == SubSeq(s, i, Len(s))
<1>0. Len(s) \in Nat /\ \A j \in 1 .. Len(s) : s[j] \in S
  OBVIOUS
<1>1. a \in Seq(S) /\ Len(a) = i - 1 /\ \A j \in 1 .. i - 1 : a[j] = s[j]
  BY <1>0, SubSeqProperties
<1>2. c \in Seq(S) /\ Len(c) = Len(s) - i + 1 /\ \A j \in 1 .. Len(s) - i + 1 : c[j] = s[i + j - 1]
  BY <1>0, SubSeqProperties
<1>3. InsertAt(s, i, e) = (a \o <<e>>) \o c
  BY DEF InsertAt
<1> HIDE DEF a, c
<1>4. <<e>> \in Seq(S) /\ Len(<<e>>) = 1 /\ <<e>>[1] = e
  OBVIOUS
<1> DEFINE b == a \o <<e>>
<1>5. b \in Seq(S) /\ Len(b) = i /\ \A j \in 1 .. i : b[j] = IF j < i THEN s[j] ELSE e
  BY <1>0, <1>1, <1>4, ConcatProperties
<1> HIDE DEF b
<1> DEFINE z == b \o c
<1>6. z \in Seq(S) /\ Len(z) = Len(s) + 1
      /\ \A j \in 1 .. Len(s) + 1 : z[j] = IF j <= i THEN b[j] ELSE c[j - i]
  <2>1. /\ z \in Seq(S) /\ Len(z) = Len(b) + Len(c)
        /\ \A j \in 1 .. Len(b) + Len(c) : z[j] = IF j <= Len(b) THEN b[j] ELSE c[j - Len(b)]
    BY <1>2, <1>5, ConcatProperties
  <2>2. Len(b) + Len(c) = Len(s) + 1 /\ Len(b) = i
    BY <1>0, <1>2, <1>5
  <2> HIDE DEF z
  <2> QED
    BY <2>1, <2>2
<1> HIDE DEF z
<1>7. ASSUME NEW j \in 1 .. Len(s) + 1
      PROVE  z[j] = IF j < i THEN s[j] ELSE IF j = i THEN e ELSE s[j - 1]
  <2>1. CASE j <= i
    BY <1>0, <1>5, <1>6, <2>1
  <2>2. CASE j > i
    <3>1. j - i \in 1 .. Len(s) - i + 1 /\ i + (j - i) - 1 = j - 1
      BY <1>0, <2>2
    <3> QED
      BY <1>0, <1>2, <1>6, <2>2, <3>1
  <2> QED
    BY <2>1, <2>2
<1> QED
  BY <1>3, <1>6, <1>7 DEF b, z

\* What RemoveAt has at each place.
LEMMA RemoveAtFacts ==
  ASSUME NEW S, NEW s \in Seq(S), NEW i \in 1 .. Len(s)
  PROVE  /\ RemoveAt(s, i) \in Seq(S)
         /\ Len(RemoveAt(s, i)) = Len(s) - 1
         /\ \A j \in 1 .. Len(s) - 1 : RemoveAt(s, i)[j] = IF j < i THEN s[j] ELSE s[j + 1]
<1> DEFINE a == SubSeq(s, 1, i - 1)
           c == SubSeq(s, i + 1, Len(s))
<1>0. Len(s) \in Nat /\ \A j \in 1 .. Len(s) : s[j] \in S
  OBVIOUS
<1>1. a \in Seq(S) /\ Len(a) = i - 1 /\ \A j \in 1 .. i - 1 : a[j] = s[j]
  BY <1>0, SubSeqProperties
<1>2. c \in Seq(S) /\ Len(c) = Len(s) - i /\ \A j \in 1 .. Len(s) - i : c[j] = s[i + j]
  BY <1>0, SubSeqProperties
<1>3. RemoveAt(s, i) = a \o c
  BY DEF RemoveAt
<1> HIDE DEF a, c
<1> DEFINE z == a \o c
<1>4. z \in Seq(S) /\ Len(z) = Len(s) - 1
      /\ \A j \in 1 .. Len(s) - 1 : z[j] = IF j <= i - 1 THEN a[j] ELSE c[j - (i - 1)]
  <2>1. /\ z \in Seq(S) /\ Len(z) = Len(a) + Len(c)
        /\ \A j \in 1 .. Len(a) + Len(c) : z[j] = IF j <= Len(a) THEN a[j] ELSE c[j - Len(a)]
    BY <1>1, <1>2, ConcatProperties
  <2>2. Len(a) + Len(c) = Len(s) - 1 /\ Len(a) = i - 1
    BY <1>0, <1>1, <1>2
  <2> HIDE DEF z
  <2> QED
    BY <2>1, <2>2
<1> HIDE DEF z
<1>5. ASSUME NEW j \in 1 .. Len(s) - 1
      PROVE  z[j] = IF j < i THEN s[j] ELSE s[j + 1]
  <2>1. CASE j < i
    BY <1>0, <1>1, <1>4, <2>1
  <2>2. CASE j >= i
    <3>1. j - (i - 1) \in 1 .. Len(s) - i /\ i + (j - (i - 1)) = j + 1
      BY <1>0, <2>2
    <3>2. z[j] = c[j - (i - 1)]
      BY <1>0, <1>4, <2>2
    <3>3. c[j - (i - 1)] = s[i + (j - (i - 1))]
      BY <1>2, <3>1
    <3>4. ~ (j < i)
      BY <1>0, <2>2
    <3> QED
      BY <3>1, <3>2, <3>3, <3>4
  <2> QED
    BY <2>1, <2>2
<1> QED
  BY <1>3, <1>4, <1>5 DEF z
===============================================================================
