---------------------------- MODULE MessagesProofs ----------------------------
(***************************************************************************)
(* Theorems about the packets the engine reads and writes, for bytes of    *)
(* any size, any contents and any lengths, and about the names it looks    *)
(* for in hellos and in messages of DNS.  Sums, carries and scans are      *)
(* functions that recurse over their data: that they exist, and what they  *)
(* compute, is shown by a least counterexample.                            *)
(***************************************************************************)
EXTENDS Messages, SequenceTheorems, WellFoundedInduction, TLAPS

\* A non-empty set of natural numbers has a least element.
LEMMA Smallest ==
    ASSUME NEW S \in SUBSET Nat, S # {}
    PROVE  \E n \in S : \A m \in S : n <= m
<1>1. \E n \in S : \A m \in S : <<m, n>> \notin OpToRel(<, Nat)
  BY NatLessThanWellFounded, WFMin
<1>2. ASSUME NEW n \in S, NEW m \in S, <<m, n>> \notin OpToRel(<, Nat)
      PROVE  n <= m
  BY <1>2 DEF OpToRel
<1> QED
  BY <1>1, <1>2

\* Induction up to n, over a set instead of a predicate.
LEMMA UpTo ==
    ASSUME NEW n \in Nat, NEW A \in SUBSET (0..n), 0 \in A,
           \A i \in 1..n : i - 1 \in A => i \in A
    PROVE  A = 0..n
<1> DEFINE Bad == (0..n) \ A
<1> SUFFICES ASSUME Bad # {} PROVE FALSE
  OBVIOUS
<1>1. Bad \in SUBSET Nat
  OBVIOUS
<1>2. PICK i \in Bad : \A j \in Bad : i <= j
  BY <1>1, Smallest
<1>3. i \in 1..n /\ i - 1 \in 0..n
  BY <1>2
<1>4. i - 1 \notin Bad
  BY <1>2, <1>3
<1> QED
  BY <1>2, <1>3, <1>4

-----------------------------------------------------------------------------
(***************************************************************************)
(* Sums.                                                                   *)
(***************************************************************************)
\* A sum over any summands exists.
LEMMA SumExists ==
    ASSUME NEW start \in Nat, NEW n \in Nat, NEW f \in [1..n -> Nat]
    PROVE  \E s \in [0..n -> Nat] : s[0] = start /\ \A i \in 1..n : s[i] = s[i - 1] + f[i]
<1> DEFINE Sums(s, k) == /\ s \in [0..k -> Nat] /\ s[0] = start
                         /\ \A i \in 1..k : s[i] = s[i - 1] + f[i]
           Has(k) == \E s : Sums(s, k)
           Done == {k \in 0..n : Has(k)}
<1>1. Has(0)
  <2>1. Sums([i \in 0..0 |-> start], 0)
    OBVIOUS
  <2> QED
    BY <2>1
<1>2. ASSUME NEW k \in 1..n, Has(k - 1) PROVE Has(k)
  <2>1. PICK s : Sums(s, k - 1)
    BY <1>2
  <2> DEFINE t == [i \in 0..k |-> IF i = k THEN s[k - 1] + f[k] ELSE s[i]]
  <2>2. k \in Nat /\ k - 1 \in 0..(k - 1) /\ k \notin 0..(k - 1) /\ f[k] \in Nat
    OBVIOUS
  <2>3. s \in [0..(k - 1) -> Nat] /\ s[k - 1] \in Nat
    BY <2>1, <2>2
  <2>4. ASSUME NEW i \in 0..k, i # k PROVE t[i] = s[i] /\ i \in 0..(k - 1) /\ t[i] \in Nat
    BY <2>2, <2>3, <2>4
  <2>5. t[k] = s[k - 1] + f[k] /\ t[k] \in Nat
    BY <2>2, <2>3
  <2>6. t = [i \in 0..k |-> t[i]]
    OBVIOUS
  <2> HIDE DEF t
  <2>7. t \in [0..k -> Nat]
    <3>1. \A i \in 0..k : t[i] \in Nat
      BY <2>4, <2>5
    <3> QED
      BY <2>6, <3>1
  <2>8. t[0] = start
    BY <2>1, <2>2, <2>4
  <2>9. ASSUME NEW i \in 1..k PROVE t[i] = t[i - 1] + f[i]
    <3>1. i \in 0..k /\ i - 1 \in 0..k /\ i - 1 # k
      BY <2>2
    <3>2. t[i - 1] = s[i - 1]
      BY <2>4, <3>1
    <3>3. CASE i = k
      BY <2>5, <3>2, <3>3
    <3>4. CASE i # k
      <4>1. t[i] = s[i] /\ i \in 1..(k - 1)
        BY <2>4, <3>1, <3>4
      <4> QED
        BY <2>1, <3>2, <4>1
    <3> QED
      BY <3>3, <3>4
  <2> QED
    BY <2>7, <2>8, <2>9
<1>3. Has(n) <=> \E s \in [0..n -> Nat] : s[0] = start /\ \A i \in 1..n : s[i] = s[i - 1] + f[i]
  OBVIOUS
<1> HIDE DEF Has
<1>4. Done \in SUBSET (0..n) /\ 0 \in Done /\ \A i \in 1..n : i - 1 \in Done => i \in Done
  BY <1>1, <1>2
<1>5. Done = 0..n
  <2> HIDE DEF Done
  <2> QED
    BY <1>4, UpTo
<1>6. n \in 0..n
  OBVIOUS
<1> QED
  BY <1>3, <1>5, <1>6

\* The sum inside Checksum, and the receiver's inside Verifies
SumOf(start, bytes) ==
    LET sum[i \in 0..Len(bytes)] ==
            IF i = 0 THEN start
            ELSE sum[i - 1] + (IF (i % 2) = 1 THEN bytes[i] ELSE Base * bytes[i])
    IN  sum
ReceiverSum(bytes) ==
    LET sum[i \in 0..Len(bytes)] ==
            IF i = 0 THEN 0 ELSE sum[i - 1] + bytes[i] * (IF (i % 2) = 1 THEN 1 ELSE Base)
    IN  sum

Total(bytes) == SumOf(0, bytes)[Len(bytes)]
Summand(b, i) == IF (i % 2) = 1 THEN b[i] ELSE Base * b[i]
Sums(s, start, b) ==
    /\ s \in [0..Len(b) -> Nat] /\ s[0] = start
    /\ \A i \in 1..Len(b) : s[i] = s[i - 1] + Summand(b, i)

LEMMA SummandNat ==
    ASSUME NEW b \in Seq(Nat), NEW i \in 1..Len(b)
    PROVE  Summand(b, i) \in Nat
<1>1. b[i] \in Nat
  BY ElementOfSeq
<1> QED
  BY <1>1, BaseAssumption DEF Summand

LEMMA SumsExist ==
    ASSUME NEW start \in Nat, NEW b \in Seq(Nat)
    PROVE  \E s : Sums(s, start, b)
<1> DEFINE n == Len(b)
           f == [i \in 1..n |-> Summand(b, i)]
<1>1. n \in Nat /\ f \in [1..n -> Nat]
  BY LenProperties, SummandNat
<1>2. \A i \in 1..n : f[i] = Summand(b, i)
  OBVIOUS
<1> HIDE DEF f
<1>3. PICK s \in [0..n -> Nat] : s[0] = start /\ \A i \in 1..n : s[i] = s[i - 1] + f[i]
  <2> HIDE DEF n
  <2> QED
    BY <1>1, SumExists
<1> QED
  BY <1>2, <1>3 DEF Sums

\* Only one function is the sum.
LEMMA SumUnique ==
    ASSUME NEW start \in Nat, NEW b \in Seq(Nat), NEW s, NEW S, Sums(s, start, b),
           S = [i \in 0..Len(b) |-> IF i = 0 THEN start ELSE S[i - 1] + Summand(b, i)]
    PROVE  S = s
<1> DEFINE n == Len(b)
           A == {i \in 0..n : S[i] = s[i]}
<1>1. n \in Nat
  BY LenProperties
<1>2. A \in SUBSET (0..n) /\ 0 \in A
  BY <1>1 DEF Sums
<1>3. \A i \in 1..n : i - 1 \in A => i \in A
  <2> HIDE DEF n
  <2>1. ASSUME NEW i \in 1..n PROVE i \in 0..n /\ i # 0
    BY <1>1
  <2>2. \A i \in 0..n : S[i] = IF i = 0 THEN start ELSE S[i - 1] + Summand(b, i)
    BY DEF n
  <2>3. \A i \in 1..n : s[i] = s[i - 1] + Summand(b, i)
    BY DEF Sums, n
  <2>4. \A i \in 1..n : S[i] = S[i - 1] + Summand(b, i)
    BY <2>1, <2>2
  <2> QED
    BY <2>1, <2>3, <2>4
<1>4. A = 0..n
  <2> HIDE DEF A, n
  <2> QED
    BY <1>1, <1>2, <1>3, UpTo
<1> QED
  BY <1>4 DEF Sums

LEMMA SumsEqual ==
    ASSUME NEW start \in Nat, NEW b \in Seq(Nat), NEW s, NEW t,
           Sums(s, start, b), Sums(t, start, b)
    PROVE  s = t
<1>1. s = [i \in 0..Len(b) |-> IF i = 0 THEN start ELSE s[i - 1] + Summand(b, i)]
  BY LenProperties DEF Sums
<1> QED
  BY <1>1, SumUnique

\* The sum inside calc_checksum adds up the bytes behind one another.
LEMMA SumIs ==
    ASSUME NEW start \in Nat, NEW b \in Seq(Nat)
    PROVE  Sums(SumOf(start, b), start, b)
<1> DEFINE Is(s) == s = [i \in 0..Len(b) |-> IF i = 0 THEN start ELSE s[i - 1] + Summand(b, i)]
<1>1. SumOf(start, b) = CHOOSE s : Is(s)
  BY DEF SumOf, Summand
<1>2. PICK s : Sums(s, start, b)
  BY SumsExist
<1>3. Is(s)
  BY <1>2, LenProperties DEF Sums
<1>4. Is(SumOf(start, b))
  <2> HIDE DEF Is
  <2> QED
    BY <1>1, <1>3
<1>5. SumOf(start, b) = s
  BY <1>2, <1>4, SumUnique
<1> QED
  BY <1>2, <1>5

\* The receiver adds up the same.
LEMMA ReceiverSumIs ==
    ASSUME NEW b \in Seq(Nat)
    PROVE  Sums(ReceiverSum(b), 0, b)
<1> DEFINE Term(i) == b[i] * (IF (i % 2) = 1 THEN 1 ELSE Base)
           Is(s) == s = [i \in 0..Len(b) |-> IF i = 0 THEN 0 ELSE s[i - 1] + Term(i)]
           R == ReceiverSum(b)
<1>1. R = CHOOSE s : Is(s)
  BY DEF ReceiverSum
<1>2. PICK s : Sums(s, 0, b)
  BY SumsExist
<1>3. \A i \in 1..Len(b) : Term(i) = Summand(b, i)
  BY ElementOfSeq, BaseAssumption DEF Summand
<1> HIDE DEF Term
<1>4. Is(s)
  BY <1>2, <1>3, LenProperties DEF Sums
<1> HIDE DEF R
<1>5. Is(R)
  <2> HIDE DEF Is
  <2> QED
    BY <1>1, <1>4
<1>6. R = [i \in 0..Len(b) |-> IF i = 0 THEN 0 ELSE R[i - 1] + Summand(b, i)]
  <2>1. R = [i \in 0..Len(b) |-> IF i = 0 THEN 0 ELSE R[i - 1] + Term(i)]
    BY <1>5
  <2>2. \A i \in 0..Len(b) : i # 0 => R[i - 1] + Term(i) = R[i - 1] + Summand(b, i)
    BY <1>3, LenProperties
  <2> HIDE DEF Is
  <2> QED
    BY <2>1, <2>2
<1>7. R = s
  BY <1>2, <1>6, SumUnique
<1> QED
  BY <1>2, <1>7 DEF R

LEMMA TotalNat ==
    ASSUME NEW b \in Seq(Nat)
    PROVE  Total(b) \in Nat
BY SumIs, LenProperties DEF Total, Sums

LEMMA SumsStep ==
    ASSUME NEW start \in Nat, NEW b \in Seq(Nat), NEW s, Sums(s, start, b)
    PROVE  /\ \A i \in 0..Len(b) : s[i] \in Nat
           /\ \A i \in 1..Len(b) : i - 1 \in 0..Len(b) /\ s[i] = s[i - 1] + Summand(b, i)
<1>1. \A i \in 1..Len(b) : i - 1 \in 0..Len(b)
  BY LenProperties
<1>2. \A i \in 0..Len(b) : s[i] \in Nat
  BY DEF Sums
<1> QED
  BY <1>1, <1>2 DEF Sums

\* A sum continued from another one
LEMMA SumContinues ==
    ASSUME NEW start \in Nat, NEW b \in Seq(Nat)
    PROVE  SumOf(start, b)[Len(b)] = start + Total(b)
<1> DEFINE n == Len(b)
           S == SumOf(start, b)
           Z == SumOf(0, b)
           A == {i \in 0..n : S[i] = start + Z[i]}
<1>1. n \in Nat /\ Sums(S, start, b) /\ Sums(Z, 0, b)
  BY LenProperties, SumIs
<1>2. \A i \in 1..n : Summand(b, i) \in Nat
  BY SummandNat
<1> HIDE DEF S, Z
<1>3. A \in SUBSET (0..n) /\ 0 \in A
  BY <1>1 DEF Sums
<1>4. ASSUME NEW i \in 1..n, i - 1 \in A PROVE i \in A
  <2>1. S[i] = S[i - 1] + Summand(b, i) /\ Z[i] = Z[i - 1] + Summand(b, i)
    BY <1>1 DEF Sums
  <2>2. i - 1 \in 0..n /\ i \in 0..n /\ Z[i - 1] \in Nat
    BY <1>1, SumsStep
  <2>3. S[i - 1] = start + Z[i - 1]
    BY <1>4
  <2>4. Summand(b, i) \in Nat
    BY <1>2
  <2> DEFINE x == Summand(b, i)
  <2> HIDE DEF x, A, n
  <2>5. S[i] = start + Z[i]
    <3>1. x \in Nat /\ S[i] = S[i - 1] + x /\ Z[i] = Z[i - 1] + x
      BY <2>1, <2>4 DEF x
    <3> QED
      BY <2>2, <2>3, <3>1
  <2> QED
    BY <2>2, <2>5 DEF A
<1>5. A = 0..n
  <2> HIDE DEF A, n
  <2> QED
    BY <1>1, <1>3, <1>4, UpTo
<1> QED
  BY <1>1, <1>5 DEF Total, S, Z

\* What follows an even number of bytes is added to what they sum up to.
LEMMA TotalConcat ==
    ASSUME NEW a \in Seq(Nat), NEW b \in Seq(Nat), Len(a) % 2 = 0
    PROVE  Total(a \o b) = Total(a) + Total(b)
<1> DEFINE m == Len(a)
           n == Len(b)
           ab == a \o b
           S == SumOf(0, a)
           T == SumOf(0, b)
           U == SumOf(0, ab)
<1>1. /\ m \in Nat /\ n \in Nat /\ ab \in Seq(Nat) /\ Len(ab) = m + n
      /\ \A i \in 1..m : ab[i] = a[i]
      /\ \A i \in 1..n : ab[m + i] = b[i] /\ m + i \in 1..(m + n)
  <2>1. m \in Nat /\ n \in Nat /\ ab \in Seq(Nat) /\ Len(ab) = m + n
    BY LenProperties, ConcatProperties
  <2>2. \A i \in 1..(m + n) : ab[i] = IF i <= m THEN a[i] ELSE b[i - m]
    BY ConcatProperties
  <2> HIDE DEF m, n, ab
  <2>3. \A i \in 1..n : m + i \in 1..(m + n) /\ ~(m + i <= m) /\ (m + i) - m = i
    BY <2>1
  <2>4. \A i \in 1..n : ab[m + i] = b[i]
    BY <2>2, <2>3
  <2>5. \A i \in 1..m : ab[i] = a[i]
    BY <2>1, <2>2
  <2> QED
    BY <2>1, <2>3, <2>4, <2>5
<1>2. Sums(S, 0, a) /\ Sums(T, 0, b) /\ Sums(U, 0, ab)
  BY <1>1, SumIs
<1>3. \A i \in 1..m : Summand(a, i) \in Nat /\ Summand(ab, i) = Summand(a, i)
  BY <1>1, SummandNat DEF Summand
<1>4. \A i \in 1..n : Summand(b, i) \in Nat /\ Summand(ab, m + i) = Summand(b, i)
  <2>1. \A i \in 1..n : (m + i) % 2 = i % 2
    <3> HIDE DEF m, n
    <3>1. m % 2 = 0 /\ m \in Nat
      BY <1>1 DEF m
    <3> SUFFICES ASSUME NEW i \in 1..n PROVE (m + i) % 2 = i % 2
      OBVIOUS
    <3>2. i \in Nat
      BY <1>1
    <3>3. PICK h \in Nat : m = 2 * h
      BY <3>1
    <3>4. (2 * h + i) % 2 = i % 2
      <4>1. \A x, y \in Nat : (2 * x + y) % 2 = y % 2
        OBVIOUS
      <4> QED
        BY <3>2, <3>3, <4>1
    <3> QED
      BY <3>3, <3>4
  <2> QED
    BY <1>1, <2>1, SummandNat DEF Summand
<1> DEFINE A == {i \in 0..m : U[i] = S[i]}
           B == {i \in 0..n : U[m + i] = S[m] + T[i]}
<1> HIDE DEF ab, S, T, U
<1>5. A = 0..m
  <2>1. A \in SUBSET (0..m) /\ 0 \in A
    BY <1>1, <1>2 DEF Sums
  <2>2. ASSUME NEW i \in 1..m, i - 1 \in A PROVE i \in A
    <3>1. i \in 0..m /\ i \in 1..Len(ab) /\ U[i - 1] = S[i - 1]
      BY <1>1, <2>2
    <3>2. U[i] = U[i - 1] + Summand(ab, i)
      BY <1>2, <3>1 DEF Sums
    <3>3. S[i] = S[i - 1] + Summand(a, i)
      BY <1>2 DEF Sums
    <3> QED
      BY <1>3, <3>1, <3>2, <3>3
  <2> HIDE DEF A, m
  <2> QED
    BY <1>1, <2>1, <2>2, UpTo
<1>6. B = 0..n
  <2>1. B \in SUBSET (0..n) /\ 0 \in B
    <3>1. U[m] = S[m] /\ S[m] \in Nat /\ T[0] = 0
      <4>1. m \in 0..m
        BY <1>1
      <4> QED
        BY <1>2, <1>5, <4>1, SumsStep DEF Sums
    <3>2. U[m + 0] = S[m] + T[0]
      BY <1>1, <3>1
    <3> QED
      BY <1>1, <3>2
  <2>2. ASSUME NEW i \in 1..n, i - 1 \in B PROVE i \in B
    <3>1. U[m + (i - 1)] = S[m] + T[i - 1]
      BY <2>2
    <3>4. (m + i) - 1 = m + (i - 1) /\ i - 1 \in 0..n /\ i \in 1..n
      BY <1>1
    <3>2. U[m + i] = U[m + (i - 1)] + Summand(b, i) /\ T[i] = T[i - 1] + Summand(b, i)
      BY <1>1, <1>2, <1>4, <3>4 DEF Sums
    <3>3. S[m] \in Nat /\ T[i - 1] \in Nat /\ Summand(b, i) \in Nat
      <4>1. m \in 0..m
        BY <1>1
      <4> QED
        BY <1>2, <1>4, <3>4, <4>1, SumsStep
    <3>5. U[m + i] = S[m] + T[i]
      <4> DEFINE x == Summand(b, i)
      <4>1. x \in Nat /\ U[m + i] = U[m + (i - 1)] + x /\ T[i] = T[i - 1] + x
        BY <3>2, <3>3
      <4> HIDE DEF x, m, n
      <4> QED
        BY <3>1, <3>3, <4>1
    <3>6. i \in 0..n
      BY <3>4
    <3> QED
      BY <3>5, <3>6
  <2> HIDE DEF B, n
  <2> QED
    BY <1>1, <2>1, <2>2, UpTo
<1>7. U[m + n] = S[m] + T[n]
  <2>1. n \in B
    <3> HIDE DEF B
    <3> QED
      BY <1>1, <1>6
  <2> QED
    BY <2>1
<1> QED
  BY <1>1, <1>7 DEF Total, ab, S, T, U

-----------------------------------------------------------------------------
(***************************************************************************)
(* Words, and the carries folded back into them.                           *)
(***************************************************************************)
Top == Base * Base - 1

LEMMA TopFacts == Base \in Nat /\ Top \in Nat /\ Top > 1 /\ Word = 0..Top /\ Base * Base = Top + 1
<1>1. Base \in Nat /\ Base > 6 /\ Base * Base \in Nat /\ Base * Base > 6
  BY BaseAssumption
<1> QED
  BY <1>1 DEF Top, Word

LEMMA Division ==
    ASSUME NEW x \in Nat, NEW n \in Nat, n > 0
    PROVE  /\ x % n \in Nat /\ x % n < n /\ x \div n \in Nat
           /\ x = n * (x \div n) + (x % n)
OBVIOUS

\* A word is its two bytes.
LEMMA BytesOf ==
    ASSUME NEW w \in Nat
    PROVE  /\ Bytes(w) \in Seq(Nat) /\ Len(Bytes(w)) = 2
           /\ Bytes(w)[1] + Base * Bytes(w)[2] = w
<1>1. Base \in Nat /\ Base > 6
  BY BaseAssumption
<1>2. w % Base \in Nat /\ w \div Base \in Nat /\ w = Base * (w \div Base) + (w % Base)
  BY <1>1, Division
<1>3. Bytes(w) = <<w % Base, w \div Base>>
  BY DEF Bytes
<1> QED
  BY <1>1, <1>2, <1>3

LEMMA TotalTwo ==
    ASSUME NEW b \in Seq(Nat), Len(b) = 2
    PROVE  Total(b) = b[1] + Base * b[2]
<1> DEFINE Z == SumOf(0, b)
<1>1. Sums(Z, 0, b)
  BY SumIs
<1> HIDE DEF Z
<1>2. Z[0] = 0 /\ Z[1] = Z[0] + Summand(b, 1) /\ Z[2] = Z[1] + Summand(b, 2)
  BY <1>1 DEF Sums
<1>3. Summand(b, 1) = b[1] /\ Summand(b, 2) = Base * b[2]
  BY DEF Summand
<1>4. Summand(b, 1) \in Nat /\ Summand(b, 2) \in Nat
  <2>1. 1 \in 1..Len(b) /\ 2 \in 1..Len(b)
    OBVIOUS
  <2> QED
    BY <2>1, SummandNat
<1>5. Z[2] = Summand(b, 1) + Summand(b, 2)
  BY <1>2, <1>4
<1> QED
  BY <1>3, <1>5 DEF Total, Z

LEMMA TotalOfBytes ==
    ASSUME NEW w \in Nat
    PROVE  Total(Bytes(w)) = w
BY BytesOf, TotalTwo

\* The bytes of a list of words
LEMMA FlatSeq ==
    ASSUME NEW ws \in Seq(Nat)
    PROVE  Flat(ws) \in Seq(Nat) /\ Len(Flat(ws)) = 2 * Len(ws)
<1>1. Len(ws) \in Nat /\ 2 * Len(ws) \in Nat
  BY LenProperties
<1>2. ASSUME NEW i \in 1..(2 * Len(ws)) PROVE Bytes(ws[(i + 1) \div 2])[2 - (i % 2)] \in Nat
  <2>1. (i + 1) \div 2 \in 1..Len(ws)
    BY <1>1
  <2>2. ws[(i + 1) \div 2] \in Nat
    BY <2>1, ElementOfSeq
  <2>3. 2 - (i % 2) \in 1..2
    BY <1>1
  <2> QED
    BY <2>2, <2>3, BytesOf, ElementOfSeq
<1> DEFINE n == 2 * Len(ws)
           Nth(i) == Bytes(ws[(i + 1) \div 2])[2 - (i % 2)]
<1>3. Flat(ws) = [i \in 1..n |-> Nth(i)]
  BY DEF Flat
<1> HIDE DEF Nth
<1> QED
  BY <1>1, <1>2, <1>3 DEF Nth

LEMMA FlatAppend ==
    ASSUME NEW ws \in Seq(Nat), NEW w \in Nat
    PROVE  Flat(Append(ws, w)) = Flat(ws) \o Bytes(w)
<1> DEFINE n == Len(ws)
           l == Flat(Append(ws, w))
           r == Flat(ws) \o Bytes(w)
<1>1. n \in Nat /\ Append(ws, w) \in Seq(Nat) /\ Len(Append(ws, w)) = n + 1
  BY LenProperties, AppendProperties
<1>2. Flat(ws) \in Seq(Nat) /\ Len(Flat(ws)) = 2 * n /\ Bytes(w) \in Seq(Nat) /\ Len(Bytes(w)) = 2
  BY FlatSeq, BytesOf
<1>3. l \in Seq(Nat) /\ Len(l) = 2 * (n + 1)
  BY <1>1, FlatSeq
<1>4. /\ r \in Seq(Nat) /\ Len(r) = 2 * n + 2
      /\ \A i \in 1..(2 * n + 2) : r[i] = IF i <= 2 * n THEN Flat(ws)[i] ELSE Bytes(w)[i - 2 * n]
  <2> HIDE DEF n
  <2>1. /\ r \in Seq(Nat) /\ Len(r) = Len(Flat(ws)) + Len(Bytes(w))
        /\ \A i \in 1..(Len(Flat(ws)) + Len(Bytes(w))) :
              r[i] = IF i <= Len(Flat(ws)) THEN Flat(ws)[i] ELSE Bytes(w)[i - Len(Flat(ws))]
    BY <1>2, ConcatProperties
  <2> HIDE DEF r
  <2> QED
    BY <1>2, <2>1
<1>5. ASSUME NEW i \in 1..(2 * n + 2) PROVE l[i] = r[i]
  <2>1. l[i] = Bytes(Append(ws, w)[(i + 1) \div 2])[2 - (i % 2)]
    <3> DEFINE z == Append(ws, w)
    <3>1. l = [j \in 1..(2 * Len(z)) |-> Bytes(z[(j + 1) \div 2])[2 - (j % 2)]]
      BY DEF Flat
    <3>2. i \in 1..(2 * Len(z))
      BY <1>1
    <3> HIDE DEF l, z
    <3>3. l[i] = Bytes(z[(i + 1) \div 2])[2 - (i % 2)]
      BY <3>1, <3>2
    <3> QED
      BY <3>3 DEF z
  <2>2. CASE i <= 2 * n
    <3>1. (i + 1) \div 2 \in 1..n /\ i \in 1..(2 * n)
      <4> HIDE DEF n
      <4> QED
        BY <1>1, <2>2
    <3>2. Append(ws, w)[(i + 1) \div 2] = ws[(i + 1) \div 2]
      BY <3>1, AppendProperties
    <3>3. r[i] = Flat(ws)[i]
      BY <1>4, <2>2
    <3>4. Flat(ws)[i] = Bytes(ws[(i + 1) \div 2])[2 - (i % 2)]
      BY <3>1 DEF Flat
    <3> QED
      BY <2>1, <3>2, <3>3, <3>4
  <2>3. CASE i > 2 * n
    <3>1. (i + 1) \div 2 = n + 1 /\ 2 - (i % 2) = i - 2 * n
      <4> HIDE DEF n
      <4>1. i = 2 * n + 1 \/ i = 2 * n + 2
        BY <1>1, <2>3
      <4>2. CASE i = 2 * n + 1
        BY <1>1, <4>2
      <4>3. CASE i = 2 * n + 2
        BY <1>1, <4>3
      <4> QED
        BY <4>1, <4>2, <4>3
    <3>2. Append(ws, w)[n + 1] = w
      BY AppendProperties
    <3>3. r[i] = Bytes(w)[i - 2 * n]
      BY <1>1, <1>4, <2>3
    <3> QED
      BY <2>1, <3>1, <3>2, <3>3
  <2> QED
    <3> HIDE DEF l, r
    <3> QED
      BY <1>1, <2>2, <2>3
<1> HIDE DEF l, r
<1>6. Len(l) = Len(r)
  BY <1>1, <1>3, <1>4
<1>7. \A i \in 1..Len(l) : l[i] = r[i]
  BY <1>1, <1>3, <1>5
<1>8. l = r
  BY <1>3, <1>4, <1>6, <1>7, SeqEqual
<1> QED
  BY <1>8 DEF l, r

LEMMA TotalAppend ==
    ASSUME NEW ws \in Seq(Nat), NEW w \in Nat
    PROVE  Total(Flat(Append(ws, w))) = Total(Flat(ws)) + w
<1>1. Flat(ws) \in Seq(Nat) /\ Len(Flat(ws)) = 2 * Len(ws) /\ Len(ws) \in Nat
  BY FlatSeq, LenProperties
<1>2. (2 * Len(ws)) % 2 = 0
  BY <1>1
<1>3. Total(Flat(ws) \o Bytes(w)) = Total(Flat(ws)) + Total(Bytes(w))
  BY <1>1, <1>2, BytesOf, TotalConcat
<1> QED
  BY <1>3, FlatAppend, TotalOfBytes

-----------------------------------------------------------------------------
(***************************************************************************)
(* The one's complement: the carries of a sum are added to its low word    *)
(* until none is left.                                                     *)
(***************************************************************************)
Apart(x, y, n) == \E q \in Nat : x = y + q * n

\* c is what is left of the sum t
Covers(c, t) == c \in 0..Top /\ Apart(t, c, Top)

LEMMA Folding ==
    ASSUME NEW s \in Nat, s > Top
    PROVE  LET t == (s % (Top + 1)) + (s \div (Top + 1))
           IN  /\ t \in Nat /\ t < s /\ t > 0
               /\ s \div (Top + 1) \in Nat /\ s = t + (s \div (Top + 1)) * Top
<1> DEFINE n == Top + 1
           d == s \div n
           m == s % n
<1>1. Top \in Nat /\ Top > 1 /\ n \in Nat /\ n > 0
  BY TopFacts
<1>2. m \in Nat /\ m < n /\ d \in Nat /\ s = n * d + m
  BY <1>1, Division
<1> HIDE DEF d, m
<1>3. n * d = d * Top + d
  BY <1>1, <1>2
<1> HIDE DEF n
<1>4. s = (m + d) + d * Top
  BY <1>1, <1>2, <1>3
<1>5. d > 0
  <2>1. d = 0 => s = m
    BY <1>1, <1>2
  <2> QED
    BY <1>1, <1>2, <2>1 DEF n
<1>6. d * Top >= 1
  BY <1>1, <1>2, <1>5
<1> QED
  BY <1>1, <1>2, <1>4, <1>5, <1>6 DEF n, d, m

LEMMA Residue ==
    ASSUME NEW x \in Nat, NEW y \in Nat, NEW n \in Nat, n > 0, Apart(x, y, n)
    PROVE  x % n = y % n
<1>0. PICK q \in Nat : x = y + q * n
  BY DEF Apart
<1> DEFINE k == (x \div n) - (y \div n) - q
           u == x % n
           v == y % n
<1>1. u \in Nat /\ u < n /\ x \div n \in Nat /\ x = n * (x \div n) + u
  BY Division
<1>2. v \in Nat /\ v < n /\ y \div n \in Nat /\ y = n * (y \div n) + v
  BY Division
<1>3. k \in Int
  BY <1>1, <1>2
<1>4. n * k = v - u
  <2>1. n * k = n * (x \div n) - n * (y \div n) - q * n
    BY <1>1, <1>2
  <2> DEFINE a == n * (x \div n)
             b == n * (y \div n)
             c == q * n
  <2>2. a \in Int /\ b \in Int /\ c \in Int
    BY <1>1, <1>2
  <2> HIDE DEF a, b, c, k, u, v
  <2>3. a + u = (b + v) + c /\ n * k = a - b - c
    BY <1>0, <1>1, <1>2, <2>1 DEF a, b, c
  <2> QED
    BY <1>1, <1>2, <2>2, <2>3
<1> HIDE DEF k, u, v
<1>5. k >= 1 => n * k >= n
  BY <1>3
<1>6. k <= -1 => n * k <= -n
  BY <1>3
<1>7. k = 0 => u = v
  BY <1>1, <1>2, <1>4
<1>8. ~(k >= 1) /\ ~(k <= -1)
  BY <1>1, <1>2, <1>4, <1>5, <1>6
<1> QED
  BY <1>3, <1>7, <1>8 DEF u, v

\* What is left is the residue that is not 0.
Left(s) == IF s = 0 THEN 0 ELSE 1 + ((s - 1) % Top)

LEMMA LeftFolds ==
    ASSUME NEW s \in Nat
    PROVE  Left(s) = IF s < Top + 1 THEN s ELSE Left((s % (Top + 1)) + (s \div (Top + 1)))
<1>1. Top \in Nat /\ Top > 1
  BY TopFacts
<1>2. CASE s = 0
  BY <1>1, <1>2 DEF Left
<1>3. CASE s > 0 /\ s < Top + 1
  <2>1. (s - 1) % Top = s - 1
    BY <1>1, <1>3
  <2> QED
    BY <1>1, <1>3, <2>1 DEF Left
<1>4. CASE s > Top
  <2> DEFINE t == (s % (Top + 1)) + (s \div (Top + 1))
             q == s \div (Top + 1)
  <2>1. t \in Nat /\ t > 0 /\ q \in Nat /\ s = t + q * Top
    BY <1>4, Folding
  <2> HIDE DEF t, q
  <2>2. q * Top \in Nat /\ s - 1 \in Nat /\ t - 1 \in Nat /\ s - 1 = (t - 1) + q * Top
    BY <1>1, <1>4, <2>1
  <2>3. (s - 1) % Top = (t - 1) % Top
    <3> DEFINE x == s - 1
               y == t - 1
    <3>1. x \in Nat /\ y \in Nat /\ Apart(x, y, Top) /\ Top > 0
      BY <1>1, <2>1, <2>2 DEF Apart
    <3> HIDE DEF x, y
    <3>2. x % Top = y % Top
      BY <1>1, <2>1, <3>1, Residue
    <3> QED
      BY <3>2 DEF x, y
  <2>4. Left(s) = Left(t)
    BY <1>1, <1>4, <2>1, <2>3 DEF Left
  <2>5. ~(s < Top + 1)
    BY <1>1, <1>4
  <2> QED
    BY <2>4, <2>5 DEF t
<1> QED
  BY <1>1, <1>2, <1>3, <1>4

LEMMA LeftCovers ==
    ASSUME NEW s \in Nat
    PROVE  Covers(Left(s), s)
<1>1. Top \in Nat /\ Top > 1
  BY TopFacts
<1>2. CASE s = 0
  <2>1. 0 = 0 + 0 * Top
    BY <1>1
  <2> QED
    BY <1>1, <1>2, <2>1 DEF Left, Covers, Apart
<1>3. CASE s > 0
  <2> DEFINE m == (s - 1) % Top
             q == (s - 1) \div Top
  <2>1. m \in Nat /\ m < Top /\ q \in Nat /\ s - 1 = Top * q + m
    <3>1. s - 1 \in Nat /\ Top > 0
      BY <1>1, <1>3
    <3> QED
      BY <1>1, <3>1, Division
  <2>2. Left(s) = 1 + m
    BY <1>1, <1>3 DEF Left
  <2> HIDE DEF m, q
  <2>3. s = (1 + m) + q * Top
    BY <1>1, <2>1
  <2> QED
    BY <1>1, <2>1, <2>2, <2>3 DEF Covers, Apart
<1> QED
  BY <1>2, <1>3

LEMMA CarryIs == \A s \in Nat : Carry[s] = Left(s)
<1> DEFINE Around(s) == (s % (Top + 1)) + (s \div (Top + 1))
           Is(c) == c = [s \in Nat |-> IF s < Top + 1 THEN s ELSE c[Around(s)]]
           Bad == {s \in Nat : Carry[s] # Left(s)}
<1>1. Base * Base = Top + 1 /\ Top \in Nat
  BY TopFacts
<1>2. Carry = CHOOSE c : Is(c)
  BY <1>1 DEF Carry
<1>3. \A s \in Nat : s > Top => Around(s) \in Nat /\ Around(s) < s
  BY Folding
<1>4. \A s \in Nat : Left(s) = IF s < Top + 1 THEN s ELSE Left(Around(s))
  BY LeftFolds
<1> HIDE DEF Around
<1>5. Is([s \in Nat |-> Left(s)])
  <2> DEFINE L == [s \in Nat |-> Left(s)]
  <2>1. \A s \in Nat : L[s] = IF s < Top + 1 THEN s ELSE L[Around(s)]
    BY <1>1, <1>3, <1>4
  <2> QED
    BY <2>1
<1>6. Is(Carry)
  <2> HIDE DEF Is
  <2> QED
    BY <1>2, <1>5
<1>7. \A s \in Nat : Carry[s] = IF s < Top + 1 THEN s ELSE Carry[Around(s)]
  BY <1>6
<1> SUFFICES ASSUME Bad # {} PROVE FALSE
  OBVIOUS
<1>8. PICK s \in Bad : \A t \in Bad : s <= t
  <2>1. Bad \in SUBSET Nat
    OBVIOUS
  <2> HIDE DEF Bad
  <2> QED
    BY <2>1, Smallest
<1>9. s > Top
  BY <1>1, <1>4, <1>7, <1>8
<1>10. Around(s) \in Nat /\ Around(s) < s
  BY <1>3, <1>8, <1>9
<1>11. Carry[Around(s)] = Left(Around(s))
  BY <1>8, <1>10
<1> QED
  BY <1>1, <1>4, <1>7, <1>8, <1>9, <1>11

\* A checksum taken in pieces covers what all of them add up to.
LEMMA ChecksumCovers ==
    ASSUME NEW start, NEW t \in Nat, Covers(start, t), NEW b \in Seq(Nat)
    PROVE  Covers(Checksum(start, b), t + Total(b))
<1>1. Top \in Nat /\ Top > 1 /\ start \in Nat /\ Total(b) \in Nat
  BY TopFacts, TotalNat DEF Covers
<1> DEFINE s == start + Total(b)
<1>2. s \in Nat
  BY <1>1
<1>3. Checksum(start, b) = Left(s)
  <2>1. Checksum(start, b) = Carry[SumOf(start, b)[Len(b)]]
    BY DEF Checksum, SumOf
  <2> QED
    BY <1>1, <1>2, <2>1, SumContinues, CarryIs
<1>4. PICK p \in Nat : t = start + p * Top
  BY DEF Covers, Apart
<1> HIDE DEF s
<1>5. PICK q \in Nat : Left(s) \in 0..Top /\ s = Left(s) + q * Top
  BY <1>2, LeftCovers DEF Covers, Apart
<1>6. (p + q) * Top = p * Top + q * Top
  BY <1>1
<1>7. p * Top \in Nat /\ q * Top \in Nat /\ p + q \in Nat
  BY <1>1
<1>8. t + Total(b) = Left(s) + (p + q) * Top
  <2> DEFINE x == p * Top
             y == q * Top
             z == (p + q) * Top
  <2>1. t = start + x /\ s = Left(s) + y /\ s = start + Total(b) /\ z = x + y
    BY <1>4, <1>5, <1>6 DEF s
  <2>2. x \in Nat /\ y \in Nat /\ Left(s) \in Nat
    BY <1>1, <1>5, <1>7
  <2>3. start \in Nat /\ Total(b) \in Nat /\ s \in Nat
    BY <1>1, <1>2
  <2> HIDE DEF x, y, z
  <2> DEFINE u == Total(b)
             v == Left(s)
  <2>4. /\ t = start + x /\ s = v + y /\ s = start + u /\ z = x + y
        /\ x \in Nat /\ y \in Nat /\ v \in Nat /\ start \in Nat /\ u \in Nat
    BY <2>1, <2>2, <2>3
  <2> HIDE DEF u, v
  <2>5. t + u = v + z
    BY <2>4
  <2> QED
    BY <2>5 DEF z, u, v
<1> QED
  BY <1>3, <1>5, <1>7, <1>8 DEF Covers, Apart

LEMMA CoversNothing == Covers(0, 0)
<1>1. 0 = 0 + 0 * Top /\ 0 \in 0..Top
  BY TopFacts
<1> QED
  BY <1>1 DEF Covers, Apart

\* The complement of what a checksum covers makes it right.
LEMMA NotCompletes ==
    ASSUME NEW c, NEW t \in Nat, Covers(c, t), NEW b \in Seq(Nat), Total(b) = t + Not(c)
    PROVE  Verifies(b)
<1>1. Top \in Nat /\ Top > 1 /\ c \in 0..Top /\ Not(c) = Top - c
  BY TopFacts DEF Covers, Not
<1>2. PICK q \in Nat : t = c + q * Top
  BY DEF Covers, Apart
<1>3. q * Top \in Nat /\ Total(b) = (q + 1) * Top
  BY <1>1, <1>2
<1>4. Total(b) > 0 /\ Total(b) % Top = 0
  <2> DEFINE x == (q + 1) * Top
  <2>1. x \in Nat /\ x > 0 /\ Apart(x, 0, Top)
    <3>1. x = 0 + (q + 1) * Top /\ q + 1 \in Nat /\ x \in Nat /\ x > 0
      BY <1>1, <1>2
    <3> QED
      BY <3>1 DEF Apart
  <2> HIDE DEF x
  <2>2. x % Top = 0 % Top
    <3>1. 0 \in Nat /\ Top > 0
      BY <1>1
    <3> QED
      BY <1>1, <2>1, <3>1, Residue
  <2>3. 0 % Top = 0
    BY <1>1
  <2> QED
    BY <1>3, <2>1, <2>2, <2>3 DEF x
<1>5. ReceiverSum(b) = SumOf(0, b)
  BY ReceiverSumIs, SumIs, SumsEqual
<1>6. Verifies(b) <=> ReceiverSum(b)[Len(b)] > 0 /\ (ReceiverSum(b)[Len(b)] % Top) = 0
  BY DEF Verifies, ReceiverSum, Top
<1> QED
  BY <1>4, <1>5, <1>6 DEF Total

LEMMA CoversNot ==
    ASSUME NEW c, NEW t, Covers(c, t)
    PROVE  Not(c) \in Word /\ Not(c) \in Nat
<1>1. Top \in Nat /\ Word = 0..Top /\ c \in 0..Top /\ Not(c) = Top - c
  BY TopFacts DEF Covers, Not
<1> QED
  BY <1>1

-----------------------------------------------------------------------------
(***************************************************************************)
(* The checksums of a packet.                                              *)
(***************************************************************************)
LEMMA TotalOfNone ==
    ASSUME NEW b \in Seq(Nat), Len(b) = 0
    PROVE  Total(b) = 0
<1>1. 0 \in Nat
  OBVIOUS
<1>2. Sums(SumOf(0, b), 0, b)
  BY ONLY <1>1, b \in Seq(Nat), SumIs, Zenon
<1> QED
  BY <1>2 DEF Total, Sums

LEMMA FlatOne ==
    ASSUME NEW w \in Nat
    PROVE  Flat(<<w>>) \in Seq(Nat) /\ Len(Flat(<<w>>)) = 2 /\ Total(Flat(<<w>>)) = w
<1> DEFINE none == <<>>
           one == <<w>>
<1>1. /\ none \in Seq(Nat) /\ Len(none) = 0
      /\ one = Append(none, w) /\ one \in Seq(Nat) /\ Len(one) = 1
  OBVIOUS
<1> HIDE DEF none, one
<1>2. Flat(none) \in Seq(Nat) /\ Len(Flat(none)) = 2 * 0
  BY <1>1, FlatSeq
<1>3. Total(Flat(none)) = 0
  <2>1. 2 * 0 = 0
    OBVIOUS
  <2> QED
    BY <1>2, <2>1, TotalOfNone
<1>4. Total(Flat(one)) = Total(Flat(none)) + w
  BY <1>1, TotalAppend
<1>5. Flat(one) \in Seq(Nat) /\ Len(Flat(one)) = 2 * 1
  BY <1>1, FlatSeq
<1>6. Total(Flat(one)) = w
  BY <1>3, <1>4
<1> QED
  BY <1>5, <1>6 DEF one

LEMMA FlatFour ==
    ASSUME NEW a \in Nat, NEW b \in Nat, NEW c \in Nat, NEW d \in Nat
    PROVE  /\ Flat(<<a, b, c, d>>) \in Seq(Nat) /\ Len(Flat(<<a, b, c, d>>)) = 8
           /\ Total(Flat(<<a, b, c, d>>)) = a + b + c + d
<1>1. /\ <<a>> \in Seq(Nat) /\ <<a, b>> \in Seq(Nat) /\ <<a, b, c>> \in Seq(Nat)
      /\ <<a, b, c, d>> \in Seq(Nat) /\ Len(<<a, b, c, d>>) = 4
  OBVIOUS
<1>2. /\ <<a, b>> = Append(<<a>>, b) /\ <<a, b, c>> = Append(<<a, b>>, c)
      /\ <<a, b, c, d>> = Append(<<a, b, c>>, d)
  OBVIOUS
<1>3. Total(Flat(<<a, b>>)) = a + b
  BY <1>1, <1>2, TotalAppend, FlatOne
<1>4. Total(Flat(<<a, b, c>>)) = (a + b) + c
  BY <1>1, <1>2, <1>3, TotalAppend
<1>5. Total(Flat(<<a, b, c, d>>)) = ((a + b) + c) + d
  BY <1>1, <1>2, <1>4, TotalAppend
<1> DEFINE all == <<a, b, c, d>>
<1>6. all \in Seq(Nat) /\ Len(all) = 4
  BY <1>1
<1> HIDE DEF all
<1>7. Flat(all) \in Seq(Nat) /\ Len(Flat(all)) = 2 * 4
  BY <1>6, FlatSeq
<1> QED
  BY <1>5, <1>7 DEF all

\* The header of version 4 carries its own checksum.
LEMMA IpChecked ==
    ASSUME NEW ip, ip.len \in Nat, ip.proto \in Nat, ip.src \in Nat, ip.dst \in Nat,
           NEW check, check = Not(Checksum(0, Flat(Ip4Words(ip))))
    PROVE  check \in Word /\ Verifies(Flat(Ip4Words(ip) \o <<check>>))
<1> DEFINE ws == Ip4Words(ip)
           c == Checksum(0, Flat(ws))
<1>1. ws \in Seq(Nat)
  BY DEF Ip4Words
<1>2. Flat(ws) \in Seq(Nat)
  BY <1>1, FlatSeq
<1> HIDE DEF ws
<1>3. Total(Flat(ws)) \in Nat /\ Covers(c, 0 + Total(Flat(ws)))
  BY <1>2, TotalNat, CoversNothing, ChecksumCovers
<1>4. 0 + Total(Flat(ws)) = Total(Flat(ws))
  BY <1>3
<1>5. check = Not(c)
  BY DEF ws
<1> HIDE DEF c
<1>6. Covers(c, Total(Flat(ws)))
  BY <1>3, <1>4
<1>7. check \in Word /\ check \in Nat
  BY <1>5, <1>6, CoversNot
<1>8. ws \o <<check>> = Append(ws, check)
  BY <1>1, <1>7, AppendIsConcat
<1>9. Total(Flat(Append(ws, check))) = Total(Flat(ws)) + Not(c)
  BY <1>1, <1>5, <1>7, TotalAppend
<1>10. Flat(Append(ws, check)) \in Seq(Nat)
  BY <1>1, <1>7, AppendProperties, FlatSeq
<1> QED
  BY <1>3, <1>6, <1>7, <1>8, <1>9, <1>10, NotCompletes DEF ws

LEMMA EvenSum ==
    ASSUME NEW x \in Nat, NEW y \in Nat, x % 2 = 0, y % 2 = 0
    PROVE  (x + y) % 2 = 0
OBVIOUS

\* The words of a header with their checksum behind them, wherever the data end.
LEMMA Sealed ==
    ASSUME NEW a \in Seq(Nat), Len(a) % 2 = 0, NEW h \in Seq(Nat),
           NEW o \in Seq(Nat), Len(o) % 2 = 0, NEW d \in Seq(Nat),
           NEW c, Covers(c, Total(a) + Total(Flat(h)) + Total(o) + Total(d))
    PROVE  Verifies(a \o Flat(h) \o Bytes(Not(c)) \o o \o d)
<1> DEFINE f == Flat(h)
           k == Bytes(Not(c))
           af == a \o f
           afk == af \o k
           afko == afk \o o
           all == afko \o d
<1>1. Not(c) \in Nat
  BY CoversNot
<1>2. f \in Seq(Nat) /\ Len(f) = 2 * Len(h) /\ k \in Seq(Nat) /\ Len(k) = 2 /\ Total(k) = Not(c)
  BY <1>1, FlatSeq, BytesOf, TotalOfBytes
<1> HIDE DEF f, k
<1>3. af \in Seq(Nat) /\ Len(af) = Len(a) + Len(f)
  BY <1>2, ConcatProperties
<1> HIDE DEF af
<1>4. afk \in Seq(Nat) /\ Len(afk) = Len(af) + Len(k)
  BY <1>2, <1>3, ConcatProperties
<1> HIDE DEF afk
<1>5. afko \in Seq(Nat) /\ Len(afko) = Len(afk) + Len(o)
  BY <1>4, ConcatProperties
<1> HIDE DEF afko
<1>6. all \in Seq(Nat)
  BY <1>5, ConcatProperties
<1>7. Len(af) % 2 = 0 /\ Len(afk) % 2 = 0 /\ Len(afko) % 2 = 0
  <2>1. Len(a) \in Nat /\ Len(h) \in Nat /\ Len(o) \in Nat
    BY LenProperties
  <2>2. Len(af) = Len(a) + 2 * Len(h) /\ Len(af) \in Nat
    BY <1>2, <1>3, <2>1
  <2>3. Len(af) % 2 = 0
    BY <2>1, <2>2
  <2>4. Len(afk) = Len(af) + 2 /\ Len(afk) \in Nat
    BY <1>2, <1>4, <2>2
  <2>5. Len(afk) % 2 = 0
    BY <2>2, <2>3, <2>4
  <2>6. Len(afko) = Len(afk) + Len(o)
    BY <1>5
  <2>7. Len(afko) % 2 = 0
    <3> DEFINE x == Len(afk)
               y == Len(o)
    <3>1. x \in Nat /\ y \in Nat /\ x % 2 = 0 /\ y % 2 = 0
      BY <2>1, <2>4, <2>5
    <3> HIDE DEF x, y
    <3>2. (x + y) % 2 = 0
      BY <3>1, EvenSum
    <3> QED
      BY <2>6, <3>2 DEF x, y
  <2> QED
    BY <2>3, <2>5, <2>7
<1>8. /\ Total(af) = Total(a) + Total(f) /\ Total(afk) = Total(af) + Total(k)
      /\ Total(afko) = Total(afk) + Total(o) /\ Total(all) = Total(afko) + Total(d)
  <2>1. Total(af) = Total(a) + Total(f)
    BY <1>2, TotalConcat DEF af
  <2>2. Total(afk) = Total(af) + Total(k)
    BY <1>2, <1>3, <1>7, TotalConcat DEF afk
  <2>3. Total(afko) = Total(afk) + Total(o)
    BY <1>4, <1>7, TotalConcat DEF afko
  <2>4. Total(all) = Total(afko) + Total(d)
    BY <1>5, <1>7, TotalConcat
  <2> QED
    BY <2>1, <2>2, <2>3, <2>4
<1>9. Total(a) \in Nat /\ Total(f) \in Nat /\ Total(o) \in Nat /\ Total(d) \in Nat
  BY <1>2, TotalNat
<1> DEFINE t == Total(a) + Total(f) + Total(o) + Total(d)
<1>10. t \in Nat /\ Total(all) = t + Not(c) /\ Covers(c, t)
  <2>1. Covers(c, t)
    BY DEF f
  <2> DEFINE w == Total(a)
             x == Total(f)
             y == Total(o)
             z == Total(d)
             e == Not(c)
  <2>2. w \in Nat /\ x \in Nat /\ y \in Nat /\ z \in Nat /\ e \in Nat
    BY <1>1, <1>9
  <2>3. Total(all) = (((w + x) + e) + y) + z
    BY <1>2, <1>8
  <2>4. t = ((w + x) + y) + z
    OBVIOUS
  <2> HIDE DEF w, x, y, z, e, t, all
  <2>5. t \in Nat /\ Total(all) = t + e
    BY <2>2, <2>3, <2>4
  <2> QED
    BY <2>1, <2>5 DEF e
<1> HIDE DEF t, all
<1>11. Verifies(all)
  BY <1>6, <1>10, NotCompletes
<1> QED
  BY <1>11 DEF all, afko, afk, af, f, k

-----------------------------------------------------------------------------
(***************************************************************************)
(* What write_tcp, write_udp and write_icmp build.                         *)
(***************************************************************************)
RePayload(r) == IF r.ip.version = 4 THEN r.ip.len - 20 ELSE r.ip.len
RePseudo(r) == Flat(<<r.ip.src, r.ip.dst, r.ip.proto, RePayload(r)>>)

\* The receiver finds the checksums of r right, with a pseudo header in front.
Sound(r, pseudo) ==
    /\ r.check \in Word /\ r.ipcheck \in Word
    /\ Verifies(pseudo \o Flat(r.header) \o Bytes(r.check) \o r.options \o r.data)
    /\ Verifies(Flat(Ip4Words(r.ip) \o <<r.ipcheck>>))

Speaker(s) == s.version \in {4, 6} /\ s.saddr \in Nat /\ s.daddr \in Nat
Session(s) ==
    /\ Speaker(s) /\ s.source \in Nat /\ s.dest \in Nat /\ s.scale \in Nat
    /\ s.local \in Nat /\ s.remote \in Nat

LEMMA PacketFields ==
    ASSUME NEW ip, NEW h, NEW o, NEW d, NEW k,
           ip.len \in Nat, ip.proto \in Nat, ip.src \in Nat, ip.dst \in Nat
    PROVE  LET r == Packet(ip, h, o, d, k)
           IN  /\ r.ip = ip /\ r.header = h /\ r.options = o /\ r.data = d /\ r.check = k
               /\ r.ipcheck \in Word /\ Verifies(Flat(Ip4Words(r.ip) \o <<r.ipcheck>>))
<1> DEFINE check == Not(Checksum(0, Flat(Ip4Words(ip))))
<1>1. Packet(ip, h, o, d, k) = [ip |-> ip, ipcheck |-> check, header |-> h, options |-> o,
                                 data |-> d, check |-> k]
  BY DEF Packet
<1>2. check \in Word /\ Verifies(Flat(Ip4Words(ip) \o <<check>>))
  BY IpChecked
<1> HIDE DEF check
<1> QED
  BY <1>1, <1>2

LEMMA IpFields ==
    ASSUME NEW s, Speaker(s), NEW proto \in Nat, NEW n \in Nat
    PROVE  LET ip == Ip(s, proto, n)
           IN  /\ ip.len \in Nat /\ ip.proto = proto /\ ip.src = s.daddr /\ ip.dst = s.saddr
               /\ ip.src \in Nat /\ ip.dst \in Nat /\ ip.version = s.version
               /\ n = IF ip.version = 4 THEN ip.len - 20 ELSE ip.len
BY DEF Speaker, Ip

\* The receiver's pseudo header adds up to that of the writer.
LEMMA PseudoSame ==
    ASSUME NEW s, Speaker(s), NEW proto \in Nat, NEW n \in Nat
    PROVE  LET ip == Ip(s, proto, n)
               mine == PseudoHeader(ip, n)
               yours == Flat(<<ip.src, ip.dst, ip.proto, n>>)
           IN  /\ mine \in Seq(Nat) /\ yours \in Seq(Nat) /\ Len(yours) = 8
               /\ Total(mine) = Total(yours)
<1> DEFINE ip == Ip(s, proto, n)
           a == ip.src
           b == ip.dst
           c == ip.proto
           mine == PseudoHeader(ip, n)
           yours == Flat(<<a, b, c, n>>)
           turned == Flat(<<b, a, n, c>>)
<1>1. a \in Nat /\ b \in Nat /\ c \in Nat
  BY IpFields
<1>2. mine = yours \/ mine = turned
  BY DEF PseudoHeader
<1> HIDE DEF ip, a, b, c
<1>3. yours \in Seq(Nat) /\ Len(yours) = 8 /\ Total(yours) = a + b + c + n
  BY <1>1, FlatFour
<1>4. turned \in Seq(Nat) /\ Total(turned) = b + a + n + c
  BY <1>1, FlatFour
<1>5. a + b + c + n = b + a + n + c
  BY <1>1
<1> HIDE DEF mine, yours, turned
<1>6. mine \in Seq(Nat) /\ yours \in Seq(Nat) /\ Len(yours) = 8 /\ Total(mine) = Total(yours)
  BY <1>2, <1>3, <1>4, <1>5
<1> QED
  BY <1>6 DEF ip, a, b, c, mine, yours

LEMMA OptionsOf ==
    ASSUME NEW s, Session(s)
    PROVE  SynOptions(s) \in Seq(Nat) /\ Len(SynOptions(s)) = 8
<1> DEFINE m == Bytes(DefaultMss[s.version])
           head == <<2, 4>>
           tail == <<3, 3, s.scale, 0>>
<1>1. DefaultMss[s.version] \in Nat
  BY DefaultMssAssumption DEF Session, Speaker, Word
<1>2. m \in Seq(Nat) /\ Len(m) = 2
  BY <1>1, BytesOf
<1>3. head \in Seq(Nat) /\ Len(head) = 2 /\ tail \in Seq(Nat) /\ Len(tail) = 4
  BY DEF Session
<1>4. SynOptions(s) = (head \o m) \o tail
  BY DEF SynOptions
<1> HIDE DEF m, head, tail
<1>5. head \o m \in Seq(Nat) /\ Len(head \o m) = Len(head) + Len(m)
  BY <1>2, <1>3, ConcatProperties
<1>6. /\ (head \o m) \o tail \in Seq(Nat)
      /\ Len((head \o m) \o tail) = Len(head \o m) + Len(tail)
  BY <1>3, <1>5, ConcatProperties
<1>7. Len((head \o m) \o tail) = 8
  <2>1. Len(head \o m) = 4
    BY <1>2, <1>3, <1>5
  <2> QED
    BY <1>3, <1>6, <2>1
<1> QED
  BY <1>4, <1>6, <1>7

LEMMA TcpWritten ==
    ASSUME NEW s, Session(s), NEW d \in Seq(Nat), NEW syn \in BOOLEAN, NEW ack \in BOOLEAN
    PROVE  LET r == WriteTcp(s, d, syn, ack)
           IN  /\ Sound(r, RePseudo(r))
               /\ 4 * r.header[5] = 20 + Len(r.options)
               /\ RePayload(r) - 4 * r.header[5] = Len(d)
               /\ r.ip.src = s.daddr /\ r.ip.dst = s.saddr /\ r.ip.version = s.version
               /\ r.header[1] = s.dest /\ r.header[2] = s.source
<1> DEFINE o == IF syn THEN SynOptions(s) ELSE <<>>
           n == 20 + Len(o) + Len(d)
           ip == Ip(s, 6, n)
           h == <<s.dest, s.source, s.local, IF ack THEN s.remote ELSE 0, DataOffset(Len(o))>>
           mine == PseudoHeader(ip, n)
           yours == Flat(<<ip.src, ip.dst, ip.proto, n>>)
           k1 == Checksum(0, mine)
           k2 == Checksum(k1, Flat(h))
           k3 == Checksum(k2, o)
           c == Checksum(k3, d)
           r == Packet(ip, h, o, d, Not(c))
<1>1. WriteTcp(s, d, syn, ack) = r
  BY DEF WriteTcp
<1>2. o \in Seq(Nat) /\ Len(o) \in {0, 8} /\ Len(o) % 2 = 0
  <2>1. CASE syn
    <3>1. o = SynOptions(s)
      BY <2>1
    <3> HIDE DEF o
    <3>2. o \in Seq(Nat) /\ Len(o) = 8
      BY <3>1, OptionsOf
    <3> QED
      BY <3>2
  <2>2. CASE ~syn
    BY <2>2
  <2> QED
    BY <2>1, <2>2
<1> HIDE DEF o
<1>3. DataOffset(Len(o)) \in Nat /\ 4 * DataOffset(Len(o)) = 20 + Len(o)
  <2>1. CASE Len(o) = 0
    BY <2>1 DEF DataOffset
  <2>2. CASE Len(o) = 8
    BY <2>2 DEF DataOffset
  <2> QED
    BY <1>2, <2>1, <2>2
<1>4. h \in Seq(Nat) /\ h[1] = s.dest /\ h[2] = s.source /\ h[5] = DataOffset(Len(o))
  BY <1>3 DEF Session
<1>5. n \in Nat /\ n - (20 + Len(o)) = Len(d)
  BY <1>2, LenProperties
<1> HIDE DEF h, n
<1>6. Speaker(s)
  BY DEF Session
<1>7. /\ ip.len \in Nat /\ ip.proto \in Nat /\ ip.src = s.daddr /\ ip.dst = s.saddr
      /\ ip.src \in Nat /\ ip.dst \in Nat /\ ip.version = s.version
      /\ n = IF ip.version = 4 THEN ip.len - 20 ELSE ip.len
  BY <1>5, <1>6, IpFields
<1>8. mine \in Seq(Nat) /\ yours \in Seq(Nat) /\ Len(yours) = 8 /\ Total(mine) = Total(yours)
  BY <1>5, <1>6, PseudoSame
<1> HIDE DEF ip, mine, yours
<1>9. Flat(h) \in Seq(Nat)
  BY <1>4, FlatSeq
<1> DEFINE t1 == 0 + Total(mine)
           t2 == t1 + Total(Flat(h))
           t3 == t2 + Total(o)
           t4 == t3 + Total(d)
<1>10. /\ t1 \in Nat /\ t2 \in Nat /\ t3 \in Nat /\ t4 \in Nat
       /\ t4 = Total(yours) + Total(Flat(h)) + Total(o) + Total(d)
  <2> DEFINE w == Total(mine)
             x == Total(Flat(h))
             y == Total(o)
             z == Total(d)
  <2>1. w \in Nat /\ Total(yours) = w
    BY <1>8, TotalNat
  <2>2. x \in Nat
    BY <1>9, TotalNat
  <2>3. y \in Nat
    BY <1>2, TotalNat
  <2>4. z \in Nat
    BY TotalNat
  <2> HIDE DEF w, x, y, z
  <2>5. 0 + w \in Nat /\ 0 + w + x \in Nat /\ 0 + w + x + y \in Nat /\ 0 + w + x + y + z \in Nat
        /\ 0 + w + x + y + z = w + x + y + z
    BY <2>1, <2>2, <2>3, <2>4
  <2> QED
    BY <2>1, <2>5 DEF w, x, y, z
<1>11. Covers(c, t4)
  <2> HIDE DEF t1, t2, t3, t4, k1, k2, k3, c
  <2>1. Covers(k1, t1)
    BY <1>8, CoversNothing, ChecksumCovers DEF t1, k1
  <2>2. Covers(k2, t2)
    BY <1>9, <1>10, <2>1, ChecksumCovers DEF t2, k2
  <2>3. Covers(k3, t3)
    BY <1>2, <1>10, <2>2, ChecksumCovers DEF t3, k3
  <2> QED
    BY <1>10, <2>3, ChecksumCovers DEF t4, c
<1> HIDE DEF t1, t2, t3, t4, k1, k2, k3, c
<1>12. Verifies(yours \o Flat(h) \o Bytes(Not(c)) \o o \o d)
  <2>1. Len(yours) % 2 = 0
    BY <1>8
  <2> QED
    BY <1>2, <1>4, <1>8, <1>10, <1>11, <2>1, Sealed
<1>13. Not(c) \in Word
  BY <1>11, CoversNot
<1>14. /\ r.ip = ip /\ r.header = h /\ r.options = o /\ r.data = d /\ r.check = Not(c)
       /\ r.ipcheck \in Word /\ Verifies(Flat(Ip4Words(r.ip) \o <<r.ipcheck>>))
  BY <1>7, PacketFields
<1> HIDE DEF r
<1>15. RePayload(r) = n /\ RePseudo(r) = yours
  BY <1>7, <1>14 DEF RePayload, RePseudo, yours
<1>16. Sound(r, RePseudo(r))
  BY <1>12, <1>13, <1>14, <1>15 DEF Sound
<1>17. 4 * r.header[5] = 20 + Len(r.options) /\ RePayload(r) - 4 * r.header[5] = Len(d)
  BY <1>3, <1>4, <1>5, <1>14, <1>15
<1> QED
  BY <1>1, <1>4, <1>7, <1>14, <1>16, <1>17

LEMMA NothingAdds ==
    ASSUME NEW o, o = <<>>
    PROVE  o \in Seq(Nat) /\ Len(o) % 2 = 0 /\ Total(o) = 0
<1>1. o \in Seq(Nat) /\ Len(o) = 0
  OBVIOUS
<1>2. Len(o) % 2 = 0
  BY <1>1
<1> QED
  BY <1>1, <1>2, TotalOfNone

LEMMA UdpWritten ==
    ASSUME NEW s, Session(s), NEW d \in Seq(Nat)
    PROVE  LET r == WriteUdp(s, d)
           IN  /\ Sound(r, RePseudo(r))
               /\ r.header[3] = RePayload(r) /\ RePayload(r) - 8 = Len(d)
               /\ r.ip.src = s.daddr /\ r.ip.dst = s.saddr /\ r.ip.version = s.version
               /\ r.header[1] = s.dest /\ r.header[2] = s.source
<1> DEFINE o == <<>>
           n == 8 + Len(d)
           ip == Ip(s, 1, n)
           h == <<s.dest, s.source, n>>
           mine == PseudoHeader(ip, n)
           yours == Flat(<<ip.src, ip.dst, ip.proto, n>>)
           k1 == Checksum(0, mine)
           k2 == Checksum(k1, Flat(h))
           c == Checksum(k2, d)
           r == Packet(ip, h, o, d, Not(c))
<1>1. WriteUdp(s, d) = r
  BY DEF WriteUdp
<1>2. o \in Seq(Nat) /\ Len(o) % 2 = 0 /\ Total(o) = 0
  BY NothingAdds
<1> HIDE DEF o
<1>3. n \in Nat /\ n - 8 = Len(d)
  BY LenProperties
<1> HIDE DEF n
<1>4. h \in Seq(Nat) /\ h[1] = s.dest /\ h[2] = s.source /\ h[3] = n
  BY <1>3 DEF Session
<1> HIDE DEF h
<1>5. Speaker(s)
  BY DEF Session
<1>6. /\ ip.len \in Nat /\ ip.proto \in Nat /\ ip.src = s.daddr /\ ip.dst = s.saddr
      /\ ip.src \in Nat /\ ip.dst \in Nat /\ ip.version = s.version
      /\ n = IF ip.version = 4 THEN ip.len - 20 ELSE ip.len
  BY <1>3, <1>5, IpFields
<1>7. mine \in Seq(Nat) /\ yours \in Seq(Nat) /\ Len(yours) = 8 /\ Total(mine) = Total(yours)
  BY <1>3, <1>5, PseudoSame
<1> HIDE DEF ip, mine, yours
<1>8. Flat(h) \in Seq(Nat)
  BY <1>4, FlatSeq
<1> DEFINE t1 == 0 + Total(mine)
           t2 == t1 + Total(Flat(h))
           t3 == t2 + Total(d)
<1>9. t1 \in Nat /\ t2 \in Nat /\ t3 \in Nat
  BY <1>7, <1>8, TotalNat
<1>10. t3 = Total(yours) + Total(Flat(h)) + Total(o) + Total(d)
  BY <1>2, <1>7, <1>8, TotalNat
<1>11. Covers(c, t3)
  <2> HIDE DEF t1, t2, t3, k1, k2, c
  <2>1. Covers(k1, t1)
    BY <1>7, CoversNothing, ChecksumCovers DEF t1, k1
  <2>2. Covers(k2, t2)
    BY <1>8, <1>9, <2>1, ChecksumCovers DEF t2, k2
  <2> QED
    BY <1>9, <2>2, ChecksumCovers DEF t3, c
<1> HIDE DEF t1, t2, t3, k1, k2, c
<1>12. Verifies(yours \o Flat(h) \o Bytes(Not(c)) \o o \o d)
  <2>1. Len(yours) % 2 = 0
    BY <1>7
  <2> QED
    BY <1>2, <1>4, <1>7, <1>10, <1>11, <2>1, Sealed
<1>13. Not(c) \in Word
  BY <1>11, CoversNot
<1>14. /\ r.ip = ip /\ r.header = h /\ r.options = o /\ r.data = d /\ r.check = Not(c)
       /\ r.ipcheck \in Word /\ Verifies(Flat(Ip4Words(r.ip) \o <<r.ipcheck>>))
  BY <1>6, PacketFields
<1> HIDE DEF r
<1>15. RePayload(r) = n /\ RePseudo(r) = yours
  BY <1>6, <1>14 DEF RePayload, RePseudo, yours
<1>16. Sound(r, RePseudo(r))
  BY <1>12, <1>13, <1>14, <1>15 DEF Sound
<1>17. r.header[3] = RePayload(r) /\ RePayload(r) - 8 = Len(d)
  BY <1>3, <1>4, <1>14, <1>15
<1> QED
  BY <1>1, <1>4, <1>6, <1>14, <1>16, <1>17

LEMMA IcmpWritten ==
    ASSUME NEW s, Speaker(s), s.id \in Nat, NEW d \in Seq(Nat)
    PROVE  LET r == WriteIcmp(s, d)
           IN  /\ Sound(r, <<>>)
               /\ RePayload(r) - 2 = Len(d)
               /\ r.ip.src = s.daddr /\ r.ip.dst = s.saddr /\ r.ip.version = s.version
<1> DEFINE o == <<>>
           n == 2 + Len(d)
           ip == Ip(s, 0, n)
           h == <<s.id>>
           b == Bytes(s.id) \o d
           c == Checksum(0, b)
           r == Packet(ip, h, o, d, Not(c))
<1>1. WriteIcmp(s, d) = r
  BY DEF WriteIcmp
<1>2. o \in Seq(Nat) /\ Len(o) % 2 = 0 /\ Total(o) = 0
  BY NothingAdds
<1>3. n \in Nat /\ n - 2 = Len(d)
  BY LenProperties
<1> HIDE DEF n
<1>4. h \in Seq(Nat) /\ Total(Flat(h)) = s.id
  BY FlatOne
<1>5. /\ ip.len \in Nat /\ ip.proto \in Nat /\ ip.src = s.daddr /\ ip.dst = s.saddr
      /\ ip.src \in Nat /\ ip.dst \in Nat /\ ip.version = s.version
      /\ n = IF ip.version = 4 THEN ip.len - 20 ELSE ip.len
  BY <1>3, IpFields
<1> HIDE DEF ip, h
<1>6. b \in Seq(Nat) /\ Total(b) = s.id + Total(d)
  <2>1. Bytes(s.id) \in Seq(Nat) /\ Len(Bytes(s.id)) = 2 /\ Total(Bytes(s.id)) = s.id
    BY BytesOf, TotalOfBytes
  <2>2. Len(Bytes(s.id)) % 2 = 0
    BY <2>1
  <2> QED
    BY <2>1, <2>2, ConcatProperties, TotalConcat
<1> HIDE DEF o, b
<1>7. 0 + Total(b) = Total(o) + Total(Flat(h)) + Total(o) + Total(d)
  BY <1>2, <1>4, <1>6, TotalNat
<1>8. Covers(c, 0 + Total(b))
  BY <1>6, CoversNothing, ChecksumCovers
<1> HIDE DEF c
<1>9. Verifies(o \o Flat(h) \o Bytes(Not(c)) \o o \o d)
  BY <1>2, <1>4, <1>7, <1>8, Sealed
<1>10. Not(c) \in Word
  BY <1>8, CoversNot
<1>11. /\ r.ip = ip /\ r.header = h /\ r.options = o /\ r.data = d /\ r.check = Not(c)
       /\ r.ipcheck \in Word /\ Verifies(Flat(Ip4Words(r.ip) \o <<r.ipcheck>>))
  BY <1>5, PacketFields
<1> HIDE DEF r
<1>12. Sound(r, o)
  BY <1>9, <1>10, <1>11 DEF Sound
<1>13. RePayload(r) - 2 = Len(d)
  BY <1>3, <1>5, <1>11 DEF RePayload
<1> QED
  BY <1>1, <1>5, <1>11, <1>12, <1>13 DEF o

-----------------------------------------------------------------------------
(***************************************************************************)
(* handle_ip.                                                              *)
(***************************************************************************)
\* The chain of extension headers is left before a transport header is reached.
LEMMA ChainEndsBelow ==
    ASSUME NEW p \in Packets6, ChainEnd(p) \in Upper
    PROVE  p.chain[1] \in Upper
<1> DEFINE ch == p.chain
           n == Len(ch)
           On(i) == i < n /\ ch[i] \notin Upper /\ ch[i + 1] \in Lower
           Is(b) == b = [i \in 1..n |-> IF On(i) THEN b[i + 1] ELSE ch[i]]
           B == CHOOSE b : Is(b)
<1>1. n \in 1..3
  <2>1. PICK m \in 1..3 : ch \in [1..m -> Protocols \cup {"ext"}]
    BY DEF Packets6, Chains
  <2>2. ch \in Seq(Protocols \cup {"ext"}) /\ Len(ch) = m
    BY <2>1
  <2> QED
    BY <2>2
<1>2. ChainEnd(p) = IF B[1] \in Upper THEN B[1] ELSE ch[1]
  BY DEF ChainEnd
<1>3. \E b : Is(b)
  <2> DEFINE w == [i \in 1..n |-> IF ~On(i) THEN ch[i]
                                  ELSE IF On(i + 1) THEN ch[i + 2] ELSE ch[i + 1]]
  <2>1. \A i \in 1..n : On(i) => i + 1 \in 1..n /\ i \in 1..2
    BY <1>1
  <2>2. \A i \in 1..n : On(i) /\ On(i + 1) => ~On(i + 2) /\ i + 2 \in 1..n
    BY <1>1
  <2> HIDE DEF On, ch, n
  <2>3. \A i \in 1..n : w[i] = IF On(i) THEN w[i + 1] ELSE ch[i]
    <3> SUFFICES ASSUME NEW i \in 1..n PROVE w[i] = IF On(i) THEN w[i + 1] ELSE ch[i]
      OBVIOUS
    <3>1. CASE ~On(i)
      BY <3>1
    <3>2. CASE On(i)
      <4>1. i + 1 \in 1..n /\ (i + 1) + 1 = i + 2
        BY <1>1, <2>1, <3>2
      <4>2. w[i] = IF On(i + 1) THEN ch[i + 2] ELSE ch[i + 1]
        BY <3>2
      <4>3. CASE On(i + 1)
        <5>1. ~On(i + 2)
          BY <2>2, <3>2, <4>3
        <5>2. w[i + 1] = IF On(i + 2) THEN ch[i + 3] ELSE ch[i + 2]
          BY <4>1, <4>3, <5>1
        <5> QED
          BY <3>2, <4>2, <4>3, <5>1, <5>2
      <4>4. CASE ~On(i + 1)
        BY <3>2, <4>1, <4>2, <4>4
      <4> QED
        BY <4>3, <4>4
    <3> QED
      BY <3>1, <3>2
  <2>4. w = [i \in 1..n |-> w[i]]
    OBVIOUS
  <2> HIDE DEF w
  <2>5. w = [i \in 1..n |-> IF On(i) THEN w[i + 1] ELSE ch[i]]
    BY <2>3, <2>4
  <2> QED
    BY <2>5
<1>4. Is(B)
  <2> HIDE DEF Is
  <2> QED
    BY <1>3
<1> HIDE DEF B
<1>5. \A i \in 1..n : B[i] = IF On(i) THEN B[i + 1] ELSE ch[i]
  BY <1>4
<1>6. \A x \in Lower : x \notin Upper
  BY DEF Lower, Upper
<1>7. \A i \in 1..n : On(i) => i + 1 \in 1..n /\ ch[i + 1] \notin Upper
  BY <1>1, <1>6
<1>8. \A i \in 1..n : i = 3 => ~On(i)
  BY <1>1
<1> HIDE DEF On, ch, n
<1>9. \A i \in 1..n : i = 3 /\ ch[i] \notin Upper => B[i] \notin Upper
  BY <1>5, <1>8
<1>10. \A i \in 1..n : i = 2 /\ ch[i] \notin Upper => B[i] \notin Upper
  <2> SUFFICES ASSUME 2 \in 1..n, ch[2] \notin Upper PROVE B[2] \notin Upper
    OBVIOUS
  <2>1. CASE ~On(2)
    BY <1>5, <2>1
  <2>2. CASE On(2)
    <3>1. 2 + 1 = 3
      OBVIOUS
    <3> QED
      BY <1>5, <1>7, <1>9, <2>2, <3>1
  <2> QED
    BY <2>1, <2>2
<1>11. 1 \in 1..n
  BY <1>1
<1>12. ch[1] \notin Upper => B[1] \notin Upper
  <2> SUFFICES ASSUME ch[1] \notin Upper PROVE B[1] \notin Upper
    OBVIOUS
  <2>1. CASE ~On(1)
    BY <1>5, <1>11, <2>1
  <2>2. CASE On(1)
    <3>1. 1 + 1 = 2
      OBVIOUS
    <3> QED
      BY <1>5, <1>7, <1>10, <1>11, <2>2, <3>1
  <2> QED
    BY <2>1, <2>2
<1> QED
  BY <1>2, <1>12 DEF ch

LEMMA Dispatched ==
    ASSUME NEW p \in Packets4 \cup Packets6 \cup OtherPackets
    PROVE  LET r == HandleIp(p)
           IN  /\ r \in [to : {"none", "tcp", "udp", "icmp"}, payload : Nat]
               /\ r.to # "none" =>
                     /\ p.version = 6 => p.chain[1] \in Upper
                     /\ \/ Payload(p) + TransportHeader[r.to] <= p.length
                        \/ p.version = 4 /\ Payload4(p) > p.length
<1> DEFINE r == HandleIp(p)
           k == Kind(Protocol(p))
           q == Protocol(p)
<1>1. CASE r = Drop
  BY <1>1 DEF Drop
<1>2. CASE r # Drop
  <2>1. WellFormed(p) /\ q \in Upper /\ LongEnough(p, k) /\ r = [to |-> k, payload |-> Payload(p)]
    BY <1>2 DEF HandleIp
  <2>2. k \in {"tcp", "udp", "icmp"}
    BY <2>1 DEF Upper, Kind
  <2>3. p.length \in Nat
    BY LengthsAssumption DEF Packets4, Packets6, OtherPackets
  <2> HIDE DEF r, k
  <2>4. r.to = k /\ r.payload = Payload(p)
    BY <2>1
  <2>5. TransportHeader[k] \in Nat
    BY <2>2 DEF TransportHeader
  <2>6. Payload(p) \in Nat => r \in [to : {"none", "tcp", "udp", "icmp"}, payload : Nat]
    BY <2>1, <2>2
  <2>7. Payload(p) \in Nat => Payload(p) + TransportHeader[k] <= p.length \/ Payload(p) > p.length
    BY <2>1, <2>3, <2>5 DEF LongEnough
  <2>8. CASE p.version = 4
    <3>1. p \in Packets4
      BY <2>8 DEF Packets4, Packets6, OtherPackets
    <3>2. Payload(p) = Payload4(p) /\ Payload(p) \in Nat
      BY <2>8, <3>1 DEF Payload, Payload4, Packets4
    <3> QED
      BY <2>8, <2>4, <2>6, <2>7, <3>2 DEF r
  <2>9. CASE p.version = 6
    <3>1. p \in Packets6
      BY <2>9 DEF Packets4, Packets6, OtherPackets
    <3>2. Payload(p) = 40 /\ p.length >= 40
      BY <2>1, <2>9 DEF Payload, WellFormed, IpHeader
    <3>3. p.chain[1] \in Upper
      BY <2>1, <2>9, <3>1, ChainEndsBelow DEF Protocol
    <3> QED
      BY <2>3, <2>9, <2>4, <2>6, <2>7, <3>2, <3>3 DEF r
  <2> QED
    BY <2>1, <2>8, <2>9 DEF WellFormed
<1> QED
  BY <1>1, <1>2

-----------------------------------------------------------------------------
(***************************************************************************)
(* Functions that recurse upwards.  The position p of a message is left    *)
(* for a later one, next[p], until it is in stop; behind n all are.        *)
(***************************************************************************)
Upward(stop, next, n) ==
    /\ stop \subseteq Nat /\ next \in [Nat -> Nat]
    /\ \A p \in Nat \ stop : p <= n /\ next[p] > p
Recurs(g, stop, val, next) == g = [p \in Nat |-> IF p \in stop THEN val[p] ELSE g[next[p]]]

\* Such a function exists.
LEMMA RecursionExists ==
    ASSUME NEW n \in Nat, NEW stop, NEW next, Upward(stop, next, n), NEW V, NEW val \in [Nat -> V]
    PROVE  \E g : Recurs(g, stop, val, next)
<1> DEFINE From(g, k) == /\ g \in [Nat -> V]
                         /\ \A p \in Nat : p + k > n =>
                              g[p] = IF p \in stop THEN val[p] ELSE g[next[p]]
           Done == {k \in 0..(n + 1) : \E g : From(g, k)}
<1>1. From(val, 0)
  BY DEF Upward
<1>2. ASSUME NEW k \in 1..(n + 1), NEW g, From(g, k - 1)
      PROVE  \E h : From(h, k)
  <2> DEFINE q == n + 1 - k
             h == [g EXCEPT ![q] = IF q \in stop THEN val[q] ELSE g[next[q]]]
  <2>1. q \in Nat /\ q + k = n + 1
    BY <1>2
  <2>2. next[q] \in Nat /\ (q \notin stop => next[q] > q)
    BY <2>1 DEF Upward
  <2>3. h \in [Nat -> V]
    BY <1>2, <2>1, <2>2
  <2>4. h[q] = IF q \in stop THEN val[q] ELSE g[next[q]]
    BY <1>2, <2>1
  <2>5. \A p \in Nat : p # q => h[p] = g[p]
    BY <1>2, <2>1
  <2> HIDE DEF h
  <2>6. ASSUME NEW p \in Nat, p + k > n
        PROVE  h[p] = IF p \in stop THEN val[p] ELSE h[next[p]]
    <3>1. p >= q
      BY <2>1, <2>6
    <3>2. CASE p = q
      BY <2>2, <2>4, <2>5, <3>2
    <3>3. CASE p > q
      <4>1. p + (k - 1) > n /\ p # q
        BY <2>1, <3>3
      <4>2. p \notin stop => next[p] \in Nat /\ next[p] # q
        BY <2>1, <3>3 DEF Upward
      <4>3. g[p] = IF p \in stop THEN val[p] ELSE g[next[p]]
        BY <1>2, <4>1
      <4> QED
        BY <2>5, <4>1, <4>2, <4>3
    <3> QED
      BY <2>1, <3>1, <3>2, <3>3
  <2>7. From(h, k)
    BY <2>3, <2>6
  <2> QED
    BY <2>7
<1> HIDE DEF From
<1>3. Done = 0..(n + 1)
  <2>1. Done \in SUBSET (0..(n + 1)) /\ 0 \in Done
    BY <1>1
  <2>2. \A k \in 1..(n + 1) : k - 1 \in Done => k \in Done
    BY <1>2
  <2> HIDE DEF Done
  <2>3. n + 1 \in Nat
    OBVIOUS
  <2> QED
    BY <2>1, <2>2, <2>3, UpTo
<1>4. PICK g : From(g, n + 1)
  <2>1. n + 1 \in Done
    BY <1>3
  <2> QED
    BY <2>1
<1>5. \A p \in Nat : g[p] = IF p \in stop THEN val[p] ELSE g[next[p]]
  BY <1>4 DEF From
<1>6. g = [p \in Nat |-> g[p]]
  BY <1>4 DEF From
<1>7. Recurs(g, stop, val, next)
  BY <1>5, <1>6 DEF Recurs
<1> QED
  BY <1>7

\* It has no values but those at which it stops.
LEMMA RecursionIn ==
    ASSUME NEW n \in Nat, NEW stop, NEW next, Upward(stop, next, n), NEW V, NEW val \in [Nat -> V],
           NEW g, Recurs(g, stop, val, next)
    PROVE  \A p \in Nat : g[p] \in V
<1> DEFINE Done == {k \in 0..(n + 1) : \A p \in Nat : p + k > n => g[p] \in V}
<1>1. \A p \in Nat : g[p] = IF p \in stop THEN val[p] ELSE g[next[p]]
  BY DEF Recurs
<1>2. 0 \in Done
  BY <1>1 DEF Upward
<1>3. ASSUME NEW k \in 1..(n + 1), k - 1 \in Done PROVE k \in Done
  <2> SUFFICES ASSUME NEW p \in Nat, p + k > n PROVE g[p] \in V
    OBVIOUS
  <2>1. CASE p \in stop
    BY <1>1, <2>1
  <2>2. CASE p \notin stop
    <3>1. next[p] \in Nat /\ next[p] > p
      BY <2>2 DEF Upward
    <3>2. next[p] + (k - 1) > n
      BY <3>1
    <3>3. g[next[p]] \in V
      BY <1>3, <3>1, <3>2
    <3> QED
      BY <1>1, <2>2, <3>3
  <2> QED
    BY <2>1, <2>2
<1>4. Done = 0..(n + 1)
  <2>1. Done \in SUBSET (0..(n + 1)) /\ n + 1 \in Nat
    OBVIOUS
  <2> HIDE DEF Done
  <2> QED
    BY <1>2, <1>3, <2>1, UpTo
<1>5. n + 1 \in Done
  <2> HIDE DEF Done
  <2> QED
    BY <1>4
<1> QED
  BY <1>5

-----------------------------------------------------------------------------
(***************************************************************************)
(* What parse_tls_header reads.                                            *)
(***************************************************************************)
\* The bytes of x stand in d behind one another.
PieceAt(d, x, from) ==
    /\ from + Len(x) <= Len(d)
    /\ \A k \in 1..Len(x) : x[k] = d[from + k]
Pieces(d) == {x \in Seq(Nat) : \E from \in Nat : PieceAt(d, x, from)}

LEMMA AtNat ==
    ASSUME NEW d \in Seq(Nat), NEW pos \in Nat
    PROVE  /\ At(d, pos) \in Nat /\ Two(d, pos) \in Nat
           /\ pos < Len(d) => At(d, pos) = d[pos + 1]
<1>1. Len(d) \in Nat
  BY LenProperties
<1>2. \A p \in Nat : At(d, p) \in Nat
  <2> SUFFICES ASSUME NEW p \in Nat PROVE At(d, p) \in Nat
    OBVIOUS
  <2>1. p < Len(d) => p + 1 \in 1..Len(d)
    BY <1>1
  <2> QED
    BY <2>1, ElementOfSeq DEF At, Outside
<1>3. pos + 1 \in Nat
  OBVIOUS
<1>4. Two(d, pos) = 256 * At(d, pos) + At(d, pos + 1)
  BY DEF Two
<1>5. Two(d, pos) \in Nat
  <2>1. \A x, y \in Nat : 256 * x + y \in Nat
    OBVIOUS
  <2>2. At(d, pos) \in Nat /\ At(d, pos + 1) \in Nat
    BY <1>2, <1>3
  <2> QED
    BY <1>4, <2>1, <2>2
<1> QED
  BY <1>2, <1>5 DEF At

LEMMA NoneIsPiece ==
    ASSUME NEW d \in Seq(Nat)
    PROVE  None \in Pieces(d)
<1>1. None \in Seq(Nat) /\ Len(None) = 0 /\ Len(d) \in Nat
  BY LenProperties DEF None
<1>2. PieceAt(d, None, 0)
  BY <1>1 DEF PieceAt
<1> QED
  BY <1>1, <1>2 DEF Pieces

LEMMA AreaIs ==
    ASSUME NEW d \in Seq(Nat), NEW from \in Nat, NEW len \in Nat, from + len <= Len(d)
    PROVE  LET a == AreaFrom(d, from, len)
           IN  a \in Seq(Nat) /\ Len(a) = len /\ \A k \in 1..len : a[k] = d[from + k]
<1>1. Len(d) \in Nat
  BY LenProperties
<1> DEFINE a == AreaFrom(d, from, len)
<1>2. a = [k \in 1..len |-> d[from + k]]
  <2>1. from + 1 \in Int /\ from + len \in Int
    OBVIOUS
  <2>2. SubSeq(d, from + 1, from + len) = [k \in 1..((1 + (from + len)) - (from + 1)) |-> d[(k + (from + 1)) - 1]]
    BY <2>1
  <2>3. (1 + (from + len)) - (from + 1) = len /\ \A k \in 1..len : (k + (from + 1)) - 1 = from + k
    OBVIOUS
  <2> QED
    BY <2>2, <2>3 DEF AreaFrom
<1>3. \A k \in 1..len : from + k \in 1..Len(d)
  BY <1>1
<1>4. \A k \in 1..len : d[from + k] \in Nat
  BY <1>3, ElementOfSeq
<1> QED
  BY <1>2, <1>4

LEMMA PieceOfArea ==
    ASSUME NEW d \in Seq(Nat), NEW from \in Nat, NEW len \in Nat, from + len <= Len(d),
           NEW x \in Pieces(AreaFrom(d, from, len))
    PROVE  x \in Pieces(d)
<1> DEFINE a == AreaFrom(d, from, len)
<1>1. a \in Seq(Nat) /\ Len(a) = len /\ \A k \in 1..len : a[k] = d[from + k]
  BY AreaIs
<1> HIDE DEF a
<1>2. x \in Seq(Nat) /\ Len(x) \in Nat /\ Len(d) \in Nat
  BY LenProperties DEF Pieces
<1>3. PICK f \in Nat : f + Len(x) <= Len(a) /\ \A k \in 1..Len(x) : x[k] = a[f + k]
  BY DEF Pieces, PieceAt, a
<1>4. (from + f) + Len(x) <= Len(d) /\ from + f \in Nat
  BY <1>1, <1>2, <1>3
<1>5. ASSUME NEW k \in 1..Len(x) PROVE x[k] = d[(from + f) + k]
  <2> DEFINE n == Len(x)
  <2>1. n \in Nat /\ f + n <= len /\ k \in 1..n
    BY <1>1, <1>2, <1>3
  <2> HIDE DEF n
  <2>2. f + k \in 1..len /\ from + (f + k) = (from + f) + k
    BY <2>1
  <2>3. x[k] = a[f + k]
    BY <1>3
  <2>4. a[f + k] = d[from + (f + k)]
    BY <1>1, <2>2
  <2> QED
    BY <2>2, <2>3, <2>4
<1> QED
  BY <1>2, <1>4, <1>5 DEF Pieces, PieceAt

LEMMA CopiedIsPiece ==
    ASSUME NEW d \in Seq(Nat), NEW pos \in Nat, NEW len \in Nat, pos + len <= Len(d)
    PROVE  CopiedName(d, pos, len) \in Pieces(d)
<1> DEFINE size == Least(len, FQDN_MAX)
           stop == {k \in 0..size : k = size \/ At(d, pos + k) = 0}
           n == CHOOSE k \in stop : \A l \in stop : k <= l
           x == [k \in 1..n |-> At(d, pos + k - 1)]
<1>1. CopiedName(d, pos, len) = x
  BY DEF CopiedName
<1>2. size \in Nat /\ size <= len
  BY DEF Least, FQDN_MAX
<1> HIDE DEF size
<1>3. n \in 0..size
  <2>1. stop \in SUBSET Nat /\ size \in stop /\ stop \subseteq 0..size
    BY <1>2
  <2> HIDE DEF stop
  <2>2. \E k \in stop : \A l \in stop : k <= l
    BY <2>1, Smallest
  <2>3. n \in stop
    BY <2>2
  <2> QED
    BY <2>1, <2>3
<1> HIDE DEF n
<1>4. n \in Nat /\ pos + n <= Len(d) /\ Len(d) \in Nat
  BY <1>2, <1>3, LenProperties
<1>5. ASSUME NEW k \in 1..n PROVE At(d, pos + k - 1) = d[pos + k] /\ At(d, pos + k - 1) \in Nat
  <2>1. pos + k - 1 \in Nat /\ pos + k - 1 < Len(d) /\ (pos + k - 1) + 1 = pos + k
    BY <1>4
  <2> QED
    BY <2>1, AtNat
<1>6. x \in Seq(Nat) /\ Len(x) = n /\ \A k \in 1..n : x[k] = d[pos + k]
  <2> DEFINE b(k) == At(d, pos + k - 1)
  <2>1. \A k \in 1..n : b(k) \in Nat /\ b(k) = d[pos + k]
    BY <1>5
  <2>2. x = [k \in 1..n |-> b(k)]
    OBVIOUS
  <2> HIDE DEF b, x
  <2>3. x \in [1..n -> Nat] /\ \A k \in 1..n : x[k] = d[pos + k]
    BY <2>1, <2>2
  <2> QED
    BY <1>4, <2>3
<1> HIDE DEF x
<1>7. PieceAt(d, x, pos)
  BY <1>4, <1>6 DEF PieceAt
<1> QED
  BY <1>1, <1>6, <1>7 DEF Pieces

\* The entry of a name at p, and where the next one stands
EntryStops(d) ==
    {p \in Nat : \/ p + 3 >= Len(d)
                 \/ p + 3 + Two(d, p + 1) > Len(d)
                 \/ At(d, p) = 0}
EntryName(d) ==
    [p \in Nat |-> IF p + 3 >= Len(d) THEN None
                   ELSE IF p + 3 + Two(d, p + 1) > Len(d) THEN None
                   ELSE CopiedName(d, p + 3, Two(d, p + 1))]
NextEntry(d) == [p \in Nat |-> p + 3 + Two(d, p + 1)]

\* The function of parse_server_name_extension
EntryNamesAre(g, d) ==
    g = [pos \in Nat |->
            IF pos + 3 >= Len(d) THEN None
            ELSE LET len == Two(d, pos + 1)
                 IN  IF pos + 3 + len > Len(d) THEN None
                     ELSE IF At(d, pos) = 0 THEN CopiedName(d, pos + 3, len)
                     ELSE g[pos + 3 + len]]
EntryNames(d) == CHOOSE g : EntryNamesAre(g, d)

LEMMA EntriesRead ==
    ASSUME NEW d \in Seq(Nat)
    PROVE  /\ parse_server_name_extension(d) = EntryNames(d)[2]
           /\ EntryNamesAre(EntryNames(d), d)
           /\ \A p \in Nat : EntryNames(d)[p] \in Pieces(d)
<1> DEFINE stop == EntryStops(d)
           val  == EntryName(d)
           next == NextEntry(d)
           V    == Pieces(d)
           n    == Len(d)
           Is(g) == EntryNamesAre(g, d)
           name == EntryNames(d)
<1>1. n \in Nat
  BY LenProperties
<1>2. parse_server_name_extension(d) = name[2]
  BY DEF parse_server_name_extension, EntryNames, EntryNamesAre
<1>3. ASSUME NEW p \in Nat
      PROVE  Two(d, p + 1) \in Nat /\ At(d, p) \in Nat /\ p + 3 \in Nat /\ p + 3 + Two(d, p + 1) \in Nat
  <2>1. p + 1 \in Nat /\ p + 3 \in Nat
    OBVIOUS
  <2>2. Two(d, p + 1) \in Nat /\ At(d, p) \in Nat
    BY <2>1, AtNat
  <2> QED
    BY <2>1, <2>2
<1>4. Upward(stop, next, n)
  <2>1. next \in [Nat -> Nat] /\ stop \subseteq Nat
    BY <1>3 DEF NextEntry, EntryStops
  <2>2. ASSUME NEW p \in Nat \ stop PROVE p <= n /\ next[p] > p
    <3> DEFINE t == Two(d, p + 1)
    <3>1. t \in Nat /\ next[p] = p + 3 + t
      BY <1>3 DEF NextEntry
    <3> HIDE DEF t
    <3>2. ~(p + 3 >= Len(d))
      BY DEF EntryStops
    <3>3. p + 3 + t > p
      BY <3>1
    <3> QED
      BY <1>1, <3>1, <3>2, <3>3
  <2> QED
    BY <2>1, <2>2 DEF Upward
<1>5. val \in [Nat -> V]
  <2> SUFFICES ASSUME NEW p \in Nat PROVE EntryName(d)[p] \in V
    BY DEF EntryName
  <2>1. None \in V
    BY NoneIsPiece
  <2>2. ~(p + 3 + Two(d, p + 1) > Len(d)) => CopiedName(d, p + 3, Two(d, p + 1)) \in V
    <3> DEFINE t == Two(d, p + 1)
    <3>1. t \in Nat /\ p + 3 \in Nat
      BY <1>3
    <3> HIDE DEF t
    <3>2. ~(p + 3 + t > Len(d)) => (p + 3) + t <= Len(d)
      BY <1>1, <3>1
    <3>3. (p + 3) + t <= Len(d) => CopiedName(d, p + 3, t) \in V
      BY <3>1, CopiedIsPiece
    <3> QED
      BY <3>2, <3>3 DEF t
  <2> QED
    BY <2>1, <2>2 DEF EntryName
<1>6. \A g : Is(g) <=> Recurs(g, stop, val, next)
  BY DEF Recurs, EntryStops, EntryName, NextEntry, EntryNamesAre
<1> HIDE DEF stop, val, next, V, n, Is
<1>7. \E g : Is(g)
  BY <1>1, <1>4, <1>5, <1>6, RecursionExists
<1>8. Is(name)
  BY <1>7 DEF Is, EntryNames
<1> HIDE DEF name
<1>9. \A p \in Nat : name[p] \in V
  BY <1>1, <1>4, <1>5, <1>6, <1>8, RecursionIn
<1> QED
  BY <1>2, <1>8, <1>9 DEF Is, V, name

LEMMA ServerNameIsPiece ==
    ASSUME NEW d \in Seq(Nat)
    PROVE  parse_server_name_extension(d) \in Pieces(d)
BY EntriesRead

\* The extension at p, and where the next one stands
ExtensionStops(d) == {p \in Nat : p + 4 > Len(d) \/ Two(d, p) = 0}
ExtensionName(d) ==
    [p \in Nat |-> IF p + 4 > Len(d) THEN None
                   ELSE IF p + 4 + Two(d, p + 2) > Len(d) THEN None
                   ELSE parse_server_name_extension(AreaFrom(d, p + 4, Two(d, p + 2)))]
NextExtension(d) == [p \in Nat |-> p + 4 + Two(d, p + 2)]

\* The function of parse_extensions
ExtensionNamesAre(g, d) ==
    g = [pos \in Nat |->
            IF pos + 4 > Len(d) THEN None
            ELSE LET len == Two(d, pos + 2)
                 IN  IF Two(d, pos) # 0 THEN g[pos + 4 + len]
                     ELSE IF pos + 4 + len > Len(d) THEN None
                     ELSE parse_server_name_extension(AreaFrom(d, pos + 4, len))]
ExtensionNames(d) == CHOOSE g : ExtensionNamesAre(g, d)

LEMMA ExtensionsRead ==
    ASSUME NEW d \in Seq(Nat)
    PROVE  /\ parse_extensions(d) = ExtensionNames(d)[0]
           /\ ExtensionNamesAre(ExtensionNames(d), d)
           /\ \A p \in Nat : ExtensionNames(d)[p] \in Pieces(d)
<1> DEFINE stop == ExtensionStops(d)
           val  == ExtensionName(d)
           next == NextExtension(d)
           V    == Pieces(d)
           n    == Len(d)
           Is(g) == ExtensionNamesAre(g, d)
           ext  == ExtensionNames(d)
<1>1. n \in Nat
  BY LenProperties
<1>2. parse_extensions(d) = ext[0]
  BY DEF parse_extensions, ExtensionNames, ExtensionNamesAre
<1>3. ASSUME NEW p \in Nat
      PROVE  Two(d, p + 2) \in Nat /\ p + 4 \in Nat /\ p + 4 + Two(d, p + 2) \in Nat
  <2>1. p + 2 \in Nat /\ p + 4 \in Nat
    OBVIOUS
  <2>2. Two(d, p + 2) \in Nat
    BY <2>1, AtNat
  <2> QED
    BY <2>1, <2>2
<1>4. Upward(stop, next, n)
  <2>1. next \in [Nat -> Nat] /\ stop \subseteq Nat
    BY <1>3 DEF NextExtension, ExtensionStops
  <2>2. ASSUME NEW p \in Nat \ stop PROVE p <= n /\ next[p] > p
    <3> DEFINE t == Two(d, p + 2)
    <3>1. t \in Nat /\ next[p] = p + 4 + t
      BY <1>3 DEF NextExtension
    <3> HIDE DEF t
    <3>2. ~(p + 4 > Len(d))
      BY DEF ExtensionStops
    <3>3. p + 4 + t > p
      BY <3>1
    <3> QED
      BY <1>1, <3>1, <3>2, <3>3
  <2> QED
    BY <2>1, <2>2 DEF Upward
<1>5. val \in [Nat -> V]
  <2> SUFFICES ASSUME NEW p \in Nat PROVE ExtensionName(d)[p] \in V
    BY DEF ExtensionName
  <2>1. None \in V
    BY NoneIsPiece
  <2> DEFINE t == Two(d, p + 2)
             a == AreaFrom(d, p + 4, t)
  <2>2. t \in Nat /\ p + 4 \in Nat
    BY <1>3
  <2>3. ExtensionName(d)[p] = IF p + 4 > Len(d) THEN None
                              ELSE IF p + 4 + t > Len(d) THEN None
                              ELSE parse_server_name_extension(a)
    BY DEF ExtensionName
  <2> HIDE DEF t
  <2>4. CASE p + 4 + t > Len(d)
    BY <2>1, <2>3, <2>4
  <2>5. CASE ~(p + 4 + t > Len(d))
    <3>1. (p + 4) + t <= Len(d)
      BY <1>1, <2>2, <2>5
    <3>2. a \in Seq(Nat)
      BY <2>2, <3>1, AreaIs
    <3>3. parse_server_name_extension(a) \in Pieces(a)
      <4> HIDE DEF a
      <4> QED
        BY <3>2, ServerNameIsPiece
    <3>4. parse_server_name_extension(a) \in V
      BY <2>2, <3>1, <3>3, PieceOfArea
    <3> QED
      BY <2>1, <2>3, <3>4
  <2> QED
    BY <2>4, <2>5
<1>6. \A g : Is(g) <=> Recurs(g, stop, val, next)
  BY DEF Recurs, ExtensionStops, ExtensionName, NextExtension, ExtensionNamesAre
<1> HIDE DEF stop, val, next, V, n, Is
<1>7. \E g : Is(g)
  BY <1>1, <1>4, <1>5, <1>6, RecursionExists
<1>8. Is(ext)
  BY <1>7 DEF Is, ExtensionNames
<1> HIDE DEF ext
<1>9. \A p \in Nat : ext[p] \in V
  BY <1>1, <1>4, <1>5, <1>6, <1>8, RecursionIn
<1> QED
  BY <1>2, <1>8, <1>9 DEF Is, V, ext

LEMMA ExtensionsArePieces ==
    ASSUME NEW d \in Seq(Nat)
    PROVE  parse_extensions(d) \in Pieces(d)
BY ExtensionsRead

\* The name that parse_tls_header returns stands in the bytes handed over, whatever
\* lengths they hold.
LEMMA HeaderIsPiece ==
    ASSUME NEW d \in Seq(Nat)
    PROVE  parse_tls_header(d) \in Pieces(d)
<1> DEFINE e == Extensions(d)
           t == Two(d, e)
           a == AreaFrom(d, e + 2, t)
           end == 5 + Two(d, 3)
<1>1. e \in Nat
  <2>1. SessionId \in Nat
    BY DEF SessionId
  <2>2. Ciphers(d) \in Nat
    <3>1. At(d, SessionId) \in Nat
      BY <2>1, AtNat
    <3> QED
      BY <2>1, <3>1 DEF Ciphers
  <2>3. Two(d, Ciphers(d)) \in Nat
    BY <2>2, AtNat
  <2>4. Compressions(d) \in Nat
    BY <2>2, <2>3 DEF Compressions
  <2>5. At(d, Compressions(d)) \in Nat
    BY <2>4, AtNat
  <2> QED
    BY <2>4, <2>5 DEF Extensions
<1>2. end \in Nat /\ Len(d) \in Nat
  <2>1. Two(d, 3) \in Nat
    BY AtNat
  <2> QED
    BY <2>1, LenProperties
<1>3. t \in Nat
  BY <1>1, AtNat
<1>4. \/ parse_tls_header(d) = None
      \/ end <= Len(d) /\ e + 2 + t <= end /\ parse_tls_header(d) = parse_extensions(a)
  BY DEF parse_tls_header, WholeRecord
<1> HIDE DEF e, t, end
<1>5. CASE e + 2 + t <= Len(d)
  <2>1. (e + 2) + t <= Len(d) /\ e + 2 \in Nat
    BY <1>1, <1>3, <1>5
  <2>2. a \in Seq(Nat)
    BY <1>3, <2>1, AreaIs
  <2>3. parse_extensions(a) \in Pieces(a)
    <3> HIDE DEF a
    <3> QED
      BY <2>2, ExtensionsArePieces
  <2>4. parse_extensions(a) \in Pieces(d)
    BY <1>3, <2>1, <2>3, PieceOfArea
  <2> QED
    BY <1>4, <2>4, NoneIsPiece
<1>6. CASE ~(e + 2 + t <= Len(d))
  BY <1>1, <1>2, <1>3, <1>4, <1>6, NoneIsPiece
<1> QED
  BY <1>5, <1>6

-----------------------------------------------------------------------------
(***************************************************************************)
(* The bytes of a hello.                                                   *)
(***************************************************************************)
LEMMA JoinedIs ==
    ASSUME NEW p \in Seq(Seq(Nat)), Len(p) <= 2
    PROVE  /\ Joined(p) \in Seq(Nat)
           /\ Len(p) = 0 => Joined(p) = <<>>
           /\ Len(p) = 1 => Joined(p) = p[1]
           /\ Len(p) = 2 => Joined(p) = p[1] \o p[2]
<1> DEFINE n == Len(p)
           Joins(s, t) == s \o t
           Is(g) == g = [i \in 0..Len(p) |-> IF i = 0 THEN <<>> ELSE Joins(g[i - 1], p[i])]
           upto == CHOOSE g : Is(g)
           one  == Joins(<<>>, p[1])
           two  == Joins(one, p[2])
           w == [i \in 0..n |-> IF i = 0 THEN <<>> ELSE IF i = 1 THEN one ELSE two]
<1>1. Joined(p) = upto[n]
  BY DEF Joined
<1>2. n \in 0..2
  <2>1. n \in Nat /\ n <= 2
    BY LenProperties
  <2> HIDE DEF n
  <2> QED
    BY <2>1
<1>3. Is(w)
  <2> HIDE DEF n
  <2>1. ASSUME NEW i \in 0..n PROVE w[i] = IF i = 0 THEN <<>> ELSE Joins(w[i - 1], p[i])
    <3> HIDE DEF Joins, one, two
    <3>1. CASE i = 0
      BY <3>1
    <3>2. CASE i = 1
      <4>1. w[1] = one /\ w[0] = <<>> /\ i - 1 = 0
        BY <1>2, <3>2
      <4> HIDE DEF w
      <4> QED
        BY <3>2, <4>1 DEF one
    <3>3. CASE i = 2
      <4>1. w[2] = two /\ w[1] = one /\ i - 1 = 1
        BY <1>2, <3>3
      <4> HIDE DEF w
      <4> QED
        BY <3>3, <4>1 DEF two
    <3> QED
      BY <1>2, <3>1, <3>2, <3>3
  <2> QED
    BY <2>1 DEF n
<1>4. Is(upto)
  <2> HIDE DEF Is, w
  <2> QED
    BY <1>3
<1>5. \A i \in 0..n : upto[i] = IF i = 0 THEN <<>> ELSE Joins(upto[i - 1], p[i])
  BY <1>4
<1> HIDE DEF upto
<1>6. upto[0] = <<>> /\ <<>> \in Seq(Nat)
  BY <1>2, <1>5
<1>7. \A i \in 1..n : p[i] \in Seq(Nat)
  BY ElementOfSeq
<1>8. /\ \A s, t \in Seq(Nat) : Joins(s, t) \in Seq(Nat)
      /\ \A t \in Seq(Nat) : Joins(<<>>, t) = t
  BY ConcatProperties, ConcatEmptySeq
<1> HIDE DEF n, w, Joins
<1>9. n >= 1 => upto[1] \in Seq(Nat) /\ upto[1] = p[1]
  <2> SUFFICES ASSUME n >= 1 PROVE upto[1] \in Seq(Nat) /\ upto[1] = p[1]
    OBVIOUS
  <2>1. 1 \in 0..n /\ 1 \in 1..n
    BY <1>2
  <2>2. upto[1] = Joins(upto[0], p[1])
    BY <1>5, <2>1
  <2> QED
    BY <1>6, <1>7, <1>8, <2>1, <2>2
<1>10. n >= 2 => upto[2] \in Seq(Nat) /\ upto[2] = Joins(p[1], p[2])
  <2> SUFFICES ASSUME n >= 2 PROVE upto[2] \in Seq(Nat) /\ upto[2] = Joins(p[1], p[2])
    OBVIOUS
  <2>1. 2 \in 0..n /\ 2 \in 1..n /\ n >= 1
    BY <1>2
  <2>2. upto[2] = Joins(upto[1], p[2])
    BY <1>5, <2>1
  <2> QED
    BY <1>7, <1>8, <1>9, <2>1, <2>2
<1>11. n = 0 \/ n = 1 \/ n = 2
  BY <1>2
<1>12. /\ upto[n] \in Seq(Nat)
       /\ n = 0 => upto[n] = <<>>
       /\ n = 1 => upto[n] = p[1]
       /\ n = 2 => upto[n] = Joins(p[1], p[2])
  <2>1. CASE n = 0
    <3>1. upto[n] = upto[0] /\ n # 1 /\ n # 2
      BY <2>1
    <3> HIDE DEF Is
    <3> QED
      BY <1>6, <3>1
  <2>2. CASE n = 1
    BY <1>9, <2>2
  <2>3. CASE n = 2
    BY <1>10, <2>3
  <2> QED
    BY <1>11, <2>1, <2>2, <2>3
<1> QED
  BY <1>1, <1>12 DEF n, Joins

LEMMA BigIs == \A n \in Nat : Big(n) \in Seq(Nat)
<1> SUFFICES ASSUME NEW n \in Nat PROVE Big(n) \in Seq(Nat)
  OBVIOUS
<1>1. n \div 256 \in Nat /\ n % 256 \in Nat
  OBVIOUS
<1> DEFINE x == n \div 256
           y == n % 256
<1>2. Big(n) = <<x, y>>
  BY DEF Big
<1> HIDE DEF x, y
<1>3. <<x, y>> \in Seq(Nat)
  BY <1>1 DEF x, y
<1> QED
  BY <1>2, <1>3

\* A few sequences of bytes behind one another, a number in front of its bytes
LEMMA BytesJoin ==
    /\ \A s, t \in Seq(Nat) : s \o t \in Seq(Nat)
    /\ \A x \in Nat : <<x>> \in Seq(Nat)
    /\ \A s \in Seq(Nat) : Big(Len(s)) \in Seq(Nat)
<1>1. \A s, t \in Seq(Nat) : s \o t \in Seq(Nat)
  BY ConcatProperties
<1>2. \A s \in Seq(Nat) : Big(Len(s)) \in Seq(Nat)
  BY LenProperties, BigIs
<1> QED
  BY <1>1, <1>2

LEMMA EntriesAre ==
    ASSUME NEW l \in Lists
    PROVE  LET p == [i \in 1..Len(l) |-> EntryBytes(l[i])]
           IN  p \in Seq(Seq(Nat)) /\ Len(p) <= 2
<1>1. l \in Seq(Entries) /\ Len(l) \in 0..2
  <2>1. l = <<>> \/ (\E e \in Entries : l = <<e>>) \/ (\E e, f \in Entries : l = <<e, f>>)
    BY DEF Lists
  <2>2. CASE l = <<>>
    BY <2>2
  <2>3. ASSUME NEW e \in Entries, l = <<e>> PROVE l \in Seq(Entries) /\ Len(l) = 1
    BY <2>3
  <2>4. ASSUME NEW e \in Entries, NEW f \in Entries, l = <<e, f>>
        PROVE  l \in Seq(Entries) /\ Len(l) = 2
    BY <2>4
  <2> QED
    BY <2>1, <2>2, <2>3, <2>4
<1>2. ASSUME NEW e \in Entries PROVE EntryBytes(e) \in Seq(Nat)
  <2>1. e.type \in Nat /\ e.name \in Names
    BY DEF Entries
  <2>2. e.name \in Seq(1..255)
    BY <2>1, NamesAssumption
  <2>3. e.name \in Seq(Nat)
    BY <2>2, SeqMonotonic, 1..255 \subseteq Nat
  <2>4. <<e.type>> \in Seq(Nat) /\ Big(Len(e.name)) \in Seq(Nat)
    BY <2>1, <2>3, BytesJoin
  <2>5. <<e.type>> \o Big(Len(e.name)) \in Seq(Nat)
    BY <2>4, BytesJoin
  <2>6. (<<e.type>> \o Big(Len(e.name))) \o e.name \in Seq(Nat)
    BY <2>3, <2>5, BytesJoin
  <2> QED
    BY <2>6 DEF EntryBytes
<1>3. \A i \in 1..Len(l) : EntryBytes(l[i]) \in Seq(Nat)
  BY <1>1, <1>2, ElementOfSeq
<1> DEFINE n == Len(l)
           p == [i \in 1..n |-> EntryBytes(l[i])]
<1>4. p \in [1..n -> Seq(Nat)] /\ n \in 0..2
  BY <1>1, <1>3
<1> HIDE DEF p, n
<1>5. p \in Seq(Seq(Nat)) /\ Len(p) = n
  BY <1>4
<1>6. p \in Seq(Seq(Nat)) /\ Len(p) <= 2
  BY <1>4, <1>5
<1> QED
  BY <1>6 DEF p, n

Extension(x) == x.type \in Nat /\ x.list \in Lists

LEMMA ExtensionBytesAre ==
    ASSUME NEW x, Extension(x)
    PROVE  ExtensionBytes(x) \in Seq(Nat)
<1> DEFINE list == Joined([i \in 1..Len(x.list) |-> EntryBytes(x.list[i])])
           data == Big(Len(list)) \o list
<1>1. list \in Seq(Nat)
  BY EntriesAre, JoinedIs DEF Extension
<1>2. ExtensionBytes(x) = (Big(x.type) \o Big(Len(data))) \o data
  BY DEF ExtensionBytes
<1> HIDE DEF list
<1>3. data \in Seq(Nat)
  BY <1>1, BytesJoin
<1> HIDE DEF data
<1>4. Big(x.type) \o Big(Len(data)) \in Seq(Nat)
  BY <1>3, BigIs, BytesJoin DEF Extension
<1> QED
  BY <1>2, <1>3, <1>4, BytesJoin

-----------------------------------------------------------------------------
(***************************************************************************)
(* What stands where in sequences of bytes that are put together, and what *)
(* the parsers read there.                                                 *)
(***************************************************************************)
LEMMA JoinStands ==
    ASSUME NEW s \in Seq(Nat), NEW t \in Seq(Nat)
    PROVE  /\ s \o t \in Seq(Nat) /\ Len(s \o t) = Len(s) + Len(t)
           /\ PieceAt(s \o t, s, 0) /\ PieceAt(s \o t, t, Len(s))
<1> DEFINE st == s \o t
           m == Len(s)
           n == Len(t)
<1>1. /\ st \in Seq(Nat) /\ Len(st) = m + n
      /\ \A i \in 1..(m + n) : st[i] = IF i <= m THEN s[i] ELSE t[i - m]
  BY ConcatProperties
<1>2. m \in Nat /\ n \in Nat
  BY LenProperties
<1> HIDE DEF st, m, n
<1>3. ASSUME NEW k \in 1..m PROVE s[k] = st[0 + k]
  <2>1. k \in 1..(m + n) /\ k <= m /\ 0 + k = k
    BY <1>2
  <2> QED
    BY <1>1, <2>1
<1>4. ASSUME NEW k \in 1..n PROVE t[k] = st[m + k]
  <2>1. m + k \in 1..(m + n) /\ ~(m + k <= m) /\ (m + k) - m = k
    BY <1>2
  <2> QED
    BY <1>1, <2>1
<1>5. 0 + m <= Len(st) /\ m + n <= Len(st)
  BY <1>1, <1>2
<1> QED
  BY <1>1, <1>3, <1>4, <1>5 DEF PieceAt, st, m, n

LEMMA StandsInside ==
    ASSUME NEW d \in Seq(Nat), NEW s \in Seq(Nat), NEW x \in Seq(Nat),
           NEW from \in Nat, NEW at \in Nat, PieceAt(d, s, from), PieceAt(s, x, at)
    PROVE  PieceAt(d, x, from + at)
<1> DEFINE n == Len(x)
           m == Len(s)
           l == Len(d)
<1>1. n \in Nat /\ m \in Nat /\ l \in Nat
  BY LenProperties
<1>2. /\ from + m <= l /\ at + n <= m
      /\ \A k \in 1..m : s[k] = d[from + k]
      /\ \A k \in 1..n : x[k] = s[at + k]
  BY DEF PieceAt
<1> HIDE DEF n, m, l
<1>3. ASSUME NEW k \in 1..n PROVE x[k] = d[(from + at) + k]
  <2>1. at + k \in 1..m /\ from + (at + k) = (from + at) + k
    BY <1>1, <1>2
  <2>2. s[at + k] = d[from + (at + k)]
    BY <1>2, <2>1
  <2> QED
    BY <1>2, <2>1, <2>2
<1>4. (from + at) + n <= l
  BY <1>1, <1>2
<1> QED
  BY <1>3, <1>4 DEF PieceAt, n, l

\* A byte and a number of two bytes that stand at pos
LEMMA StandsAt ==
    ASSUME NEW d \in Seq(Nat), NEW x \in Seq(Nat), NEW from \in Nat, PieceAt(d, x, from),
           NEW k \in Nat, k < Len(x)
    PROVE  At(d, from + k) = x[k + 1] /\ from + k < Len(d)
<1> DEFINE n == Len(x)
           l == Len(d)
<1>1. n \in Nat /\ l \in Nat /\ from + n <= l /\ k < n
  BY LenProperties DEF PieceAt
<1> HIDE DEF n, l
<1>2. k + 1 \in 1..n /\ from + (k + 1) = (from + k) + 1 /\ from + k < l
  BY <1>1
<1>3. x[k + 1] = d[from + (k + 1)]
  BY <1>2 DEF PieceAt, n
<1> QED
  BY <1>2, <1>3 DEF At, l

LEMMA FirstStand ==
    ASSUME NEW d \in Seq(Nat), NEW x \in Seq(Nat), NEW from \in Nat, PieceAt(d, x, from)
    PROVE  /\ 0 < Len(x) => At(d, from) = x[1]
           /\ 1 < Len(x) => At(d, from + 1) = x[2]
<1> DEFINE n == Len(x)
<1>1. ASSUME NEW k \in 0..1, k < n PROVE At(d, from + k) = x[k + 1]
  <2>1. k \in Nat
    OBVIOUS
  <2> QED
    BY <1>1, <2>1, StandsAt
<1>2. from + 0 = from /\ 0 + 1 = 1 /\ 1 + 1 = 2 /\ 0 \in 0..1 /\ 1 \in 0..1
  OBVIOUS
<1> HIDE DEF n
<1>3. 0 < n => At(d, from + 0) = x[0 + 1]
  BY <1>1, <1>2
<1>4. 1 < n => At(d, from + 1) = x[1 + 1]
  BY <1>1, <1>2
<1> QED
  BY <1>2, <1>3, <1>4 DEF n

LEMMA BigStands ==
    ASSUME NEW d \in Seq(Nat), NEW n \in Nat, NEW from \in Nat, PieceAt(d, Big(n), from)
    PROVE  Two(d, from) = n
<1> DEFINE b == Big(n)
           x == n \div 256
           y == n % 256
<1>1. b \in Seq(Nat) /\ b = <<x, y>>
  BY BigIs DEF Big
<1>2. n = 256 * x + y /\ x \in Nat /\ y \in Nat
  OBVIOUS
<1> HIDE DEF x, y
<1>3. Len(b) = 2 /\ b[1] = x /\ b[2] = y
  BY <1>1
<1> HIDE DEF b
<1>4. At(d, from) = x /\ At(d, from + 1) = y
  <2>1. PieceAt(d, b, from) /\ 0 < Len(b) /\ 1 < Len(b)
    BY <1>3 DEF b
  <2> QED
    BY <1>1, <1>3, <2>1, FirstStand
<1> QED
  BY <1>2, <1>4 DEF Two

LEMMA BigLen == \A n \in Nat : Big(n) \in Seq(Nat) /\ Len(Big(n)) = 2
BY BigIs DEF Big

LEMMA StandsWhole ==
    ASSUME NEW d \in Seq(Nat), NEW x \in Seq(Nat), NEW from \in Nat, PieceAt(d, x, from)
    PROVE  AreaFrom(d, from, Len(x)) = x
<1> DEFINE n == Len(x)
           a == AreaFrom(d, from, n)
<1>1. n \in Nat /\ from + n <= Len(d) /\ \A k \in 1..n : x[k] = d[from + k]
  BY LenProperties DEF PieceAt
<1> HIDE DEF n
<1>2. a \in Seq(Nat) /\ Len(a) = n /\ \A k \in 1..n : a[k] = d[from + k]
  BY <1>1, AreaIs
<1> HIDE DEF a
<1>3. a = x
  <2>1. Len(a) = Len(x) /\ \A k \in 1..Len(a) : a[k] = x[k]
    BY <1>1, <1>2 DEF n
  <2> QED
    BY <1>2, <2>1, SeqEqual
<1> QED
  BY <1>3 DEF a, n

\* strncpy copies a name whole that is not too long and has no zero in it.
LEMMA CopiedWhole ==
    ASSUME NEW d \in Seq(Nat), NEW x \in Seq(1..255), NEW from \in Nat, PieceAt(d, x, from),
           Len(x) <= FQDN_MAX
    PROVE  CopiedName(d, from, Len(x)) = x
<1> DEFINE n == Len(x)
           size == Least(n, FQDN_MAX)
           stop == {k \in 0..size : k = size \/ At(d, from + k) = 0}
           m == CHOOSE k \in stop : \A l \in stop : k <= l
<1>1. n \in Nat /\ n <= FQDN_MAX
  BY LenProperties
<1>2. CopiedName(d, from, n) = [k \in 1..m |-> At(d, from + k - 1)]
  BY DEF CopiedName
<1>3. \A k \in 1..n : x[k] \in 1..255
  <2> HIDE DEF size, stop, m
  <2> SUFFICES ASSUME NEW k \in 1..n PROVE x[k] \in 1..255
    OBVIOUS
  <2>1. k \in 1..Len(x)
    OBVIOUS
  <2> HIDE DEF n
  <2> QED
    BY <2>1, ElementOfSeq
<1>4. x \in Seq(Nat)
  <2>1. 1..255 \subseteq Nat
    OBVIOUS
  <2> HIDE DEF n, size, stop, m
  <2> QED
    BY <2>1, SeqMonotonic
<1>5. x = [k \in 1..n |-> x[k]]
  BY <1>4, LenProperties
<1>6. \A k \in 0..(n - 1) : At(d, from + k) = x[k + 1] /\ k + 1 \in 1..n
  <2> HIDE DEF size, stop, m
  <2> SUFFICES ASSUME NEW k \in 0..(n - 1) PROVE At(d, from + k) = x[k + 1] /\ k + 1 \in 1..n
    OBVIOUS
  <2>1. k \in Nat /\ k < Len(x) /\ k + 1 \in 1..n
    BY <1>1
  <2> QED
    BY <1>4, <2>1, StandsAt
<1>7. size = n
  <2> HIDE DEF n, stop, m
  <2>1. n < FQDN_MAX \/ n = FQDN_MAX
    BY <1>1 DEF FQDN_MAX
  <2> QED
    BY <2>1 DEF Least
<1> HIDE DEF size, n
<1>8. \A k \in 0..n : k # n => At(d, from + k) # 0
  <2> SUFFICES ASSUME NEW k \in 0..n, k # n PROVE At(d, from + k) # 0
    OBVIOUS
  <2>1. k \in 0..(n - 1)
    BY <1>1
  <2>2. At(d, from + k) = x[k + 1] /\ k + 1 \in 1..n
    BY <1>6, <2>1
  <2>3. x[k + 1] \in 1..255
    BY <1>3, <2>2
  <2> DEFINE a == At(d, from + k)
  <2>4. a \in 1..255
    BY <2>2, <2>3
  <2> HIDE DEF a, stop, m
  <2>5. a # 0
    BY <2>4
  <2> QED
    BY <2>5 DEF a
<1>9. stop = {n}
  <2>1. n \in 0..n
    BY <1>1
  <2> QED
    BY <1>7, <1>8, <2>1
<1> HIDE DEF stop
<1>10. m = n
  BY <1>1, <1>9
<1> HIDE DEF m
<1>11. \A k \in 1..n : At(d, from + k - 1) = x[k]
  <2> SUFFICES ASSUME NEW k \in 1..n PROVE At(d, from + k - 1) = x[k]
    OBVIOUS
  <2>1. k - 1 \in 0..(n - 1) /\ (k - 1) + 1 = k /\ from + k - 1 = from + (k - 1)
    BY <1>1
  <2> QED
    BY <1>6, <2>1
<1> QED
  BY <1>2, <1>5, <1>10, <1>11 DEF n

LEMMA JoinSplits ==
    ASSUME NEW d \in Seq(Nat), NEW s \in Seq(Nat), NEW t \in Seq(Nat), NEW from \in Nat,
           PieceAt(d, s \o t, from)
    PROVE  PieceAt(d, s, from) /\ PieceAt(d, t, from + Len(s))
<1> DEFINE st == s \o t
           n == Len(s)
<1>1. n \in Nat /\ st \in Seq(Nat) /\ PieceAt(st, s, 0) /\ PieceAt(st, t, n)
  BY JoinStands, LenProperties
<1>2. PieceAt(d, st, from)
  OBVIOUS
<1> HIDE DEF st, n
<1>3. PieceAt(d, s, from + 0) /\ PieceAt(d, t, from + n)
  <2>1. PieceAt(d, s, from + 0)
    BY <1>1, <1>2, StandsInside
  <2>2. PieceAt(d, t, from + n)
    BY <1>1, <1>2, StandsInside
  <2> QED
    BY <2>1, <2>2
<1>4. from + 0 = from
  OBVIOUS
<1> QED
  BY <1>3, <1>4 DEF n

LEMMA NameIs ==
    ASSUME NEW e \in Entries
    PROVE  /\ e.type \in {0, 1} /\ e.name \in Seq(1..255) /\ e.name \in Seq(Nat)
           /\ Len(e.name) \in 1..FQDN_MAX
<1>1. e.type \in {0, 1} /\ e.name \in Names
  BY DEF Entries
<1>2. e.name \in Seq(1..255) /\ e.name # <<>> /\ Len(e.name) <= FQDN_MAX
  BY <1>1, NamesAssumption DEF FQDN_MAX
<1>3. e.name \in Seq(Nat)
  BY <1>2, SeqMonotonic, 1..255 \subseteq Nat
<1>4. Len(e.name) \in Nat /\ Len(e.name) # 0
  BY <1>2, EmptySeq, LenProperties
<1>5. \A n \in Nat : n # 0 /\ n <= FQDN_MAX => n \in 1..FQDN_MAX
  BY DEF FQDN_MAX
<1> QED
  BY <1>1, <1>2, <1>3, <1>4, <1>5

\* An entry where it stands: its type, its length and its name
LEMMA EntryStands ==
    ASSUME NEW e \in Entries, NEW d \in Seq(Nat), NEW from \in Nat,
           PieceAt(d, EntryBytes(e), from)
    PROVE  /\ EntryBytes(e) \in Seq(Nat) /\ Len(EntryBytes(e)) = 3 + Len(e.name)
           /\ from + 3 + Len(e.name) <= Len(d)
           /\ At(d, from) = e.type /\ Two(d, from + 1) = Len(e.name)
           /\ PieceAt(d, e.name, from + 3)
<1> DEFINE x == e.name
           t == <<e.type>>
           b == Big(Len(x))
           tb == t \o b
           n == Len(x)
<1>1. t \in Seq(Nat) /\ Len(t) = 1 /\ t[1] = e.type
  BY NameIs
<1>2. x \in Seq(Nat) /\ n \in Nat /\ b \in Seq(Nat) /\ Len(b) = 2
  <2>1. x \in Seq(Nat) /\ n \in Nat
    BY NameIs, LenProperties
  <2> QED
    BY <2>1, BigLen
<1>3. EntryBytes(e) = tb \o x /\ b = Big(n)
  BY DEF EntryBytes
<1> HIDE DEF t, b, x, n
<1>4. tb \in Seq(Nat) /\ Len(tb) = 3
  <2>1. tb \in Seq(Nat) /\ Len(tb) = Len(t) + Len(b)
    BY <1>1, <1>2, JoinStands
  <2> QED
    BY <1>1, <1>2, <2>1
<1>5. PieceAt(d, tb, from) /\ PieceAt(d, x, from + 3)
  <2>1. PieceAt(d, tb \o x, from)
    BY <1>3
  <2> HIDE DEF tb
  <2> QED
    BY <1>2, <1>4, <2>1, JoinSplits
<1>6. PieceAt(d, t, from) /\ PieceAt(d, b, from + 1)
  <2>1. PieceAt(d, t, from) /\ PieceAt(d, b, from + Len(t))
    BY <1>1, <1>2, <1>5, JoinSplits
  <2> QED
    BY <1>1, <2>1
<1> HIDE DEF tb
<1>7. At(d, from) = e.type
  <2>1. 0 < Len(t)
    BY <1>1
  <2> QED
    BY <1>1, <1>6, <2>1, FirstStand
<1>8. Two(d, from + 1) = n
  <2>1. from + 1 \in Nat
    OBVIOUS
  <2> QED
    BY <1>2, <1>3, <1>6, <2>1, BigStands
<1>9. EntryBytes(e) \in Seq(Nat) /\ Len(EntryBytes(e)) = 3 + n
  <2>1. tb \o x \in Seq(Nat) /\ Len(tb \o x) = Len(tb) + Len(x)
    BY <1>2, <1>4, JoinStands
  <2> QED
    BY <1>3, <1>4, <2>1 DEF n
<1>10. from + 3 + n <= Len(d)
  BY <1>5 DEF PieceAt, n
<1> QED
  BY <1>5, <1>7, <1>8, <1>9, <1>10 DEF n, x

\* What the scan finds at an entry, and where none begins any more
LEMMA EntryRead ==
    ASSUME NEW e \in Entries, NEW d \in Seq(Nat), NEW from \in Nat,
           PieceAt(d, EntryBytes(e), from)
    PROVE  EntryNames(d)[from] =
              IF e.type = 0 THEN e.name ELSE EntryNames(d)[from + 3 + Len(e.name)]
<1> DEFINE x == e.name
           n == Len(x)
           g == EntryNames(d)
           l == Len(d)
           two == Two(d, from + 1)
<1>1. /\ from + 3 + n <= l /\ At(d, from) = e.type /\ two = n
      /\ PieceAt(d, x, from + 3)
  BY EntryStands
<1>2. x \in Seq(1..255) /\ n \in 1..FQDN_MAX /\ n \in Nat /\ n > 0 /\ l \in Nat
  <2>1. x \in Seq(1..255) /\ n \in 1..FQDN_MAX
    BY NameIs
  <2> QED
    BY <2>1, LenProperties
<1>3. CopiedName(d, from + 3, n) = x
  <2>1. n <= FQDN_MAX /\ from + 3 \in Nat
    BY <1>2
  <2> QED
    BY <1>1, <1>2, <2>1, CopiedWhole
<1>4. g[from] = IF from + 3 >= l THEN None
                ELSE IF from + 3 + two > l THEN None
                ELSE IF At(d, from) = 0 THEN CopiedName(d, from + 3, two)
                ELSE g[from + 3 + two]
  <2>1. EntryNamesAre(g, d)
    BY EntriesRead
  <2> HIDE DEF g
  <2> QED
    BY <2>1 DEF EntryNamesAre
<1> HIDE DEF x, n, g, l, two
<1>5. ~(from + 3 >= l) /\ ~(from + 3 + n > l)
  BY <1>1, <1>2
<1>6. g[from] = IF e.type = 0 THEN x ELSE g[from + 3 + n]
  BY <1>1, <1>3, <1>4, <1>5
<1> QED
  BY <1>6 DEF x, n, g

LEMMA NoEntry ==
    ASSUME NEW d \in Seq(Nat), NEW pos \in Nat, pos + 3 >= Len(d)
    PROVE  EntryNames(d)[pos] = None
<1>1. EntryNamesAre(EntryNames(d), d)
  BY EntriesRead
<1> QED
  BY <1>1 DEF EntryNamesAre

\* The first host name of a list, and the bytes of one
HostOf(l) ==
    LET hosts == {j \in 1..Len(l) : l[j].type = 0}
    IN  IF hosts = {} THEN None ELSE l[CHOOSE j \in hosts : \A k \in hosts : j <= k].name
ListBytes(l) == Joined([i \in 1..Len(l) |-> EntryBytes(l[i])])
ListData(l) == Big(Len(ListBytes(l))) \o ListBytes(l)

LEMMA HostIs ==
    /\ HostOf(<<>>) = None
    /\ \A e \in Entries : HostOf(<<e>>) = IF e.type = 0 THEN e.name ELSE None
    /\ \A e, f \in Entries :
          HostOf(<<e, f>>) = IF e.type = 0 THEN e.name ELSE IF f.type = 0 THEN f.name ELSE None
<1> DEFINE Named(l) == {j \in 1..Len(l) : l[j].type = 0}
           First(l) == CHOOSE j \in Named(l) : \A k \in Named(l) : j <= k
<1>0. \A l : HostOf(l) = IF Named(l) = {} THEN None ELSE l[First(l)].name
  BY DEF HostOf
<1>1. HostOf(<<>>) = None
  <2>1. Named(<<>>) = {}
    OBVIOUS
  <2> HIDE DEF Named
  <2> QED
    BY <1>0, <2>1
<1>2. ASSUME NEW e \in Entries PROVE HostOf(<<e>>) = IF e.type = 0 THEN e.name ELSE None
  <2> DEFINE l == <<e>>
  <2>1. Len(l) = 1 /\ l[1] = e
    OBVIOUS
  <2> HIDE DEF l
  <2>2. CASE e.type = 0
    <3>1. Named(l) = {1}
      BY <2>1, <2>2
    <3> HIDE DEF Named
    <3>2. First(l) = 1
      BY <3>1
    <3> HIDE DEF First
    <3> QED
      BY <1>0, <2>1, <2>2, <3>1, <3>2 DEF l
  <2>3. CASE e.type # 0
    <3>1. Named(l) = {}
      BY <2>1, <2>3
    <3> HIDE DEF Named
    <3> QED
      BY <1>0, <2>3, <3>1 DEF l
  <2> QED
    BY <2>2, <2>3
<1>3. ASSUME NEW e \in Entries, NEW f \in Entries
      PROVE  HostOf(<<e, f>>) = IF e.type = 0 THEN e.name ELSE IF f.type = 0 THEN f.name ELSE None
  <2> DEFINE l == <<e, f>>
  <2>1. Len(l) = 2 /\ l[1] = e /\ l[2] = f
    OBVIOUS
  <2> HIDE DEF l
  <2>2. CASE e.type = 0
    <3>1. 1 \in Named(l) /\ Named(l) \subseteq 1..2
      BY <2>1, <2>2
    <3> HIDE DEF Named
    <3>2. First(l) = 1
      <4>1. \A k \in Named(l) : 1 <= k
        BY <3>1
      <4>2. \A j \in Named(l) : (\A k \in Named(l) : j <= k) => j = 1
        BY <3>1
      <4>3. First(l) \in Named(l) /\ \A k \in Named(l) : First(l) <= k
        BY <3>1, <4>1
      <4> HIDE DEF First
      <4> QED
        BY <4>2, <4>3
    <3> HIDE DEF First
    <3> QED
      BY <1>0, <2>1, <2>2, <3>1, <3>2 DEF l
  <2>3. CASE e.type # 0 /\ f.type = 0
    <3>1. Named(l) = {2}
      BY <2>1, <2>3
    <3> HIDE DEF Named
    <3>2. First(l) = 2
      BY <3>1
    <3> HIDE DEF First
    <3> QED
      BY <1>0, <2>1, <2>3, <3>1, <3>2 DEF l
  <2>4. CASE e.type # 0 /\ f.type # 0
    <3>1. Named(l) = {}
      BY <2>1, <2>4
    <3> HIDE DEF Named
    <3> QED
      BY <1>0, <2>4, <3>1 DEF l
  <2> QED
    BY <2>2, <2>3, <2>4
<1> QED
  BY <1>1, <1>2, <1>3

LEMMA ListBytesAre ==
    /\ ListBytes(<<>>) = <<>>
    /\ \A e \in Entries : ListBytes(<<e>>) = EntryBytes(e)
    /\ \A e, f \in Entries : ListBytes(<<e, f>>) = EntryBytes(e) \o EntryBytes(f)
    /\ \A l \in Lists : ListBytes(l) \in Seq(Nat)
<1> DEFINE P(l) == [i \in 1..Len(l) |-> EntryBytes(l[i])]
<1>1. ASSUME NEW l \in Lists
      PROVE  /\ ListBytes(l) \in Seq(Nat)
             /\ Len(P(l)) = 0 => ListBytes(l) = <<>>
             /\ Len(P(l)) = 1 => ListBytes(l) = P(l)[1]
             /\ Len(P(l)) = 2 => ListBytes(l) = P(l)[1] \o P(l)[2]
  <2>1. P(l) \in Seq(Seq(Nat)) /\ Len(P(l)) <= 2
    BY EntriesAre
  <2>2. ListBytes(l) = Joined(P(l))
    BY DEF ListBytes
  <2> HIDE DEF P
  <2> QED
    BY <2>1, <2>2, JoinedIs
<1>2. ListBytes(<<>>) = <<>>
  <2>1. <<>> \in Lists
    BY DEF Lists
  <2>2. Len(P(<<>>)) = 0
    OBVIOUS
  <2> HIDE DEF P
  <2> QED
    BY <1>1, <2>1, <2>2
<1>3. ASSUME NEW e \in Entries PROVE ListBytes(<<e>>) = EntryBytes(e)
  <2>1. <<e>> \in Lists
    BY DEF Lists
  <2>2. Len(P(<<e>>)) = 1 /\ P(<<e>>)[1] = EntryBytes(e)
    <3> DEFINE l == <<e>>
    <3>1. Len(l) = 1 /\ l[1] = e
      OBVIOUS
    <3> HIDE DEF l
    <3>2. Len(P(l)) = 1 /\ P(l)[1] = EntryBytes(e)
      BY <3>1
    <3> QED
      BY <3>2 DEF l
  <2> HIDE DEF P
  <2> QED
    BY <1>1, <2>1, <2>2
<1>4. ASSUME NEW e \in Entries, NEW f \in Entries
      PROVE  ListBytes(<<e, f>>) = EntryBytes(e) \o EntryBytes(f)
  <2>1. <<e, f>> \in Lists
    BY DEF Lists
  <2>2. Len(P(<<e, f>>)) = 2 /\ P(<<e, f>>)[1] = EntryBytes(e) /\ P(<<e, f>>)[2] = EntryBytes(f)
    <3> DEFINE l == <<e, f>>
    <3>1. Len(l) = 2 /\ l[1] = e /\ l[2] = f
      OBVIOUS
    <3> HIDE DEF l
    <3>2. Len(P(l)) = 2 /\ P(l)[1] = EntryBytes(e) /\ P(l)[2] = EntryBytes(f)
      BY <3>1
    <3> QED
      BY <3>2 DEF l
  <2> HIDE DEF P
  <2> QED
    BY <1>1, <2>1, <2>2
<1> QED
  BY <1>1, <1>2, <1>3, <1>4

\* The data of an extension server_name is its length and its list.
LEMMA ListStands ==
    ASSUME NEW l \in Lists
    PROVE  /\ ListBytes(l) \in Seq(Nat) /\ ListData(l) \in Seq(Nat)
           /\ Len(ListData(l)) = 2 + Len(ListBytes(l))
           /\ PieceAt(ListData(l), ListBytes(l), 2)
<1> DEFINE x == ListBytes(l)
           b == Big(Len(x))
<1>1. x \in Seq(Nat) /\ Len(x) \in Nat
  BY ListBytesAre, LenProperties
<1>2. b \in Seq(Nat) /\ Len(b) = 2
  BY <1>1, BigLen
<1>3. ListData(l) = b \o x
  BY DEF ListData
<1> HIDE DEF x, b
<1>4. b \o x \in Seq(Nat) /\ Len(b \o x) = 2 + Len(x) /\ PieceAt(b \o x, x, 2)
  BY <1>1, <1>2, JoinStands
<1> QED
  BY <1>1, <1>3, <1>4 DEF x

LEMMA ListRead ==
    ASSUME NEW l \in Lists
    PROVE  parse_server_name_extension(ListData(l)) = HostOf(l)
<1> DEFINE d == ListData(l)
           g == EntryNames(d)
           x == ListBytes(l)
           n == Len(x)
<1>1. x \in Seq(Nat) /\ d \in Seq(Nat) /\ Len(d) = 2 + n /\ PieceAt(d, x, 2) /\ n \in Nat
  BY ListStands, LenProperties
<1>2. parse_server_name_extension(d) = g[2]
  BY <1>1, EntriesRead
<1> HIDE DEF d
<1>3. ASSUME NEW e \in Entries, NEW from \in Nat, PieceAt(d, EntryBytes(e), from)
      PROVE  g[from] = IF e.type = 0 THEN e.name ELSE g[from + 3 + Len(e.name)]
  BY <1>1, <1>3, EntryRead
<1>4. ASSUME NEW p \in Nat, p + 3 >= 2 + n PROVE g[p] = None
  BY <1>1, <1>4, NoEntry
<1>5. ASSUME NEW e \in Entries
      PROVE  /\ EntryBytes(e) \in Seq(Nat) /\ Len(e.name) \in Nat
             /\ Len(EntryBytes(e)) = 3 + Len(e.name)
  <2>1. EntryBytes(e) \in Seq(Nat) /\ PieceAt(EntryBytes(e), EntryBytes(e), 0)
    <3>1. ListBytes(<<e>>) = EntryBytes(e) /\ <<e>> \in Lists
      BY ListBytesAre DEF Lists
    <3>2. EntryBytes(e) \in Seq(Nat)
      BY <3>1, ListBytesAre
    <3> QED
      BY <3>2, LenProperties DEF PieceAt
  <2>2. Len(EntryBytes(e)) = 3 + Len(e.name)
    BY <2>1, EntryStands
  <2> QED
    BY <2>1, <2>2, NameIs
<1> HIDE DEF g, n
<1>6. CASE l = <<>>
  <2>1. x = <<>> /\ HostOf(l) = None
    BY <1>6, ListBytesAre, HostIs
  <2>2. n = 0
    BY <2>1 DEF n
  <2>3. g[2] = None
    BY <1>4, <2>2
  <2> QED
    BY <1>2, <2>1, <2>3 DEF d
<1>7. ASSUME NEW e \in Entries, l = <<e>> PROVE g[2] = HostOf(l)
  <2>1. x = EntryBytes(e) /\ HostOf(l) = IF e.type = 0 THEN e.name ELSE None
    BY <1>7, ListBytesAre, HostIs
  <2> DEFINE len == Len(e.name)
  <2>2. len \in Nat /\ n = 3 + len
    BY <1>5, <2>1 DEF n
  <2>3. g[2] = IF e.type = 0 THEN e.name ELSE g[2 + 3 + len]
    BY <1>1, <1>3, <2>1
  <2> HIDE DEF len
  <2>4. g[2 + 3 + len] = None
    BY <1>4, <2>2
  <2> QED
    BY <2>1, <2>3, <2>4
<1>8. ASSUME NEW e \in Entries, NEW f \in Entries, l = <<e, f>> PROVE g[2] = HostOf(l)
  <2> DEFINE u == EntryBytes(e)
             v == EntryBytes(f)
             len == Len(e.name)
             more == Len(f.name)
  <2>1. /\ x = u \o v
        /\ HostOf(l) = IF e.type = 0 THEN e.name ELSE IF f.type = 0 THEN f.name ELSE None
    BY <1>8, ListBytesAre, HostIs
  <2>2. /\ u \in Seq(Nat) /\ v \in Seq(Nat) /\ len \in Nat /\ more \in Nat
        /\ Len(u) = 3 + len /\ Len(v) = 3 + more
    BY <1>5
  <2>3. n = (3 + len) + (3 + more)
    <3> HIDE DEF u, v, len, more
    <3>1. Len(u \o v) = Len(u) + Len(v)
      BY <2>2, JoinStands
    <3> QED
      BY <2>1, <2>2, <3>1 DEF n
  <2>4. PieceAt(d, u, 2) /\ PieceAt(d, v, 2 + (3 + len))
    <3> HIDE DEF u, v, len, more
    <3>1. PieceAt(d, u \o v, 2)
      BY <1>1, <2>1
    <3>2. PieceAt(d, u, 2) /\ PieceAt(d, v, 2 + Len(u))
      BY <1>1, <2>2, <3>1, JoinSplits
    <3> QED
      BY <2>2, <3>2
  <2>5. g[2] = IF e.type = 0 THEN e.name ELSE g[2 + 3 + len]
    BY <1>3, <2>4
  <2>6. g[2 + (3 + len)] = IF f.type = 0 THEN f.name ELSE g[2 + (3 + len) + 3 + more]
    <3>1. 2 + (3 + len) \in Nat
      BY <2>2
    <3> QED
      BY <1>3, <2>4, <3>1
  <2> HIDE DEF len, more
  <2>7. 2 + 3 + len = 2 + (3 + len)
    BY <2>2
  <2>8. g[2 + (3 + len) + 3 + more] = None
    BY <1>4, <2>2, <2>3
  <2> QED
    BY <2>1, <2>5, <2>6, <2>7, <2>8
<1>9. l = <<>> \/ (\E e \in Entries : l = <<e>>) \/ (\E e, f \in Entries : l = <<e, f>>)
  BY DEF Lists
<1> QED
  BY <1>2, <1>6, <1>7, <1>8, <1>9 DEF d

\* An extension where it stands: its type, its length and its data
LEMMA ExtensionStands ==
    ASSUME NEW x, Extension(x), NEW d \in Seq(Nat), NEW from \in Nat,
           PieceAt(d, ExtensionBytes(x), from)
    PROVE  LET t == ListData(x.list)
           IN  /\ t \in Seq(Nat) /\ Len(ExtensionBytes(x)) = 4 + Len(t)
               /\ Two(d, from) = x.type /\ Two(d, from + 2) = Len(t)
               /\ PieceAt(d, t, from + 4)
<1> DEFINE t == ListData(x.list)
           n == Len(t)
           a == Big(x.type)
           b == Big(n)
           ab == a \o b
<1>1. t \in Seq(Nat) /\ n \in Nat /\ x.type \in Nat
  BY ListStands, LenProperties DEF Extension
<1>2. ExtensionBytes(x) = ab \o t
  BY DEF ExtensionBytes, ListData, ListBytes
<1>3. a \in Seq(Nat) /\ Len(a) = 2 /\ b \in Seq(Nat) /\ Len(b) = 2
  BY <1>1, BigLen
<1> HIDE DEF t, a, b
<1>4. ab \in Seq(Nat) /\ Len(ab) = 4
  <2>1. ab \in Seq(Nat) /\ Len(ab) = Len(a) + Len(b)
    BY <1>3, JoinStands
  <2> QED
    BY <1>3, <2>1
<1>5. PieceAt(d, ab, from) /\ PieceAt(d, t, from + 4) /\ Len(ab \o t) = 4 + n
  <2>1. PieceAt(d, ab \o t, from)
    BY <1>2
  <2> HIDE DEF ab
  <2>2. PieceAt(d, ab, from) /\ PieceAt(d, t, from + Len(ab))
    BY <1>1, <1>4, <2>1, JoinSplits
  <2>3. Len(ab \o t) = Len(ab) + Len(t)
    BY <1>1, <1>4, JoinStands
  <2> QED
    BY <1>4, <2>2, <2>3
<1>6. PieceAt(d, a, from) /\ PieceAt(d, b, from + 2)
  <2>1. PieceAt(d, a, from) /\ PieceAt(d, b, from + Len(a))
    BY <1>3, <1>5, JoinSplits
  <2> QED
    BY <1>3, <2>1
<1>7. Two(d, from) = x.type
  BY <1>1, <1>6, BigStands DEF a
<1> HIDE DEF n
<1>8. Two(d, from + 2) = n
  <2>1. from + 2 \in Nat
    OBVIOUS
  <2> QED
    BY <1>1, <1>6, <2>1, BigStands DEF b
<1> QED
  BY <1>1, <1>2, <1>5, <1>7, <1>8 DEF n, t

\* What the scan finds at an extension
LEMMA ExtensionRead ==
    ASSUME NEW x, Extension(x), NEW d \in Seq(Nat), NEW from \in Nat,
           PieceAt(d, ExtensionBytes(x), from)
    PROVE  LET t == ListData(x.list)
           IN  ExtensionNames(d)[from] =
                  IF x.type # 0 THEN ExtensionNames(d)[from + 4 + Len(t)] ELSE HostOf(x.list)
<1> DEFINE t == ListData(x.list)
           n == Len(t)
           g == ExtensionNames(d)
           l == Len(d)
           type == Two(d, from)
           two == Two(d, from + 2)
           a == AreaFrom(d, from + 4, two)
<1>1. t \in Seq(Nat) /\ type = x.type /\ two = n /\ PieceAt(d, t, from + 4)
  BY ExtensionStands
<1>2. n \in Nat /\ l \in Nat /\ from + 4 + n <= l
  BY <1>1, LenProperties DEF PieceAt
<1>3. AreaFrom(d, from + 4, n) = t
  <2>1. from + 4 \in Nat
    OBVIOUS
  <2> HIDE DEF t
  <2> QED
    BY <1>1, <2>1, StandsWhole DEF n
<1>4. parse_server_name_extension(t) = HostOf(x.list)
  BY ListRead DEF Extension
<1>5. g[from] = IF from + 4 > l THEN None
                ELSE IF type # 0 THEN g[from + 4 + two]
                ELSE IF from + 4 + two > l THEN None
                ELSE parse_server_name_extension(a)
  <2>1. ExtensionNamesAre(g, d)
    BY ExtensionsRead
  <2> HIDE DEF g
  <2> QED
    BY <2>1 DEF ExtensionNamesAre
<1>6. a = t
  BY <1>1, <1>3
<1> HIDE DEF t, n, g, l, type, two, a
<1>7. ~(from + 4 > l) /\ ~(from + 4 + n > l)
  BY <1>2
<1>8. g[from] = IF x.type # 0 THEN g[from + 4 + n] ELSE HostOf(x.list)
  BY <1>1, <1>4, <1>5, <1>6, <1>7
<1> QED
  BY <1>8 DEF n, g, t

\* The extensions of a hello: none, server_name alone, or behind another one
ServerName(l) == [type |-> 0, list |-> l]
ExtensionsBytes(xs) == Joined([i \in 1..Len(xs) |-> ExtensionBytes(xs[i])])

LEMMA HelloExtensions ==
    ASSUME NEW h \in Hellos
    PROVE  \/ h.exts = <<>>
           \/ \E l \in Lists : h.exts = <<ServerName(l)>>
           \/ \E l \in Lists : h.exts = <<OtherExtension, ServerName(l)>>
BY DEF Hellos, ServerName

LEMMA ServerNameExtension ==
    ASSUME NEW l \in Lists
    PROVE  /\ Extension(ServerName(l)) /\ ServerName(l).type = 0 /\ ServerName(l).list = l
           /\ Extension(OtherExtension) /\ OtherExtension.type = 16
BY DEF Extension, ServerName, OtherExtension, Lists

LEMMA FunctionIsSeq ==
    ASSUME NEW n \in Nat, NEW S, NEW p \in [1..n -> S]
    PROVE  p \in Seq(S) /\ Len(p) = n
OBVIOUS

LEMMA ExtensionsBytesAre ==
    /\ ExtensionsBytes(<<>>) = <<>>
    /\ \A x : Extension(x) => ExtensionsBytes(<<x>>) = ExtensionBytes(x)
    /\ \A x, y : Extension(x) /\ Extension(y) =>
                    ExtensionsBytes(<<x, y>>) = ExtensionBytes(x) \o ExtensionBytes(y)
<1> DEFINE P(xs) == [i \in 1..Len(xs) |-> ExtensionBytes(xs[i])]
<1>1. \A xs : ExtensionsBytes(xs) = Joined(P(xs))
  BY DEF ExtensionsBytes
<1>2. ExtensionsBytes(<<>>) = <<>>
  <2> DEFINE p == P(<<>>)
  <2>1. p \in Seq(Seq(Nat)) /\ Len(p) = 0 /\ Len(p) <= 2
    OBVIOUS
  <2> HIDE DEF p
  <2>2. Joined(p) = <<>>
    BY <2>1, JoinedIs
  <2> QED
    BY <1>1, <2>2 DEF p
<1>3. ASSUME NEW x, Extension(x) PROVE ExtensionsBytes(<<x>>) = ExtensionBytes(x)
  <2> DEFINE xs == <<x>>
             p == P(xs)
             u == ExtensionBytes(x)
  <2>1. u \in Seq(Nat)
    BY <1>3, ExtensionBytesAre
  <2>2. Len(xs) = 1 /\ xs[1] = x
    OBVIOUS
  <2> HIDE DEF xs
  <2>3. p = [i \in 1..1 |-> u]
    BY <2>2
  <2> HIDE DEF u, p
  <2>4. p \in [1..1 -> Seq(Nat)] /\ p[1] = u
    BY <2>1, <2>3
  <2>6. p \in Seq(Seq(Nat)) /\ Len(p) = 1
    <3>1. 1 \in Nat
      OBVIOUS
    <3> QED
      BY <2>4, <3>1, FunctionIsSeq
  <2>7. Len(p) <= 2
    BY <2>6
  <2>5. Joined(p) = u
    BY <2>4, <2>6, <2>7, JoinedIs
  <2> QED
    BY <1>1, <2>5 DEF p, u, xs
<1>4. ASSUME NEW x, NEW y, Extension(x), Extension(y)
      PROVE  ExtensionsBytes(<<x, y>>) = ExtensionBytes(x) \o ExtensionBytes(y)
  <2> DEFINE xs == <<x, y>>
             p == P(xs)
             u == ExtensionBytes(x)
             v == ExtensionBytes(y)
  <2>1. u \in Seq(Nat) /\ v \in Seq(Nat)
    BY <1>4, ExtensionBytesAre
  <2>2. Len(xs) = 2 /\ xs[1] = x /\ xs[2] = y
    OBVIOUS
  <2> HIDE DEF xs
  <2>3. p = [i \in 1..2 |-> IF i = 1 THEN u ELSE v]
    BY <2>2
  <2> HIDE DEF u, v, p
  <2>4. p \in [1..2 -> Seq(Nat)] /\ p[1] = u /\ p[2] = v
    BY <2>1, <2>3
  <2>5. p \in Seq(Seq(Nat)) /\ Len(p) = 2
    <3>1. 2 \in Nat
      OBVIOUS
    <3> QED
      BY <2>4, <3>1, FunctionIsSeq
  <2>7. Len(p) <= 2
    BY <2>5
  <2>6. Joined(p) = p[1] \o p[2]
    BY <2>5, <2>7, JoinedIs
  <2> QED
    BY <1>1, <2>4, <2>6 DEF p, u, v, xs
<1> QED
  BY <1>2, <1>3, <1>4

LEMMA ExtensionsFound ==
    ASSUME NEW h \in Hellos
    PROVE  /\ ExtensionsBytes(h.exts) \in Seq(Nat)
           /\ parse_extensions(ExtensionsBytes(h.exts)) = NameOf(h)
<1> DEFINE xs == h.exts
           d  == ExtensionsBytes(xs)
           g  == ExtensionNames(d)
           Sni == {i \in 1..Len(xs) : xs[i].type = 0}
           i0 == CHOOSE i \in Sni : TRUE
<1>1. NameOf(h) = IF Sni = {} THEN None ELSE HostOf(xs[i0].list)
  BY DEF NameOf, HostOf
<1>2. d \in Seq(Nat) => parse_extensions(d) = g[0]
  BY ExtensionsRead
<1>3. \/ xs = <<>>
      \/ \E l \in Lists : xs = <<ServerName(l)>>
      \/ \E l \in Lists : xs = <<OtherExtension, ServerName(l)>>
  BY HelloExtensions
<1>4. ASSUME NEW x, Extension(x), NEW from \in Nat, d \in Seq(Nat),
             PieceAt(d, ExtensionBytes(x), from)
      PROVE  g[from] = IF x.type # 0 THEN g[from + 4 + Len(ListData(x.list))]
                       ELSE HostOf(x.list)
  BY <1>4, ExtensionRead
<1>5. ASSUME NEW x, Extension(x)
      PROVE  /\ ExtensionBytes(x) \in Seq(Nat) /\ PieceAt(ExtensionBytes(x), ExtensionBytes(x), 0)
             /\ Len(ListData(x.list)) \in Nat
             /\ Len(ExtensionBytes(x)) = 4 + Len(ListData(x.list))
  <2> DEFINE u == ExtensionBytes(x)
  <2>1. u \in Seq(Nat)
    BY <1>5, ExtensionBytesAre
  <2>2. PieceAt(u, u, 0)
    <3> HIDE DEF u
    <3> QED
      BY <2>1, LenProperties DEF PieceAt
  <2>3. Len(u) = 4 + Len(ListData(x.list))
    BY <1>5, <2>1, <2>2, ExtensionStands
  <2>4. Len(ListData(x.list)) \in Nat
    BY <1>5, ListStands, LenProperties DEF Extension
  <2> QED
    BY <2>1, <2>2, <2>3, <2>4
<1>6. CASE xs = <<>>
  <2>1. Sni = {}
    BY <1>6
  <2>2. d = <<>>
    BY <1>6, ExtensionsBytesAre
  <2>3. d \in Seq(Nat) /\ Len(d) = 0
    BY <2>2
  <2>4. g[0] = None
    <3>1. ExtensionNamesAre(g, d)
      BY <2>3, ExtensionsRead
    <3> HIDE DEF g, d
    <3> QED
      BY <2>3, <3>1 DEF ExtensionNamesAre
  <2> HIDE DEF Sni
  <2> QED
    BY <1>1, <1>2, <2>1, <2>3, <2>4
<1>7. ASSUME NEW l \in Lists, xs = <<ServerName(l)>>
      PROVE  d \in Seq(Nat) /\ parse_extensions(d) = NameOf(h)
  <2> DEFINE x == ServerName(l)
  <2>1. Extension(x) /\ x.type = 0 /\ x.list = l
    BY ServerNameExtension
  <2>2. xs = <<x>>
    BY <1>7
  <2> HIDE DEF x
  <2>3. d = ExtensionBytes(x)
    BY <2>1, <2>2, ExtensionsBytesAre
  <2>4. NameOf(h) = HostOf(l)
    <3>1. Len(xs) = 1 /\ xs[1] = x
      BY <2>2
    <3> HIDE DEF xs
    <3>2. Sni = {1}
      BY <2>1, <3>1
    <3> HIDE DEF Sni
    <3>3. i0 = 1
      BY <3>2
    <3> HIDE DEF i0
    <3> QED
      BY <1>1, <2>1, <3>1, <3>2, <3>3
  <2> HIDE DEF Sni, i0
  <2>5. d \in Seq(Nat) /\ PieceAt(d, ExtensionBytes(x), 0)
    BY <1>5, <2>1, <2>3
  <2>6. g[0] = HostOf(l)
    <3> HIDE DEF d, g, xs
    <3> QED
      BY <1>4, <2>1, <2>5
  <2> QED
    BY <1>2, <2>4, <2>5, <2>6
<1>8. ASSUME NEW l \in Lists, xs = <<OtherExtension, ServerName(l)>>
      PROVE  d \in Seq(Nat) /\ parse_extensions(d) = NameOf(h)
  <2> DEFINE x == ServerName(l)
             o == OtherExtension
             u == ExtensionBytes(o)
             v == ExtensionBytes(x)
             n == Len(ListData(o.list))
  <2>1. Extension(x) /\ x.type = 0 /\ x.list = l /\ Extension(o) /\ o.type = 16
    BY ServerNameExtension
  <2>2. xs = <<o, x>>
    BY <1>8
  <2> HIDE DEF x, o
  <2>3. d = u \o v
    BY <2>1, <2>2, ExtensionsBytesAre
  <2>4. NameOf(h) = HostOf(l)
    <3>1. Len(xs) = 2 /\ xs[1] = o /\ xs[2] = x
      BY <2>2
    <3> HIDE DEF xs
    <3>2. Sni = {2}
      BY <2>1, <3>1
    <3> HIDE DEF Sni
    <3>3. i0 = 2
      BY <3>2
    <3> HIDE DEF i0
    <3> QED
      BY <1>1, <2>1, <3>1, <3>2, <3>3
  <2> HIDE DEF Sni, i0
  <2>5. u \in Seq(Nat) /\ v \in Seq(Nat) /\ Len(u) = 4 + n /\ n \in Nat
    BY <1>5, <2>1
  <2> HIDE DEF u, v, n
  <2>6. d \in Seq(Nat) /\ PieceAt(d, u, 0) /\ PieceAt(d, v, 4 + n)
    <3>1. u \o v \in Seq(Nat) /\ PieceAt(u \o v, u, 0) /\ PieceAt(u \o v, v, Len(u))
      BY <2>5, JoinStands
    <3> QED
      BY <2>3, <2>5, <3>1
  <2> HIDE DEF d, g, xs
  <2>7. g[0] = g[0 + 4 + n]
    BY <1>4, <2>1, <2>6 DEF u, n
  <2>8. g[4 + n] = HostOf(l)
    <3>1. 4 + n \in Nat
      BY <2>5
    <3> QED
      BY <1>4, <2>1, <2>6, <3>1 DEF v
  <2>9. 0 + 4 + n = 4 + n
    BY <2>5
  <2> QED
    BY <1>2, <2>4, <2>6, <2>7, <2>8, <2>9
<1> QED
  BY <1>3, <1>6, <1>7, <1>8

\* Where the parts of a hello stand
LEMMA HelloStands ==
    ASSUME NEW h \in Hellos
    PROVE  LET d == Hello(h)
               x == ExtensionsBytes(h.exts)
               s == h.session
           IN  /\ d \in Seq(Nat) /\ x \in Seq(Nat) /\ Len(d) = 52 + s + Len(x)
               /\ PieceAt(d, <<22, 3, 1>>, 0) /\ PieceAt(d, Big(47 + s + Len(x)), 3)
               /\ PieceAt(d, <<1>>, 5) /\ PieceAt(d, <<s>>, 43)
               /\ PieceAt(d, <<0, 2, 19, 1>>, 44 + s) /\ PieceAt(d, <<1, 0>>, 48 + s)
               /\ PieceAt(d, Big(Len(x)), 50 + s) /\ PieceAt(d, x, 52 + s)
<1> DEFINE d == Hello(h)
           x == ExtensionsBytes(h.exts)
           s == h.session
           n == Len(x)
           record == <<22, 3, 1>>
           one == <<1>>
           random == [i \in 1..37 |-> 0]
           size == <<s>>
           id == [i \in 1..s |-> 9]
           suites == <<0, 2, 19, 1>>
           methods == <<1, 0>>
           len == Big(n)
           f1 == one \o random
           f2 == f1 \o size
           f3 == f2 \o id
           f4 == f3 \o suites
           f5 == f4 \o methods
           f6 == f5 \o len
           body == f6 \o x
           front == record \o Big(Len(body))
<1>1. d = front \o body
  BY DEF Hello, ExtensionsBytes
<1>2. s \in {0, 1} /\ s \in Nat
  BY DEF Hellos
<1>3. x \in Seq(Nat) /\ n \in Nat
  BY ExtensionsFound, LenProperties
<1> HIDE DEF d, x, n, s
<1>4. /\ record \in Seq(Nat) /\ Len(record) = 3
      /\ one \in Seq(Nat) /\ Len(one) = 1
      /\ size \in Seq(Nat) /\ Len(size) = 1
      /\ suites \in Seq(Nat) /\ Len(suites) = 4
      /\ methods \in Seq(Nat) /\ Len(methods) = 2
  BY <1>2
<1>5. random \in Seq(Nat) /\ Len(random) = 37 /\ id \in Seq(Nat) /\ Len(id) = s
  <2>1. random \in [1..37 -> Nat] /\ id \in [1..s -> Nat] /\ 37 \in Nat
    OBVIOUS
  <2> HIDE DEF random, id
  <2> QED
    BY <1>2, <2>1, FunctionIsSeq
<1>6. len \in Seq(Nat) /\ Len(len) = 2
  BY <1>3, BigLen
<1> HIDE DEF record, one, random, size, id, suites, methods, len
<1>7. f1 \in Seq(Nat) /\ Len(f1) = 38
  <2>1. f1 \in Seq(Nat) /\ Len(f1) = Len(one) + Len(random)
    BY <1>4, <1>5, JoinStands
  <2> QED
    BY <1>4, <1>5, <2>1
<1> HIDE DEF f1
<1>8. f2 \in Seq(Nat) /\ Len(f2) = 39
  <2>1. f2 \in Seq(Nat) /\ Len(f2) = Len(f1) + Len(size)
    BY <1>4, <1>7, JoinStands
  <2> QED
    BY <1>4, <1>7, <2>1
<1> HIDE DEF f2
<1>9. f3 \in Seq(Nat) /\ Len(f3) = 39 + s
  <2>1. f3 \in Seq(Nat) /\ Len(f3) = Len(f2) + Len(id)
    BY <1>5, <1>8, JoinStands
  <2> QED
    BY <1>5, <1>8, <2>1
<1> HIDE DEF f3
<1>10. f4 \in Seq(Nat) /\ Len(f4) = 43 + s
  <2>1. f4 \in Seq(Nat) /\ Len(f4) = Len(f3) + Len(suites)
    BY <1>4, <1>9, JoinStands
  <2> QED
    BY <1>2, <1>4, <1>9, <2>1
<1> HIDE DEF f4
<1>11. f5 \in Seq(Nat) /\ Len(f5) = 45 + s
  <2>1. f5 \in Seq(Nat) /\ Len(f5) = Len(f4) + Len(methods)
    BY <1>4, <1>10, JoinStands
  <2> QED
    BY <1>2, <1>4, <1>10, <2>1
<1> HIDE DEF f5
<1>12. f6 \in Seq(Nat) /\ Len(f6) = 47 + s
  <2>1. f6 \in Seq(Nat) /\ Len(f6) = Len(f5) + Len(len)
    BY <1>6, <1>11, JoinStands
  <2> QED
    BY <1>2, <1>6, <1>11, <2>1
<1> HIDE DEF f6
<1>13. body \in Seq(Nat) /\ Len(body) = 47 + s + n
  <2>1. body \in Seq(Nat) /\ Len(body) = Len(f6) + Len(x)
    BY <1>3, <1>12, JoinStands
  <2> QED
    BY <1>2, <1>12, <2>1 DEF n
<1> DEFINE big == Big(Len(body))
<1>14. big \in Seq(Nat) /\ Len(big) = 2 /\ big = Big(47 + s + n)
  <2> HIDE DEF body
  <2>1. Len(body) \in Nat
    BY <1>13, LenProperties
  <2> QED
    BY <1>13, <2>1, BigLen
<1> HIDE DEF body
<1>15. front = record \o big
  OBVIOUS
<1> HIDE DEF big, front
<1>16. front \in Seq(Nat) /\ Len(front) = 5
  <2>1. record \o big \in Seq(Nat) /\ Len(record \o big) = Len(record) + Len(big)
    BY <1>4, <1>14, JoinStands
  <2> QED
    BY <1>4, <1>14, <1>15, <2>1
<1>17. d \in Seq(Nat) /\ Len(d) = 52 + s + n /\ PieceAt(d, front, 0) /\ PieceAt(d, body, 5)
  <2>1. /\ front \o body \in Seq(Nat) /\ Len(front \o body) = Len(front) + Len(body)
        /\ PieceAt(front \o body, front, 0) /\ PieceAt(front \o body, body, Len(front))
    BY <1>13, <1>16, JoinStands
  <2> QED
    BY <1>1, <1>2, <1>3, <1>13, <1>16, <2>1
<1>18. PieceAt(d, record, 0) /\ PieceAt(d, big, 3)
  <2>1. PieceAt(d, record, 0) /\ PieceAt(d, big, 0 + Len(record))
    BY <1>4, <1>14, <1>15, <1>17, JoinSplits
  <2> QED
    BY <1>4, <2>1
<1>19. PieceAt(d, f6, 5) /\ PieceAt(d, x, 52 + s)
  <2>1. PieceAt(d, f6, 5) /\ PieceAt(d, x, 5 + Len(f6))
    BY <1>3, <1>12, <1>17, JoinSplits DEF body
  <2>2. 5 + Len(f6) = 52 + s
    BY <1>2, <1>12
  <2> QED
    BY <2>1, <2>2
<1>20. PieceAt(d, f5, 5) /\ PieceAt(d, len, 50 + s)
  <2>1. PieceAt(d, f5, 5) /\ PieceAt(d, len, 5 + Len(f5))
    BY <1>6, <1>11, <1>17, <1>19, JoinSplits DEF f6
  <2>2. 5 + Len(f5) = 50 + s
    BY <1>2, <1>11
  <2> QED
    BY <2>1, <2>2
<1>21. PieceAt(d, f4, 5) /\ PieceAt(d, methods, 48 + s)
  <2>1. PieceAt(d, f4, 5) /\ PieceAt(d, methods, 5 + Len(f4))
    BY <1>4, <1>10, <1>17, <1>20, JoinSplits DEF f5
  <2>2. 5 + Len(f4) = 48 + s
    BY <1>2, <1>10
  <2> QED
    BY <2>1, <2>2
<1>22. PieceAt(d, f3, 5) /\ PieceAt(d, suites, 44 + s)
  <2>1. PieceAt(d, f3, 5) /\ PieceAt(d, suites, 5 + Len(f3))
    BY <1>4, <1>9, <1>17, <1>21, JoinSplits DEF f4
  <2>2. 5 + Len(f3) = 44 + s
    BY <1>2, <1>9
  <2> QED
    BY <2>1, <2>2
<1>23. PieceAt(d, f2, 5)
  BY <1>5, <1>8, <1>17, <1>22, JoinSplits DEF f3
<1>24. PieceAt(d, f1, 5) /\ PieceAt(d, size, 43)
  <2>1. PieceAt(d, f1, 5) /\ PieceAt(d, size, 5 + Len(f1))
    BY <1>4, <1>7, <1>17, <1>23, JoinSplits DEF f2
  <2>2. 5 + Len(f1) = 43
    BY <1>7
  <2> QED
    BY <2>1, <2>2
<1>25. PieceAt(d, one, 5)
  BY <1>4, <1>5, <1>17, <1>24, JoinSplits DEF f1
<1> QED
  BY <1>3, <1>14, <1>17, <1>18, <1>19, <1>20, <1>21, <1>22, <1>24, <1>25
  DEF d, x, s, n, record, one, size, suites, methods, len

\* get_sni finds the name of a whole hello.
LEMMA HelloRead ==
    ASSUME NEW h \in Hellos
    PROVE  parse_tls_header(Hello(h)) = NameOf(h)
<1> DEFINE d == Hello(h)
           x == ExtensionsBytes(h.exts)
           s == h.session
           n == Len(x)
           end == 5 + Two(d, 3)
           e == Extensions(d)
           l == Len(d)
<1>1. /\ d \in Seq(Nat) /\ x \in Seq(Nat) /\ l = 52 + s + n
      /\ PieceAt(d, <<22, 3, 1>>, 0) /\ PieceAt(d, Big(47 + s + n), 3)
      /\ PieceAt(d, <<1>>, 5) /\ PieceAt(d, <<s>>, 43)
      /\ PieceAt(d, <<0, 2, 19, 1>>, 44 + s) /\ PieceAt(d, <<1, 0>>, 48 + s)
      /\ PieceAt(d, Big(n), 50 + s) /\ PieceAt(d, x, 52 + s)
  BY HelloStands
<1>2. s \in {0, 1} /\ s \in Nat
  BY DEF Hellos
<1>3. n \in Nat
  BY <1>1, LenProperties
<1>4. parse_extensions(x) = NameOf(h)
  BY ExtensionsFound
<1> HIDE DEF d, x, s, n
<1>5. At(d, 0) = 22 /\ At(d, 1) = 3
  <2> DEFINE t == <<22, 3, 1>>
  <2>1. t \in Seq(Nat) /\ Len(t) = 3 /\ t[1] = 22 /\ t[2] = 3 /\ PieceAt(d, t, 0)
    BY <1>1
  <2> HIDE DEF t
  <2>2. 0 < Len(t) /\ 1 < Len(t) /\ 0 \in Nat /\ 0 + 1 = 1
    BY <2>1
  <2>3. At(d, 0) = t[1] /\ At(d, 0 + 1) = t[2]
    BY <1>1, <2>1, <2>2, FirstStand
  <2> QED
    BY <2>1, <2>2, <2>3
<1>6. Two(d, 3) = 47 + s + n
  <2>1. 47 + s + n \in Nat
    BY <1>2, <1>3
  <2> QED
    BY <1>1, <2>1, BigStands
<1>7. At(d, 5) = 1
  <2> DEFINE t == <<1>>
  <2>1. t \in Seq(Nat) /\ Len(t) = 1 /\ t[1] = 1 /\ PieceAt(d, t, 5)
    BY <1>1
  <2> HIDE DEF t
  <2>2. 0 < Len(t) /\ 5 \in Nat
    BY <2>1
  <2> QED
    BY <1>1, <2>1, <2>2, FirstStand
<1>8. At(d, 43) = s
  <2> DEFINE t == <<s>>
  <2>1. t \in Seq(Nat) /\ Len(t) = 1 /\ t[1] = s /\ PieceAt(d, t, 43)
    BY <1>1, <1>2
  <2> HIDE DEF t
  <2>2. 0 < Len(t) /\ 43 \in Nat
    BY <2>1
  <2> QED
    BY <1>1, <2>1, <2>2, FirstStand
<1>9. Two(d, 44 + s) = 2
  <2> DEFINE t == <<0, 2, 19, 1>>
             from == 44 + s
  <2>1. t \in Seq(Nat) /\ Len(t) = 4 /\ t[1] = 0 /\ t[2] = 2 /\ PieceAt(d, t, from) /\ from \in Nat
    BY <1>1, <1>2
  <2> HIDE DEF t, from
  <2>2. 0 < Len(t) /\ 1 < Len(t)
    BY <2>1
  <2>3. At(d, from) = 0 /\ At(d, from + 1) = 2
    BY <1>1, <2>1, <2>2, FirstStand
  <2>4. Two(d, from) = 2
    BY <2>3 DEF Two
  <2> QED
    BY <2>4 DEF from
<1>10. At(d, 48 + s) = 1
  <2> DEFINE t == <<1, 0>>
             from == 48 + s
  <2>1. t \in Seq(Nat) /\ Len(t) = 2 /\ t[1] = 1 /\ PieceAt(d, t, from) /\ from \in Nat
    BY <1>1, <1>2
  <2> HIDE DEF t, from
  <2>2. 0 < Len(t)
    BY <2>1
  <2>3. At(d, from) = 1
    BY <1>1, <2>1, <2>2, FirstStand
  <2> QED
    BY <2>3 DEF from
<1>11. SessionId = 43 /\ Ciphers(d) = 44 + s
  BY <1>2, <1>8 DEF SessionId, Ciphers
<1>12. Compressions(d) = 48 + s
  BY <1>2, <1>9, <1>11 DEF Compressions
<1>13. e = 50 + s
  BY <1>2, <1>10, <1>12 DEF Extensions
<1>14. Two(d, e) = n
  <2>1. 50 + s \in Nat
    BY <1>2
  <2> QED
    BY <1>1, <1>3, <1>13, <2>1, BigStands
<1>15. AreaFrom(d, e + 2, Two(d, e)) = x
  <2>1. 52 + s \in Nat /\ e + 2 = 52 + s
    BY <1>2, <1>13
  <2>2. AreaFrom(d, 52 + s, Len(x)) = x
    BY <1>1, <2>1, StandsWhole
  <2> QED
    BY <1>14, <2>1, <2>2 DEF n
<1>16. end = 52 + s + n /\ end = l
  BY <1>1, <1>2, <1>3, <1>6
<1> HIDE DEF l, end, e
<1>17. WholeRecord(d)
  <2>1. l >= 5 /\ end <= l
    BY <1>1, <1>2, <1>3, <1>16
  <2>2. At(d, 0) = 22 /\ At(d, 1) >= 3 /\ (SignedChar => At(d, 1) < 128)
    BY <1>5
  <2> QED
    BY <2>1, <2>2 DEF WholeRecord, end, l
<1>18. /\ 5 + 1 <= end /\ SessionId + 1 <= end /\ Ciphers(d) + 2 <= end
       /\ Compressions(d) + 1 <= end /\ e + 2 <= end /\ e + 2 + Two(d, e) <= end
  BY <1>2, <1>3, <1>11, <1>12, <1>13, <1>14, <1>16
<1>19. parse_tls_header(d) = parse_extensions(AreaFrom(d, e + 2, Two(d, e)))
  BY <1>7, <1>17, <1>18 DEF parse_tls_header, end, e
<1> QED
  BY <1>4, <1>15, <1>19 DEF d

-----------------------------------------------------------------------------
(***************************************************************************)
(* The invariant: a call has the result of its arguments, and the call of  *)
(* get_qname and its callers the counters it needs.                        *)
(***************************************************************************)
PingSessions == [version : {4}, saddr : Words, daddr : Words, id : Words]

CallInv ==
    \/ call = NoCall
    \/ \E p \in Packets4 \cup Packets6 \cup OtherPackets :
          call = [op |-> "handle_ip", arg |-> p, res |-> HandleIp(p)]
    \/ \E s \in Sessions, data \in Contents, syn, ack \in BOOLEAN :
          call = [op |-> "tcp", arg |-> s, data |-> data, res |-> WriteTcp(s, data, syn, ack)]
    \/ \E s \in Sessions, data \in Contents :
          call = [op |-> "udp", arg |-> s, data |-> data, res |-> WriteUdp(s, data)]
    \/ \E s \in PingSessions, data \in Contents :
          call = [op |-> "icmp", arg |-> s, data |-> data, res |-> WriteIcmp(s, data)]
    \/ \E s \in Sessions :
          call = [op |-> "rst", arg |-> s, data |-> <<>>,
                  res |-> WriteTcp([s EXCEPT !.version = 4, !.scale = 0], <<>>, FALSE, FALSE)]

ParseInv ==
    /\ parse.op \in {"none", "hello", "damaged", "patch"}
    /\ parse.op = "damaged" => parse.data \in Seq(Nat) /\ parse.res = parse_tls_header(parse.data)

\* get_qname reads a name with `left` records before it
Reading(d) ==
    /\ {"at", "noff", "left", "question"} \subseteq DOMAIN d
    /\ d.at \in {"name", "record"}
    /\ d.noff \in 0..NameMax /\ d.left \in 1..(MaxAnswers + 1)
DnsInv == dns = NoDns \/ dns.at = "dhcp" \/ Reading(dns)

MessagesInv == CallInv /\ ParseInv /\ DnsInv

LEMMA InitInv == Init => MessagesInv
BY DEF Init, PacketsInit, RequestsInit, DnsInit, NoParse, MessagesInv, CallInv, ParseInv, DnsInv

LEMMA CallKept ==
    ASSUME CallInv, PacketsNext
    PROVE  CallInv'
<1>1. CASE ReadTun
  BY <1>1 DEF ReadTun, CallInv
<1>2. CASE SendTcp
  BY <1>2 DEF SendTcp, CallInv
<1>3. CASE SendUdp
  BY <1>3 DEF SendUdp, CallInv
<1>4. CASE SendIcmp
  BY <1>4 DEF SendIcmp, CallInv, PingSessions
<1>5. CASE RefuseUnknown
  BY <1>5 DEF RefuseUnknown, CallInv
<1>6. CASE PacketsReturn
  BY <1>6 DEF PacketsReturn, CallInv
<1> QED
  BY <1>1, <1>2, <1>3, <1>4, <1>5, <1>6 DEF PacketsNext

LEMMA ParseKept ==
    ASSUME RequestsNext
    PROVE  ParseInv'
<1>1. CASE ParseHello
  BY <1>1 DEF ParseHello, ParseInv
<1>2. CASE ParsePart
  <2>1. PICK h \in Hellos : \E n \in 0..(Len(Hello(h)) - 1) :
            LET d == AreaFrom(Hello(h), 0, n)
            IN  parse' = [op |-> "damaged", data |-> d, res |-> parse_tls_header(d)]
    BY <1>2 DEF ParsePart
  <2>2. PICK n \in 0..(Len(Hello(h)) - 1) :
            LET d == AreaFrom(Hello(h), 0, n)
            IN  parse' = [op |-> "damaged", data |-> d, res |-> parse_tls_header(d)]
    BY <2>1
  <2> DEFINE d == AreaFrom(Hello(h), 0, n)
  <2>3. Hello(h) \in Seq(Nat)
    BY HelloStands
  <2>4. n \in Nat /\ 0 + n <= Len(Hello(h))
    BY <2>3, LenProperties
  <2>5. d \in Seq(Nat)
    BY <2>3, <2>4, AreaIs
  <2>6. parse' = [op |-> "damaged", data |-> d, res |-> parse_tls_header(d)]
    BY <2>2
  <2> HIDE DEF d
  <2> QED
    BY <2>5, <2>6 DEF ParseInv
<1>3. CASE ParseDamaged
  <2>1. PICK h \in Hellos, x \in Damages : \E i \in 1..Len(Hello(h)) :
            LET d == [Hello(h) EXCEPT ![i] = (@ + x) % 256]
            IN  parse' = [op |-> "damaged", data |-> d, res |-> parse_tls_header(d)]
    BY <1>3 DEF ParseDamaged
  <2>2. PICK i \in 1..Len(Hello(h)) :
            LET d == [Hello(h) EXCEPT ![i] = (@ + x) % 256]
            IN  parse' = [op |-> "damaged", data |-> d, res |-> parse_tls_header(d)]
    BY <2>1
  <2> DEFINE b == (Hello(h)[i] + x) % 256
             d == [Hello(h) EXCEPT ![i] = b]
  <2>3. Hello(h) \in Seq(Nat)
    BY HelloStands
  <2>4. Hello(h)[i] \in Nat /\ x \in Nat
    BY <2>3, ElementOfSeq, DamagesAssumption
  <2>5. b \in Nat
    BY <2>4
  <2>6. parse' = [op |-> "damaged", data |-> d, res |-> parse_tls_header(d)]
    BY <2>2
  <2> HIDE DEF b
  <2>7. d \in Seq(Nat)
    BY <2>3, <2>5, ExceptSeq
  <2> HIDE DEF d
  <2> QED
    BY <2>6, <2>7 DEF ParseInv
<1>4. CASE Patch
  BY <1>4 DEF Patch, ParseInv
<1>5. CASE RequestsReturn
  BY <1>5 DEF RequestsReturn, ParseInv, NoParse
<1> QED
  BY <1>1, <1>2, <1>3, <1>4, <1>5 DEF RequestsNext

LEMMA EnteredReads ==
    ASSUME NEW d, Reading(d), NEW off
    PROVE  Reading(Entered(d, off))
<1>1. NameMax \in Nat
  BY NameMaxAssumption
<1> QED
  BY <1>1 DEF Reading, Entered

LEMMA NextRecordReads ==
    ASSUME Reading(dns), NEW next
    PROVE  NextRecord(next) = NoDns \/ Reading(NextRecord(next))
<1>1. CASE dns.left = 1
  BY <1>1 DEF NextRecord
<1>2. CASE dns.left # 1
  <2> DEFINE d == [dns EXCEPT !.left = @ - 1, !.question = FALSE]
  <2>1. dns.left - 1 \in 1..(MaxAnswers + 1)
    BY <1>2, MaxAnswersAssumption DEF Reading
  <2>2. Reading(d)
    BY <2>1 DEF Reading
  <2>3. NextRecord(next) = Entered(d, next)
    BY <1>2 DEF NextRecord
  <2> HIDE DEF d
  <2> QED
    BY <2>2, <2>3, EnteredReads
<1> QED
  BY <1>1, <1>2

LEMMA DnsKept ==
    ASSUME DnsInv, DnsNext
    PROVE  DnsInv'
<1>1. CASE Arrive
  <2>1. PICK body \in MessageBodies, stray \in Strays, kind \in {"query", "response"},
             acount \in 1..MaxAnswers :
          dns' = Entered([at |-> "name", kind |-> kind,
                          data |-> [i \in 1..Header |-> 0] \o body, stray |-> stray,
                          left |-> IF kind = "query" THEN 1 ELSE 1 + acount,
                          question |-> TRUE, off |-> 0, start |-> 0, ptr |-> 0,
                          noff |-> 0, c |-> FALSE, name |-> Blank, run |-> 0,
                          back |-> TRUE, ret |-> 0], Header)
    BY <1>1 DEF Arrive
  <2> DEFINE d == [at |-> "name", kind |-> kind,
                   data |-> [i \in 1..Header |-> 0] \o body, stray |-> stray,
                   left |-> IF kind = "query" THEN 1 ELSE 1 + acount,
                   question |-> TRUE, off |-> 0, start |-> 0, ptr |-> 0,
                   noff |-> 0, c |-> FALSE, name |-> Blank, run |-> 0,
                   back |-> TRUE, ret |-> 0]
  <2>2. d.left \in 1..(MaxAnswers + 1)
    BY MaxAnswersAssumption
  <2>3. Reading(d)
    BY <2>2, NameMaxAssumption DEF Reading
  <2> HIDE DEF d
  <2>4. Reading(dns')
    BY <2>1, <2>3, EnteredReads DEF d
  <2> QED
    BY <2>4 DEF DnsInv
<1>2. CASE FollowPointer
  <2>1. Reading(dns) /\ dns' = JumpTo
    BY <1>2 DEF FollowPointer, DnsInv, NoDns
  <2>2. Reading(JumpTo)
    BY <2>1 DEF Reading, JumpTo
  <2> QED
    BY <2>1, <2>2 DEF DnsInv
<1>3. CASE CopyLabel
  <2>1. Reading(dns) /\ dns' = WithLabel /\ Length \in 1..(Flag - 1)
    BY <1>3 DEF CopyLabel, DnsInv, NoDns
  <2>2. NextOff \in 0..NameMax
    BY <2>1, NameMaxAssumption, ByteValuesAssumption DEF NextOff, Reading
  <2>3. Reading(WithLabel)
    BY <2>1, <2>2 DEF Reading, WithLabel
  <2> QED
    BY <2>1, <2>3 DEF DnsInv
<1>4. CASE BadName
  BY <1>4 DEF BadName, DnsInv
<1>5. CASE EndName
  <2>1. Reading(dns)
    BY <1>5 DEF EndName, DnsInv, NoDns
  <2>2. Reading(dns')
    BY <1>5, <2>1 DEF Reading, EndName
  <2> QED
    BY <2>2 DEF DnsInv
<1>6. CASE QueryDone
  BY <1>6 DEF QueryDone, DnsInv
<1>7. CASE Question
  <2>1. Reading(dns)
    BY <1>7 DEF Question, DnsInv, NoDns
  <2> QED
    BY <1>7, <2>1, NextRecordReads DEF Question, DnsInv
<1>8. CASE Answer
  <2>1. Reading(dns)
    BY <1>8 DEF Answer, DnsInv, NoDns
  <2>2. dns' = NoDns \/ \E next : dns' = NextRecord(next)
    BY <1>8 DEF Answer
  <2> QED
    BY <2>1, <2>2, NextRecordReads DEF DnsInv
<1>9. CASE CheckDhcp
  BY <1>9 DEF CheckDhcp, DnsInv
<1>10. CASE DhcpDone
  BY <1>10 DEF DhcpDone, DnsInv
<1> QED
  BY <1>1, <1>2, <1>3, <1>4, <1>5, <1>6, <1>7, <1>8, <1>9, <1>10 DEF DnsNext, DnsStep

LEMMA NextInv ==
    ASSUME MessagesInv, [Next]_messages
    PROVE  MessagesInv'
<1>1. CASE PacketsNext /\ UNCHANGED <<parse, dns>>
  <2>1. CallInv'
    BY <1>1, CallKept DEF MessagesInv
  <2> QED
    BY <1>1, <2>1 DEF MessagesInv, ParseInv, DnsInv, Reading
<1>2. CASE RequestsNext /\ UNCHANGED <<call, dns>>
  <2>1. ParseInv'
    BY <1>2, ParseKept
  <2>2. CallInv' /\ DnsInv'
    BY <1>2 DEF MessagesInv, CallInv, DnsInv, Reading
  <2> QED
    BY <2>1, <2>2 DEF MessagesInv
<1>3. CASE DnsNext /\ UNCHANGED <<call, parse>>
  <2>1. DnsInv'
    BY <1>3, DnsKept DEF MessagesInv
  <2>2. CallInv' /\ ParseInv'
    BY <1>3 DEF MessagesInv, CallInv, ParseInv
  <2> QED
    BY <2>1, <2>2 DEF MessagesInv
<1>4. CASE UNCHANGED messages
  BY <1>4 DEF messages, MessagesInv, CallInv, ParseInv, DnsInv, Reading
<1> QED
  BY <1>1, <1>2, <1>3, <1>4 DEF Next

\* Every call of the event thread is as MessagesInv has it.
LEMMA Invariance == Spec => []MessagesInv
<1>1. MessagesInv /\ [Next]_messages => MessagesInv'
  BY NextInv
<1> QED
  BY <1>1, InitInv, PTL DEF Spec

-----------------------------------------------------------------------------
(***************************************************************************)
(* What the invariant says of a call.                                      *)
(***************************************************************************)
LEMMA WordNat == Word \subseteq Nat /\ Words \subseteq Nat
BY TopFacts, WordsAssumption

LEMMA SessionsAre == \A s \in Sessions : Session(s)
<1> SUFFICES ASSUME NEW s \in Sessions PROVE Session(s)
  OBVIOUS
<1>1. s.version \in {4, 6} /\ s.daddr = 1 /\ s.dest = 2 /\ s.remote = 3 /\ s.scale \in {0, 1}
  BY DEF Sessions
<1>2. s.saddr \in Words /\ s.source \in Words /\ s.local \in Words
  BY DEF Sessions
<1>3. s.saddr \in Nat /\ s.source \in Nat /\ s.local \in Nat
  BY <1>2, WordNat
<1>4. s.daddr \in Nat /\ s.dest \in Nat /\ s.remote \in Nat /\ s.scale \in Nat
  BY <1>1
<1> QED
  BY <1>1, <1>3, <1>4 DEF Session, Speaker

LEMMA PingsAre == \A s \in PingSessions : Speaker(s) /\ s.id \in Nat
BY WordNat DEF PingSessions, Speaker

LEMMA ContentsAre == \A d \in Contents : d \in Seq(Nat)
<1> SUFFICES ASSUME NEW d \in Contents PROVE d \in Seq(Nat)
  OBVIOUS
<1>1. d \in Seq(Byte) /\ Byte \subseteq Nat
  BY ContentsAssumption, BaseAssumption DEF Byte
<1> QED
  BY <1>1, SeqMonotonic

\* A TCP packet, of a session s or of the one made up for an RST
LEMMA TcpCall ==
    ASSUME NEW s \in Sessions, NEW t, Session(t), t.saddr = s.saddr, t.daddr = s.daddr,
           t.source = s.source, t.dest = s.dest,
           NEW d \in Seq(Nat), NEW syn \in BOOLEAN, NEW ack \in BOOLEAN, NEW op \in {"tcp", "rst"},
           t.version = s.version \/ (op = "rst" /\ s.version = 6),
           call = [op |-> op, arg |-> s, data |-> d, res |-> WriteTcp(t, d, syn, ack)]
    PROVE  PacketsTypeOK /\ AnswersAreValid
<1> DEFINE r == WriteTcp(t, d, syn, ack)
<1>1. /\ Sound(r, RePseudo(r))
      /\ 4 * r.header[5] = 20 + Len(r.options)
      /\ RePayload(r) - 4 * r.header[5] = Len(d)
      /\ r.ip.src = t.daddr /\ r.ip.dst = t.saddr /\ r.ip.version = t.version
      /\ r.header[1] = t.dest /\ r.header[2] = t.source
  BY TcpWritten
<1>2. call.op = op /\ call.arg = s /\ call.data = d /\ call.res = r
  OBVIOUS
<1> HIDE DEF r
<1>3. PacketsTypeOK
  BY <1>1, <1>2 DEF PacketsTypeOK, Sound
<1>4. LengthsAgree
  BY <1>1, <1>2 DEF LengthsAgree, RePayload
<1>5. ChecksumsVerify
  BY <1>1, <1>2 DEF ChecksumsVerify, Sound, RePseudo, RePayload
<1>6. AnswerReachesAsker
  BY <1>1, <1>2 DEF AnswerReachesAsker
<1> QED
  BY <1>3, <1>4, <1>5, <1>6 DEF AnswersAreValid

LEMMA UdpCall ==
    ASSUME NEW s \in Sessions, NEW d \in Seq(Nat),
           call = [op |-> "udp", arg |-> s, data |-> d, res |-> WriteUdp(s, d)]
    PROVE  PacketsTypeOK /\ AnswersAreValid
<1> DEFINE r == WriteUdp(s, d)
<1>1. /\ Sound(r, RePseudo(r))
      /\ r.header[3] = RePayload(r) /\ RePayload(r) - 8 = Len(d)
      /\ r.ip.src = s.daddr /\ r.ip.dst = s.saddr /\ r.ip.version = s.version
      /\ r.header[1] = s.dest /\ r.header[2] = s.source
  BY SessionsAre, UdpWritten
<1>2. call.op = "udp" /\ call.arg = s /\ call.data = d /\ call.res = r
  OBVIOUS
<1> HIDE DEF r
<1>3. PacketsTypeOK
  BY <1>1, <1>2 DEF PacketsTypeOK, Sound
<1>4. LengthsAgree
  BY <1>1, <1>2 DEF LengthsAgree, RePayload
<1>5. ChecksumsVerify
  BY <1>1, <1>2 DEF ChecksumsVerify, Sound, RePseudo, RePayload
<1>6. AnswerReachesAsker
  BY <1>1, <1>2 DEF AnswerReachesAsker
<1> QED
  BY <1>3, <1>4, <1>5, <1>6 DEF AnswersAreValid

LEMMA IcmpCall ==
    ASSUME NEW s \in PingSessions, NEW d \in Seq(Nat),
           call = [op |-> "icmp", arg |-> s, data |-> d, res |-> WriteIcmp(s, d)]
    PROVE  PacketsTypeOK /\ AnswersAreValid
<1> DEFINE r == WriteIcmp(s, d)
<1>1. /\ Sound(r, <<>>)
      /\ RePayload(r) - 2 = Len(d)
      /\ r.ip.src = s.daddr /\ r.ip.dst = s.saddr /\ r.ip.version = s.version
  BY PingsAre, IcmpWritten
<1>2. call.op = "icmp" /\ call.arg = s /\ call.data = d /\ call.res = r
  OBVIOUS
<1> HIDE DEF r
<1>3. PacketsTypeOK
  BY <1>1, <1>2 DEF PacketsTypeOK, Sound
<1>4. LengthsAgree
  BY <1>1, <1>2 DEF LengthsAgree, RePayload
<1>5. ChecksumsVerify
  BY <1>1, <1>2 DEF ChecksumsVerify, Sound
<1>6. AnswerReachesAsker
  BY <1>1, <1>2 DEF AnswerReachesAsker
<1> QED
  BY <1>3, <1>4, <1>5, <1>6 DEF AnswersAreValid

LEMMA CallIsRight ==
    ASSUME CallInv
    PROVE  PacketsTypeOK /\ AnswersAreValid /\ PayloadInside
<1>1. CASE call = NoCall
  BY <1>1 DEF NoCall, PacketsTypeOK, PayloadInside, AnswersAreValid, LengthsAgree,
              ChecksumsVerify, AnswerReachesAsker, Written
<1>2. ASSUME NEW p \in Packets4 \cup Packets6 \cup OtherPackets,
             call = [op |-> "handle_ip", arg |-> p, res |-> HandleIp(p)]
      PROVE  PacketsTypeOK /\ AnswersAreValid /\ PayloadInside
  <2>1. call.op = "handle_ip" /\ call.arg = p /\ call.res = HandleIp(p)
    BY <1>2
  <2>2. PacketsTypeOK
    BY <2>1, Dispatched DEF PacketsTypeOK
  <2>3. PayloadInside
    BY <2>1, Dispatched DEF PayloadInside
  <2>4. AnswersAreValid
    BY <2>1 DEF AnswersAreValid, LengthsAgree, ChecksumsVerify, AnswerReachesAsker, Written
  <2> QED
    BY <2>2, <2>3, <2>4
<1>3. ASSUME NEW s \in Sessions, NEW d \in Contents, NEW syn \in BOOLEAN, NEW ack \in BOOLEAN,
             call = [op |-> "tcp", arg |-> s, data |-> d, res |-> WriteTcp(s, d, syn, ack)]
      PROVE  PacketsTypeOK /\ AnswersAreValid /\ PayloadInside
  <2>1. PacketsTypeOK /\ AnswersAreValid
    BY <1>3, SessionsAre, ContentsAre, TcpCall
  <2>2. PayloadInside
    BY <1>3 DEF PayloadInside
  <2> QED
    BY <2>1, <2>2
<1>4. ASSUME NEW s \in Sessions, NEW d \in Contents,
             call = [op |-> "udp", arg |-> s, data |-> d, res |-> WriteUdp(s, d)]
      PROVE  PacketsTypeOK /\ AnswersAreValid /\ PayloadInside
  <2>1. PacketsTypeOK /\ AnswersAreValid
    BY <1>4, ContentsAre, UdpCall
  <2>2. PayloadInside
    BY <1>4 DEF PayloadInside
  <2> QED
    BY <2>1, <2>2
<1>5. ASSUME NEW s \in PingSessions, NEW d \in Contents,
             call = [op |-> "icmp", arg |-> s, data |-> d, res |-> WriteIcmp(s, d)]
      PROVE  PacketsTypeOK /\ AnswersAreValid /\ PayloadInside
  <2>1. PacketsTypeOK /\ AnswersAreValid
    BY <1>5, ContentsAre, IcmpCall
  <2>2. PayloadInside
    BY <1>5 DEF PayloadInside
  <2> QED
    BY <2>1, <2>2
<1>6. ASSUME NEW s \in Sessions,
             call = [op |-> "rst", arg |-> s, data |-> <<>>,
                     res |-> WriteTcp([s EXCEPT !.version = 4, !.scale = 0], <<>>, FALSE, FALSE)]
      PROVE  PacketsTypeOK /\ AnswersAreValid /\ PayloadInside
  <2> DEFINE t == [s EXCEPT !.version = 4, !.scale = 0]
  <2>1. t \in Sessions /\ t.saddr = s.saddr /\ t.daddr = s.daddr /\ t.version = 4
        /\ t.source = s.source /\ t.dest = s.dest /\ s.version \in {4, 6}
    BY DEF Sessions
  <2> DEFINE none == <<>>
  <2>2. none \in Seq(Nat)
    OBVIOUS
  <2>3. call = [op |-> "rst", arg |-> s, data |-> none, res |-> WriteTcp(t, none, FALSE, FALSE)]
    BY <1>6
  <2> HIDE DEF t, none
  <2>4. PacketsTypeOK /\ AnswersAreValid
    BY <2>1, <2>2, <2>3, SessionsAre, TcpCall
  <2>5. PayloadInside
    BY <2>3 DEF PayloadInside
  <2> QED
    BY <2>4, <2>5
<1> QED
  BY <1>1, <1>2, <1>3, <1>4, <1>5, <1>6 DEF CallInv

-----------------------------------------------------------------------------
(***************************************************************************)
(* The theorems.                                                           *)
(***************************************************************************)
\* Every call has its arguments and a result of the kind its C function returns, and the
\* byte noff of get_qname stays a position of its buffer (dns.c:21-24), whatever a
\* message says.
THEOREM TypeCorrect == Spec => []TypeOK
<1>1. MessagesInv => TypeOK
  <2>1. CallInv => PacketsTypeOK
    BY CallIsRight
  <2> QED
    BY <2>1 DEF MessagesInv, TypeOK, ParseInv, DnsInv, Reading, NoDns
<1> QED
  BY <1>1, Invariance, PTL

\* handle_ip dispatches only what holds a whole transport header, unless the header of
\* version 4 claims to end behind the packet (ip.c:182, 194, 206): for packets of any
\* length.
THEOREM PayloadInsideHolds == Spec => []PayloadInside
<1>1. MessagesInv => PayloadInside
  BY CallIsRight DEF MessagesInv
<1> QED
  BY <1>1, Invariance, PTL

\* What write_tcp, write_udp and write_icmp hand to the tun device is a packet that the
\* application's stack takes (tcp.c:1186-1189, udp.c:503-506): the checksums verify for
\* data of any length and bytes, odd or even, with bytes of any number of values.
THEOREM AnswersAreValidHolds == Spec => []AnswersAreValid
<1>1. MessagesInv => AnswersAreValid
  BY CallIsRight DEF MessagesInv
<1> QED
  BY <1>1, Invariance, PTL
\* A name that get_sni finds in a part of a hello, or in one with a wrong byte, lies wholly
\* in the segment, whatever lengths it holds (tls.c:41, 72, 124, 148-181): for names of any
\* length and any wrong value.
THEOREM NameIsInsideHolds == Spec => []NameIsInside
<1>1. MessagesInv => NameIsInside
  <2> SUFFICES ASSUME ParseInv, parse.op = "damaged"
               PROVE  \E from \in 0..(Len(parse.data) - Len(parse.res)) :
                          AreaFrom(parse.data, from, Len(parse.res)) = parse.res
    BY DEF MessagesInv, NameIsInside
  <2> DEFINE d == parse.data
             x == parse.res
             n == Len(x)
  <2>1. d \in Seq(Nat) /\ x = parse_tls_header(d)
    BY DEF ParseInv
  <2>2. x \in Pieces(d)
    BY <2>1, HeaderIsPiece
  <2> HIDE DEF d, x
  <2>3. PICK from \in Nat : PieceAt(d, x, from)
    BY <2>2 DEF Pieces
  <2>4. x \in Seq(Nat) /\ n \in Nat /\ Len(d) \in Nat
    BY <2>1, <2>2, LenProperties DEF Pieces
  <2>5. from + n <= Len(d) /\ \A k \in 1..n : x[k] = d[from + k]
    BY <2>3 DEF PieceAt
  <2> DEFINE a == AreaFrom(d, from, n)
  <2>6. a \in Seq(Nat) /\ Len(a) = n /\ \A k \in 1..n : a[k] = d[from + k]
    BY <2>1, <2>4, <2>5, AreaIs
  <2> HIDE DEF a
  <2>7. a = x
    BY <2>4, <2>5, <2>6, SeqEqual
  <2>8. from \in 0..(Len(d) - n)
    BY <2>4, <2>5
  <2> QED
    BY <2>7, <2>8 DEF a, d, x
<1> QED
  BY <1>1, Invariance, PTL

\* get_sni reads the name of a whole hello, whatever its name and wherever the name's entry
\* and extension stand, and of a damaged one only bytes that are in the segment
\* (tls.c:32-183).
THEOREM NameReadHolds == Spec => []NameRead
<1>1. Init => NameFound
  BY DEF Init, RequestsInit, NoParse, NameFound
<1>2. NameFound /\ [Next]_messages => NameFound'
  <2> SUFFICES ASSUME NameFound, [Next]_messages PROVE NameFound'
    OBVIOUS
  <2> DEFINE Found(p) == p.op = "hello" => p.res = NameOf(p.arg)
  <2>1. CASE ParseHello
    <3>1. PICK h \in Hellos : parse' = [op |-> "hello", arg |-> h, data |-> Hello(h),
                                        res |-> parse_tls_header(Hello(h))]
      BY <2>1 DEF ParseHello
    <3>2. parse'.arg = h /\ parse'.res = parse_tls_header(Hello(h))
      BY <3>1
    <3> QED
      BY <3>2, HelloRead DEF NameFound, NameOf
  <2>2. CASE ParsePart
    <3>1. parse'.op = "damaged"
      BY <2>2 DEF ParsePart
    <3> QED
      BY <3>1 DEF NameFound
  <2>3. CASE ParseDamaged
    <3>1. parse'.op = "damaged"
      BY <2>3 DEF ParseDamaged
    <3> QED
      BY <3>1 DEF NameFound
  <2>4. CASE Patch
    <3>1. parse'.op = "patch"
      BY <2>4 DEF Patch
    <3> QED
      BY <3>1 DEF NameFound
  <2>5. CASE RequestsReturn
    BY <2>5 DEF RequestsReturn, NoParse, NameFound
  <2>6. CASE UNCHANGED parse
    <3>1. (NameFound <=> Found(parse)) /\ (NameFound' <=> Found(parse'))
      BY DEF NameFound, Found, NameOf
    <3> HIDE DEF Found
    <3> QED
      BY <2>6, <3>1
  <2>7. \/ ParseHello \/ ParsePart \/ ParseDamaged \/ Patch \/ RequestsReturn \/ UNCHANGED parse
    BY DEF Next, messages, RequestsNext
  <2> QED
    BY <2>1, <2>2, <2>3, <2>4, <2>5, <2>6, <2>7
<1> QED
  BY <1>1, <1>2, NameIsInsideHolds, PTL DEF Spec, NameRead

-----------------------------------------------------------------------------
(***************************************************************************)
(* Where get_qname goes on.  What follows is about a message m and the     *)
(* byte x behind it, for neither changes while a name is read.             *)
(***************************************************************************)
Octets == 0..(ByteValues - 1)
ByteIn(m, x, pos) == IF pos < Len(m) THEN m[pos + 1] ELSE x

EndIs(g, m, x) ==
    g = [pos \in Nat |-> IF ByteIn(m, x, pos) = 0 THEN pos + 1
                         ELSE IF ByteIn(m, x, pos) >= Flag THEN pos + 2
                         ELSE g[pos + ByteIn(m, x, pos) + 1]]
Ends(m, x) == CHOOSE g : EndIs(g, m, x)

LEMMA OctetNat ==
    ASSUME NEW m \in Seq(Octets), NEW x \in Octets, NEW pos \in Nat
    PROVE  ByteIn(m, x, pos) \in Nat
<1>1. Len(m) \in Nat
  BY LenProperties
<1>2. pos < Len(m) => pos + 1 \in 1..Len(m)
  BY <1>1
<1>3. pos < Len(m) => m[pos + 1] \in Octets
  BY <1>2, ElementOfSeq
<1>4. Octets \subseteq Nat
  BY DEF Octets
<1> QED
  BY <1>3, <1>4 DEF ByteIn

\* The position behind a name is that behind the rest of it.  Behind the message all bytes
\* are the same, so that a name may go on for ever there: its end is then any number.
LEMMA EndsAre ==
    ASSUME NEW m \in Seq(Octets), NEW x \in Octets
    PROVE  \A pos \in Nat :
              Ends(m, x)[pos] = IF ByteIn(m, x, pos) = 0 THEN pos + 1
                                ELSE IF ByteIn(m, x, pos) >= Flag THEN pos + 2
                                ELSE Ends(m, x)[pos + ByteIn(m, x, pos) + 1]
<1> DEFINE n == Len(m)
           b(p) == ByteIn(m, x, p)
           last == {p \in Nat : b(p) = 0 \/ b(p) >= Flag}
           stop == {p \in Nat : p \in last \/ p > n}
           val  == [p \in Nat |-> IF p \in last THEN IF b(p) = 0 THEN p + 1 ELSE p + 2 ELSE 0]
           next == [p \in Nat |-> p + b(p) + 1]
<1>1. n \in Nat
  BY LenProperties
<1>2. \A p \in Nat : b(p) \in Nat
  BY OctetNat
<1> HIDE DEF b, n
<1>3. ASSUME NEW p \in Nat PROVE next[p] \in Nat /\ next[p] > p
  <2>1. b(p) \in Nat /\ next[p] = p + b(p) + 1
    BY <1>2
  <2> HIDE DEF next
  <2> QED
    BY <2>1
<1>4. next \in [Nat -> Nat] /\ val \in [Nat -> Nat] /\ stop \subseteq Nat
  <2>1. \A p \in Nat : next[p] \in Nat
    BY <1>3
  <2>2. next \in [Nat -> Nat]
    BY <2>1
  <2> HIDE DEF last
  <2>3. val \in [Nat -> Nat]
    OBVIOUS
  <2> QED
    BY <2>2, <2>3
<1>5. Upward(stop, next, n)
  BY <1>1, <1>3, <1>4 DEF Upward
<1>6. PICK g : Recurs(g, stop, val, next)
  <2> HIDE DEF stop, val, next
  <2> QED
    BY <1>1, <1>4, <1>5, RecursionExists
<1>7. \A p \in Nat : g[p] = IF p \in stop THEN val[p] ELSE g[next[p]]
  <2> HIDE DEF stop, val, next
  <2> QED
    BY <1>6 DEF Recurs
<1>8. ASSUME NEW p \in Nat
      PROVE  g[p] = IF p \in last THEN IF b(p) = 0 THEN p + 1 ELSE p + 2 ELSE g[next[p]]
  <2>1. CASE p \in last
    BY <1>7, <2>1
  <2>2. CASE p \notin last /\ p > n
    <3>1. g[p] = 0
      BY <1>7, <2>2
    <3>2. next[p] \in Nat /\ next[p] > n
      BY <1>1, <1>3, <2>2
    <3>3. next[p] \notin last
      <4>1. b(next[p]) = x /\ b(p) = x
        BY <1>1, <2>2, <3>2 DEF b, n, ByteIn
      <4> HIDE DEF next
      <4> QED
        BY <2>2, <3>2, <4>1
    <3> HIDE DEF next
    <3>4. g[next[p]] = 0
      BY <1>7, <3>2, <3>3
    <3> QED
      BY <2>2, <3>1, <3>4
  <2>3. CASE p \notin last /\ p <= n
    <3>1. p \notin stop
      BY <1>1, <2>3
    <3> HIDE DEF stop, val, next
    <3> QED
      BY <1>7, <2>3, <3>1
  <2> QED
    BY <1>1, <2>1, <2>2, <2>3
<1>9. \A p \in Nat : g[p] = IF b(p) = 0 THEN p + 1 ELSE IF b(p) >= Flag THEN p + 2 ELSE g[p + b(p) + 1]
  BY <1>8
<1>10. g = [p \in Nat |-> g[p]]
  <2> HIDE DEF stop, val, next
  <2> QED
    BY <1>6 DEF Recurs
<1>11. EndIs(g, m, x)
  <2> HIDE DEF stop, val, next, last
  <2> QED
    BY <1>9, <1>10 DEF EndIs, b
<1>12. EndIs(Ends(m, x), m, x)
  BY <1>11 DEF Ends
<1> DEFINE e == Ends(m, x)
<1>13. EndIs(e, m, x)
  BY <1>12
<1> HIDE DEF e, stop, val, next, last
<1>14. \A pos \in Nat : e[pos] = IF ByteIn(m, x, pos) = 0 THEN pos + 1
                                 ELSE IF ByteIn(m, x, pos) >= Flag THEN pos + 2
                                 ELSE e[pos + ByteIn(m, x, pos) + 1]
  BY <1>13 DEF EndIs
<1> QED
  BY <1>14 DEF e

\* What get_qname knows of the position behind the name
Message(d) ==
    /\ {"at", "kind", "data", "stray", "left", "question", "off", "start", "ptr", "noff", "c",
        "name", "run", "back", "ret"} \subseteq DOMAIN d
    /\ d.data \in Seq(Octets) /\ d.stray \in Octets

ByteOf(d, pos) == ByteIn(d.data, d.stray, pos)
EndAt(d, pos) == Ends(d.data, d.stray)[pos]

Jumped(d) == d.off = d.start + 2 /\ (ByteOf(d, d.start) < Flag \/ EndAt(d, d.start) = d.start + 2)
NotJumped(d) ==
    /\ d.off = d.start /\ EndAt(d, d.ptr) = EndAt(d, d.start)
    /\ d.ptr # d.start => ByteOf(d, d.start) < Flag
Read(d) ==
    /\ d.ret \in Nat
    /\ \/ d.ret = EndAt(d, d.start)
       \/ d.c /\ ByteOf(d, d.start) < Flag /\ d.ret = d.start + 2

Placed(d) ==
    /\ d.start \in Nat /\ d.ptr \in Nat /\ d.c \in BOOLEAN
    /\ d.at = "name" => IF d.c THEN Jumped(d) ELSE NotJumped(d)
    /\ d.at = "record" => Read(d)

PlaceInv == dns.at \in {"name", "record"} => Message(dns) /\ Placed(dns)

LEMMA EnteredIsPlaced ==
    ASSUME NEW d, Message(d), NEW off \in Nat
    PROVE  Message(Entered(d, off)) /\ Placed(Entered(d, off))
<1> DEFINE f == Entered(d, off)
<1>1. /\ DOMAIN f = DOMAIN d /\ f.data = d.data /\ f.stray = d.stray /\ f.at = "name"
      /\ f.off = off /\ f.start = off /\ f.ptr = off /\ f.c = FALSE
  BY DEF Entered, Message
<1> HIDE DEF f
<1>2. Message(f)
  BY <1>1 DEF Message
<1>3. NotJumped(f)
  BY <1>1 DEF NotJumped
<1>4. Placed(f)
  BY <1>1, <1>3 DEF Placed
<1> QED
  BY <1>2, <1>4 DEF f

LEMMA JumpIsPlaced ==
    ASSUME Message(dns), Placed(dns), dns.at = "name", Length >= Flag
    PROVE  Message(JumpTo) /\ Placed(JumpTo)
<1> DEFINE f == JumpTo
           target == (Length % Flag) * ByteValues + ByteAt(dns.ptr + 1)
<1>1. \A pos : ByteAt(pos) = ByteOf(dns, pos)
  BY DEF ByteAt, ByteOf, ByteIn
<1>2. target \in Nat
  <2>1. dns.ptr \in Nat /\ dns.ptr + 1 \in Nat
    BY DEF Placed
  <2>2. Length \in Nat /\ ByteAt(dns.ptr + 1) \in Nat
    BY <1>1, <2>1, OctetNat DEF Length, ByteOf, Message
  <2>3. Length % Flag \in Nat /\ ByteValues \in Nat
    BY <2>2, ByteValuesAssumption
  <2>4. \A a, b, c \in Nat : a * b + c \in Nat
    OBVIOUS
  <2> QED
    BY <2>2, <2>3, <2>4
<1>3. /\ DOMAIN f = DOMAIN dns /\ f.data = dns.data /\ f.stray = dns.stray /\ f.at = "name"
      /\ f.off = (IF dns.c THEN dns.off ELSE dns.off + 2)
      /\ f.start = dns.start /\ f.ptr = target /\ f.c = TRUE
  BY DEF JumpTo, Message
<1> HIDE DEF f, target
<1>4. Message(f)
  BY <1>3 DEF Message
<1>5. Jumped(f)
  <2>1. Jumped(f) <=> /\ f.off = dns.start + 2
                      /\ ByteOf(dns, dns.start) < Flag \/ EndAt(dns, dns.start) = dns.start + 2
    BY <1>3 DEF Jumped, ByteOf, EndAt
  <2>2. CASE dns.c
    BY <1>3, <2>1, <2>2 DEF Placed, Jumped
  <2>3. CASE ~dns.c
    <3>1. NotJumped(dns) /\ dns.start \in Nat
      BY <2>3 DEF Placed
    <3>2. f.off = dns.start + 2
      BY <1>3, <2>3, <3>1 DEF NotJumped
    <3>3. CASE dns.ptr # dns.start
      BY <2>1, <3>1, <3>2, <3>3 DEF NotJumped
    <3>4. CASE dns.ptr = dns.start
      <4>1. ByteOf(dns, dns.start) >= Flag
        BY <1>1, <3>4 DEF Length
      <4>2. EndAt(dns, dns.start) = dns.start + 2
        <5>1. ByteIn(dns.data, dns.stray, dns.start) >= Flag
          BY <4>1 DEF ByteOf
        <5>2. ByteIn(dns.data, dns.stray, dns.start) # 0
          BY <5>1, ByteValuesAssumption
        <5> QED
          BY <3>1, <5>1, <5>2, EndsAre DEF EndAt, Message
      <4> QED
        BY <2>1, <3>2, <4>2
    <3> QED
      BY <3>3, <3>4
  <2> QED
    BY <2>2, <2>3 DEF Placed
<1>6. Placed(f)
  BY <1>2, <1>3, <1>5 DEF Placed
<1> QED
  BY <1>4, <1>6 DEF f

LEMMA LabelIsPlaced ==
    ASSUME Message(dns), Placed(dns), dns.at = "name", Length \in 1..(Flag - 1)
    PROVE  Message(WithLabel) /\ Placed(WithLabel)
<1> DEFINE f == WithLabel
           next == dns.ptr + Length + 1
<1>1. \A pos : ByteAt(pos) = ByteOf(dns, pos)
  BY DEF ByteAt, ByteOf, ByteIn
<1>2. dns.ptr \in Nat /\ Length \in Nat /\ Length # 0 /\ ~(Length >= Flag)
  BY ByteValuesAssumption DEF Placed
<1>3. next \in Nat
  BY <1>2
<1>4. /\ DOMAIN f = DOMAIN dns /\ f.data = dns.data /\ f.stray = dns.stray /\ f.at = "name"
      /\ f.off = dns.off /\ f.start = dns.start /\ f.ptr = next /\ f.c = dns.c
  BY DEF WithLabel, Message
<1>5. EndAt(dns, dns.ptr) = EndAt(dns, next)
  <2>1. ByteIn(dns.data, dns.stray, dns.ptr) = Length
    BY <1>1 DEF Length, ByteOf
  <2> HIDE DEF Length
  <2>2. Ends(dns.data, dns.stray)[dns.ptr] = Ends(dns.data, dns.stray)[dns.ptr + Length + 1]
    BY <1>2, <2>1, EndsAre DEF Message
  <2> QED
    BY <2>2 DEF EndAt
<1>6. ByteOf(dns, dns.ptr) < Flag
  BY <1>1, <1>2, ByteValuesAssumption DEF Length
<1> HIDE DEF f, next
<1>7. Message(f)
  BY <1>4 DEF Message
<1>8. CASE dns.c
  <2>1. Jumped(dns)
    BY <1>8 DEF Placed
  <2>2. Jumped(f)
    BY <1>4, <2>1 DEF Jumped, ByteOf, EndAt
  <2> QED
    BY <1>3, <1>4, <1>7, <1>8, <2>2 DEF Placed, f
<1>9. CASE ~dns.c
  <2>1. NotJumped(dns)
    BY <1>9 DEF Placed
  <2>2. ByteOf(dns, dns.start) < Flag
    BY <1>6, <2>1 DEF NotJumped
  <2>3. EndAt(dns, next) = EndAt(dns, dns.start)
    BY <1>5, <2>1 DEF NotJumped
  <2>4. NotJumped(f)
    BY <1>4, <2>1, <2>2, <2>3 DEF NotJumped, ByteOf, EndAt
  <2> QED
    BY <1>3, <1>4, <1>7, <1>9, <2>4 DEF Placed, f
<1> QED
  BY <1>8, <1>9 DEF Placed

LEMMA EndIsPlaced ==
    ASSUME Message(dns), Placed(dns), EndName
    PROVE  (Message(dns) /\ Placed(dns))'
<1> DEFINE f == [dns EXCEPT !.at = "record", !.name = [@ EXCEPT ![dns.noff - 1] = 0], !.ret = Returned]
<1>1. dns' = f /\ dns.at = "name" /\ Length = 0
  BY DEF EndName
<1>2. /\ DOMAIN f = DOMAIN dns /\ f.data = dns.data /\ f.stray = dns.stray /\ f.at = "record"
      /\ f.off = dns.off /\ f.start = dns.start /\ f.ptr = dns.ptr /\ f.c = dns.c
      /\ f.ret = Returned
  BY DEF Message
<1> HIDE DEF f
<1>3. Message(f)
  BY <1>2 DEF Message
<1>4. dns.start \in Nat /\ dns.ptr \in Nat /\ dns.c \in BOOLEAN
  BY DEF Placed
<1>5. ByteIn(dns.data, dns.stray, dns.ptr) = 0
  BY <1>1 DEF Length, ByteAt, ByteIn
<1>6. EndAt(dns, dns.ptr) = dns.ptr + 1
  BY <1>4, <1>5, EndsAre DEF EndAt, Message
<1>7. Read(f)
  <2>1. Read(f) <=> /\ Returned \in Nat
                    /\ \/ Returned = EndAt(dns, dns.start)
                       \/ dns.c /\ ByteOf(dns, dns.start) < Flag /\ Returned = dns.start + 2
    BY <1>2 DEF Read, ByteOf, EndAt
  <2>2. CASE dns.c
    <3>1. Jumped(dns) /\ Returned = dns.off
      BY <1>1, <2>2 DEF Placed, Returned
    <3> QED
      BY <1>4, <2>1, <2>2, <3>1 DEF Jumped
  <2>3. CASE ~dns.c
    <3>1. NotJumped(dns) /\ Returned = dns.ptr + 1
      BY <1>1, <2>3 DEF Placed, Returned
    <3> QED
      BY <1>4, <1>6, <2>1, <3>1 DEF NotJumped
  <2> QED
    BY <1>4, <2>2, <2>3
<1>8. Placed(f)
  BY <1>2, <1>4, <1>7 DEF Placed
<1>9. Message(dns)' <=> Message(f)
  BY <1>1 DEF Message
<1>10. Placed(dns)' <=> Placed(f)
  BY <1>1 DEF Placed, Read, Jumped, NotJumped, ByteOf, EndAt
<1> QED
  BY <1>3, <1>8, <1>9, <1>10

LEMMA NextRecordIsPlaced ==
    ASSUME Message(dns), NEW next \in Nat
    PROVE  \/ NextRecord(next) = NoDns
           \/ Message(NextRecord(next)) /\ Placed(NextRecord(next))
<1> DEFINE d == [dns EXCEPT !.left = @ - 1, !.question = FALSE]
<1>1. Message(d)
  BY DEF Message
<1>2. NextRecord(next) = IF dns.left = 1 THEN NoDns ELSE Entered(d, next)
  BY DEF NextRecord
<1> HIDE DEF d
<1> QED
  BY <1>1, <1>2, EnteredIsPlaced

\* A message that arrives, and the position behind an answer.
LEMMA ArrivedIs ==
    ASSUME NEW body \in MessageBodies
    PROVE  [i \in 1..Header |-> 0] \o body \in Seq(Octets)
<1> DEFINE header == [i \in 1..Header |-> 0]
<1>1. 0 \in Octets /\ Header \in Nat
  BY ByteValuesAssumption, SizesAssumption DEF Octets
<1>2. header \in Seq(Octets)
  BY <1>1
<1>3. body \in Seq(Octets)
  BY BodiesAssumption DEF Octets
<1> HIDE DEF header
<1>4. header \o body \in Seq(Octets)
  BY <1>2, <1>3, ConcatProperties
<1> QED
  BY <1>4 DEF header

LEMMA AnswerEnds ==
    ASSUME Message(dns), Placed(dns), dns.at = "record"
    PROVE  dns.ret + AnswerSize + ByteAt((dns.ret + AnswerSize) - 1) \in Nat
<1> DEFINE data == dns.ret + AnswerSize
<1>1. data \in Nat /\ data - 1 \in Nat
  BY SizesAssumption DEF Placed, Read
<1> HIDE DEF data
<1>2. ByteAt(data - 1) \in Nat
  <2>1. ByteAt(data - 1) = ByteIn(dns.data, dns.stray, data - 1)
    BY DEF ByteAt, ByteIn
  <2> QED
    BY <1>1, <2>1, OctetNat DEF Message
<1>3. data + ByteAt(data - 1) \in Nat
  BY <1>1, <1>2
<1> QED
  BY <1>1, <1>3 DEF data

LEMMA PlaceKept ==
    ASSUME PlaceInv, DnsNext
    PROVE  PlaceInv'
<1> DEFINE Right(d) == Message(d) /\ Placed(d)
<1>0. \A d : dns' = d /\ (d = NoDns \/ d.at = "dhcp" \/ Right(d)) => PlaceInv'
  BY DEF PlaceInv, NoDns, Message, Placed, Read, Jumped, NotJumped, ByteOf, EndAt
<1>1. CASE Arrive
  <2>1. PICK body \in MessageBodies, stray \in Strays, kind \in {"query", "response"},
             acount \in 1..MaxAnswers :
          dns' = Entered([at |-> "name", kind |-> kind,
                          data |-> [i \in 1..Header |-> 0] \o body, stray |-> stray,
                          left |-> IF kind = "query" THEN 1 ELSE 1 + acount,
                          question |-> TRUE, off |-> 0, start |-> 0, ptr |-> 0,
                          noff |-> 0, c |-> FALSE, name |-> Blank, run |-> 0,
                          back |-> TRUE, ret |-> 0], Header)
    BY <1>1 DEF Arrive
  <2> DEFINE data == [i \in 1..Header |-> 0] \o body
             d == [at |-> "name", kind |-> kind,
                   data |-> data, stray |-> stray,
                   left |-> IF kind = "query" THEN 1 ELSE 1 + acount,
                   question |-> TRUE, off |-> 0, start |-> 0, ptr |-> 0,
                   noff |-> 0, c |-> FALSE, name |-> Blank, run |-> 0,
                   back |-> TRUE, ret |-> 0]
  <2>2. dns' = Entered(d, Header)
    BY <2>1
  <2>3. data \in Seq(Octets)
    BY ArrivedIs
  <2>4. stray \in Octets /\ Header \in Nat
    BY StraysAssumption, SizesAssumption DEF Octets
  <2> HIDE DEF data
  <2>5. Message(d)
    BY <2>3, <2>4 DEF Message
  <2> HIDE DEF d
  <2>6. Right(Entered(d, Header))
    BY <2>4, <2>5, EnteredIsPlaced
  <2> HIDE DEF Right
  <2> QED
    BY <1>0, <2>2, <2>6
<1>2. CASE FollowPointer
  <2>1. Right(dns) /\ dns' = JumpTo /\ dns.at = "name" /\ Length >= Flag
    BY <1>2 DEF FollowPointer, PlaceInv
  <2>2. Right(JumpTo)
    BY <2>1, JumpIsPlaced
  <2> HIDE DEF Right
  <2> QED
    BY <1>0, <2>1, <2>2
<1>3. CASE CopyLabel
  <2>1. Right(dns) /\ dns' = WithLabel /\ dns.at = "name" /\ Length \in 1..(Flag - 1)
    BY <1>3 DEF CopyLabel, PlaceInv
  <2>2. Right(WithLabel)
    BY <2>1, LabelIsPlaced
  <2> HIDE DEF Right
  <2> QED
    BY <1>0, <2>1, <2>2
<1>4. CASE BadName
  BY <1>0, <1>4 DEF BadName
<1>5. CASE EndName
  <2>1. Right(dns)
    BY <1>5 DEF EndName, PlaceInv
  <2> QED
    BY <1>5, <2>1, EndIsPlaced DEF PlaceInv
<1>6. CASE QueryDone
  BY <1>0, <1>6 DEF QueryDone
<1>7. CASE Question
  <2>1. Right(dns) /\ dns.at = "record"
    BY <1>7 DEF Question, PlaceInv
  <2>2. dns.ret + QuestionSize \in Nat
    BY <2>1, SizesAssumption DEF Placed, Read
  <2>3. dns' = NoDns \/ dns' = NextRecord(dns.ret + QuestionSize)
    BY <1>7 DEF Question
  <2>4. \/ NextRecord(dns.ret + QuestionSize) = NoDns
        \/ Right(NextRecord(dns.ret + QuestionSize))
    BY <2>1, <2>2, NextRecordIsPlaced
  <2> HIDE DEF Right
  <2> QED
    BY <1>0, <2>3, <2>4
<1>8. CASE Answer
  <2> DEFINE next == dns.ret + AnswerSize + ByteAt((dns.ret + AnswerSize) - 1)
  <2>1. Right(dns) /\ dns.at = "record"
    BY <1>8 DEF Answer, PlaceInv
  <2>2. dns' = NoDns \/ dns' = NextRecord(next)
    BY <1>8 DEF Answer
  <2>3. next \in Nat
    BY <2>1, AnswerEnds
  <2> HIDE DEF next
  <2>4. NextRecord(next) = NoDns \/ Right(NextRecord(next))
    BY <2>1, <2>3, NextRecordIsPlaced
  <2> HIDE DEF Right
  <2> QED
    BY <1>0, <2>2, <2>4
<1>9. CASE CheckDhcp
  <2>1. \E r \in DhcpRequests, u \in DhcpSessions :
            dns' = [at |-> "dhcp", arg |-> r, session |-> u, res |-> check_dhcp(r, u)]
    BY <1>9 DEF CheckDhcp
  <2> QED
    BY <2>1 DEF PlaceInv
<1>10. CASE DhcpDone
  BY <1>0, <1>10 DEF DhcpDone
<1> QED
  BY <1>1, <1>2, <1>3, <1>4, <1>5, <1>6, <1>7, <1>8, <1>9, <1>10 DEF DnsNext, DnsStep

\* The callers of get_qname go on right behind the name, unless it has labels in front of a
\* pointer (dns.c:17, 40): for messages of any length and contents, and whatever memory
\* holds behind them.
THEOREM ResumesBehindNameHolds == Spec => []ResumesBehindName
<1>1. Init => PlaceInv
  BY DEF Init, DnsInit, NoDns, PlaceInv
<1>2. PlaceInv /\ [Next]_messages => PlaceInv'
  <2>1. PlaceInv /\ DnsNext => PlaceInv'
    BY PlaceKept
  <2>2. PlaceInv /\ UNCHANGED dns => PlaceInv'
    BY DEF PlaceInv, Message, Placed, Read, Jumped, NotJumped, ByteOf, EndAt
  <2> QED
    BY <2>1, <2>2 DEF Next, messages
<1>3. PlaceInv => ResumesBehindName
  <2> SUFFICES ASSUME PlaceInv, dns.at = "record"
               PROVE  \/ dns.ret = EndOf(dns.start)
                      \/ dns.c /\ ByteAt(dns.start) < Flag /\ dns.ret = dns.start + 2
    BY DEF ResumesBehindName
  <2>1. Read(dns)
    BY DEF PlaceInv, Placed
  <2>2. EndOf(dns.start) = EndAt(dns, dns.start)
    BY DEF EndOf, ByteAt, EndAt, Ends, EndIs, ByteIn
  <2>3. ByteAt(dns.start) = ByteOf(dns, dns.start)
    BY DEF ByteAt, ByteOf, ByteIn
  <2> QED
    BY <2>1, <2>2, <2>3 DEF Read
<1> QED
  BY <1>1, <1>2, <1>3, PTL DEF Spec

-----------------------------------------------------------------------------
(***************************************************************************)
(* What get_qname reads.                                                   *)
(***************************************************************************)
\* What is iterated n times exists.
LEMMA IterateExists ==
    ASSUME NEW n \in Nat, NEW S, NEW first \in S, NEW step \in [S -> S]
    PROVE  \E g \in [0..n -> S] : g[0] = first /\ \A k \in 1..n : g[k] = step[g[k - 1]]
<1> DEFINE Iterates(g, k) == /\ g \in [0..k -> S] /\ g[0] = first
                             /\ \A i \in 1..k : g[i] = step[g[i - 1]]
           Has(k) == \E g : Iterates(g, k)
           Done == {k \in 0..n : Has(k)}
<1>1. Has(0)
  <2>1. Iterates([i \in 0..0 |-> first], 0)
    OBVIOUS
  <2> QED
    BY <2>1
<1>2. ASSUME NEW k \in 1..n, Has(k - 1) PROVE Has(k)
  <2>1. PICK g : Iterates(g, k - 1)
    BY <1>2
  <2> DEFINE next == step[g[k - 1]]
             h == [i \in 0..k |-> IF i = k THEN next ELSE g[i]]
  <2>2. k \in Nat /\ k - 1 \in 0..(k - 1) /\ k \in 0..k
    OBVIOUS
  <2>3. g \in [0..(k - 1) -> S] /\ next \in S
    BY <2>1, <2>2
  <2> HIDE DEF next
  <2>4. ASSUME NEW i \in 0..k, i # k PROVE h[i] = g[i] /\ i \in 0..(k - 1) /\ h[i] \in S
    BY <2>2, <2>3, <2>4
  <2>5. h[k] = next
    BY <2>2
  <2>6. h = [i \in 0..k |-> h[i]]
    OBVIOUS
  <2> HIDE DEF h
  <2>7. h \in [0..k -> S]
    <3>1. \A i \in 0..k : h[i] \in S
      BY <2>3, <2>4, <2>5
    <3> QED
      BY <2>6, <3>1
  <2>8. h[0] = first
    BY <2>1, <2>2, <2>4
  <2>9. ASSUME NEW i \in 1..k PROVE h[i] = step[h[i - 1]]
    <3>1. i \in 0..k /\ i - 1 \in 0..k /\ i - 1 # k
      BY <2>2
    <3>2. h[i - 1] = g[i - 1]
      BY <2>4, <3>1
    <3>3. CASE i = k
      BY <2>5, <3>2, <3>3 DEF next
    <3>4. CASE i # k
      <4>1. h[i] = g[i] /\ i \in 1..(k - 1)
        BY <2>4, <3>1, <3>4
      <4> QED
        BY <2>1, <3>2, <4>1
    <3> QED
      BY <3>3, <3>4
  <2> QED
    BY <2>7, <2>8, <2>9
<1>3. Has(n) <=> \E g \in [0..n -> S] : g[0] = first /\ \A k \in 1..n : g[k] = step[g[k - 1]]
  OBVIOUS
<1> HIDE DEF Has
<1>4. Done \in SUBSET (0..n) /\ 0 \in Done /\ \A i \in 1..n : i - 1 \in Done => i \in Done
  BY <1>1, <1>2
<1>5. Done = 0..n
  <2> HIDE DEF Done
  <2> QED
    BY <1>4, UpTo
<1>6. n \in 0..n
  OBVIOUS
<1> QED
  BY <1>3, <1>5, <1>6

\* The text of a name, by the labels and pointers it may still have: TextOfName without the
\* variable.  Chars are the bytes of labels and the dot.
Chars == 0..ByteValues
Fuel  == 3 * NameMax
LabelIn(m, x, pos) ==
    [i \in 1..(ByteIn(m, x, pos) + 1) |->
        IF i > ByteIn(m, x, pos) THEN Dot ELSE ByteIn(m, x, pos + i)]
Target(m, x, pos) == (ByteIn(m, x, pos) % Flag) * ByteValues + ByteIn(m, x, pos + 1)

TextIs(g, m, x) ==
    g = [fuel \in 0..Fuel |->
           [pos \in Nat |->
              IF fuel = 0 THEN TooLong
              ELSE IF ByteIn(m, x, pos) = 0 THEN <<>>
              ELSE IF ByteIn(m, x, pos) >= Flag THEN g[fuel - 1][Target(m, x, pos)]
              ELSE LabelIn(m, x, pos) \o g[fuel - 1][pos + ByteIn(m, x, pos) + 1]]]
Texts(m, x) == CHOOSE g : TextIs(g, m, x)

LEMMA FuelNat == Fuel \in Nat /\ NameMax \in Nat
BY NameMaxAssumption DEF Fuel

LEMMA TooLongIs == TooLong \in Seq(Chars) /\ Len(TooLong) = NameMax + 1
BY NameMaxAssumption, ByteValuesAssumption DEF TooLong, Chars, Dot

LEMMA OctetIn ==
    ASSUME NEW m \in Seq(Octets), NEW x \in Octets, NEW pos \in Nat
    PROVE  ByteIn(m, x, pos) \in Octets
<1>1. Len(m) \in Nat
  BY LenProperties
<1>2. pos < Len(m) => pos + 1 \in 1..Len(m)
  BY <1>1
<1>3. pos < Len(m) => m[pos + 1] \in Octets
  BY <1>2, ElementOfSeq
<1> QED
  BY <1>3 DEF ByteIn

LEMMA LabelIs ==
    ASSUME NEW m \in Seq(Octets), NEW x \in Octets, NEW pos \in Nat
    PROVE  /\ LabelIn(m, x, pos) \in Seq(Chars)
           /\ Len(LabelIn(m, x, pos)) = ByteIn(m, x, pos) + 1
<1> DEFINE b == ByteIn(m, x, pos)
<1>1. b \in Nat
  BY OctetNat
<1>2. \A i \in 1..b : ByteIn(m, x, pos + i) \in Octets
  <2> HIDE DEF b
  <2>1. \A i \in 1..b : pos + i \in Nat
    BY <1>1
  <2> QED
    BY <2>1, OctetIn
<1>3. Octets \subseteq Chars /\ Dot \in Chars
  BY ByteValuesAssumption DEF Octets, Chars, Dot
<1> DEFINE c(i) == IF i > b THEN Dot ELSE ByteIn(m, x, pos + i)
<1>4. LabelIn(m, x, pos) = [i \in 1..(b + 1) |-> c(i)]
  BY DEF LabelIn
<1> HIDE DEF b
<1>5. \A i \in 1..(b + 1) : c(i) \in Chars
  BY <1>1, <1>2, <1>3
<1> HIDE DEF c
<1>6. b + 1 \in Nat
  BY <1>1
<1> QED
  BY <1>4, <1>5, <1>6 DEF b

LEMMA TargetNat ==
    ASSUME NEW m \in Seq(Octets), NEW x \in Octets, NEW pos \in Nat
    PROVE  Target(m, x, pos) \in Nat
<1>1. ByteIn(m, x, pos) \in Nat /\ ByteIn(m, x, pos + 1) \in Nat
  <2>1. pos + 1 \in Nat
    OBVIOUS
  <2> QED
    BY <2>1, OctetNat
<1>2. (ByteIn(m, x, pos) % Flag) \in Nat /\ ByteValues \in Nat
  BY <1>1, ByteValuesAssumption
<1>3. \A a, b, c \in Nat : a * b + c \in Nat
  OBVIOUS
<1> QED
  BY <1>1, <1>2, <1>3 DEF Target

\* One more label or pointer in front of the texts h
Longer(h, m, x) ==
    [pos \in Nat |->
        IF ByteIn(m, x, pos) = 0 THEN <<>>
        ELSE IF ByteIn(m, x, pos) >= Flag THEN h[Target(m, x, pos)]
        ELSE LabelIn(m, x, pos) \o h[pos + ByteIn(m, x, pos) + 1]]

LEMMA LongerIs ==
    ASSUME NEW m \in Seq(Octets), NEW x \in Octets, NEW h \in [Nat -> Seq(Chars)]
    PROVE  Longer(h, m, x) \in [Nat -> Seq(Chars)]
<1> DEFINE t(pos) == IF ByteIn(m, x, pos) = 0 THEN <<>>
                     ELSE IF ByteIn(m, x, pos) >= Flag THEN h[Target(m, x, pos)]
                     ELSE LabelIn(m, x, pos) \o h[pos + ByteIn(m, x, pos) + 1]
<1>1. ASSUME NEW pos \in Nat PROVE t(pos) \in Seq(Chars)
  <2>1. <<>> \in Seq(Chars)
    OBVIOUS
  <2>2. h[Target(m, x, pos)] \in Seq(Chars)
    BY TargetNat
  <2>3. LabelIn(m, x, pos) \o h[pos + ByteIn(m, x, pos) + 1] \in Seq(Chars)
    <3>1. pos + ByteIn(m, x, pos) + 1 \in Nat
      <4>1. \A b \in Nat : pos + b + 1 \in Nat
        OBVIOUS
      <4> QED
        BY <4>1, OctetNat
    <3>2. h[pos + ByteIn(m, x, pos) + 1] \in Seq(Chars)
      BY <3>1
    <3> QED
      BY <3>2, LabelIs, ConcatProperties
  <2> QED
    BY <2>1, <2>2, <2>3
<1>2. Longer(h, m, x) = [pos \in Nat |-> t(pos)]
  BY DEF Longer
<1> HIDE DEF t
<1> QED
  BY <1>1, <1>2

\* The text of a name is its first label and the text of the rest.
LEMMA TextsAre ==
    ASSUME NEW m \in Seq(Octets), NEW x \in Octets
    PROVE  /\ \A fuel \in 0..Fuel : Texts(m, x)[fuel] \in [Nat -> Seq(Chars)]
           /\ \A pos \in Nat : Texts(m, x)[0][pos] = TooLong
           /\ \A fuel \in 1..Fuel : Texts(m, x)[fuel] = Longer(Texts(m, x)[fuel - 1], m, x)
<1> DEFINE S == [Nat -> Seq(Chars)]
           first == [pos \in Nat |-> TooLong]
           step == [h \in S |-> Longer(h, m, x)]
           Is(g) == g = [fuel \in 0..Fuel |-> IF fuel = 0 THEN first ELSE Longer(g[fuel - 1], m, x)]
           G == Texts(m, x)
<1>1. \A g : TextIs(g, m, x) <=> Is(g)
  <2> SUFFICES ASSUME NEW g PROVE TextIs(g, m, x) <=> Is(g)
    OBVIOUS
  <2> DEFINE a(fuel) == [pos \in Nat |->
                IF fuel = 0 THEN TooLong
                ELSE IF ByteIn(m, x, pos) = 0 THEN <<>>
                ELSE IF ByteIn(m, x, pos) >= Flag THEN g[fuel - 1][Target(m, x, pos)]
                ELSE LabelIn(m, x, pos) \o g[fuel - 1][pos + ByteIn(m, x, pos) + 1]]
             b(fuel) == IF fuel = 0 THEN first ELSE Longer(g[fuel - 1], m, x)
  <2>1. TextIs(g, m, x) <=> g = [fuel \in 0..Fuel |-> a(fuel)]
    BY DEF TextIs
  <2>2. ASSUME NEW fuel \in 0..Fuel PROVE a(fuel) = b(fuel)
    BY DEF Longer
  <2>3. Is(g) <=> g = [fuel \in 0..Fuel |-> b(fuel)]
    OBVIOUS
  <2> HIDE DEF a, b, Is
  <2> QED
    BY <2>1, <2>2, <2>3
<1>2. first \in S
  BY TooLongIs
<1>3. step \in [S -> S]
  BY LongerIs
<1> HIDE DEF first, step
<1>4. PICK g \in [0..Fuel -> S] : g[0] = first /\ \A k \in 1..Fuel : g[k] = step[g[k - 1]]
  <2>1. Fuel \in Nat
    BY FuelNat
  <2> HIDE DEF S
  <2>2. \E g \in [0..Fuel -> S] : g[0] = first /\ \A k \in 1..Fuel : g[k] = step[g[k - 1]]
    <3>0. \A T : \A a \in T, b \in [T -> T] :
             \E g \in [0..Fuel -> T] : g[0] = a /\ \A k \in 1..Fuel : g[k] = b[g[k - 1]]
      BY <2>1, IterateExists
    <3>1. \A a \in S, b \in [S -> S] :
             \E g \in [0..Fuel -> S] : g[0] = a /\ \A k \in 1..Fuel : g[k] = b[g[k - 1]]
      BY <3>0
    <3>2. \A b \in [S -> S] :
             \E g \in [0..Fuel -> S] : g[0] = first /\ \A k \in 1..Fuel : g[k] = b[g[k - 1]]
      BY <1>2, <3>1
    <3> QED
      BY <1>3, <3>2
  <2> QED
    BY <2>2
<1>5. Is(g)
  <2>1. \A k \in 1..Fuel : k - 1 \in 0..Fuel
    BY FuelNat
  <2>2. \A k \in 1..Fuel : g[k - 1] \in S
    <3> HIDE DEF S
    <3> QED
      BY <1>4, <2>1
  <2>3. \A h \in S : step[h] = Longer(h, m, x)
    BY DEF step
  <2>4. \A k \in 1..Fuel : g[k] = Longer(g[k - 1], m, x)
    <3> HIDE DEF S
    <3> QED
      BY <1>4, <2>2, <2>3
  <2>5. \A k \in 0..Fuel : g[k] = IF k = 0 THEN first ELSE Longer(g[k - 1], m, x)
    <3> HIDE DEF S, Is, G
    <3>1. \A k \in 0..Fuel : k = 0 \/ (k \in 1..Fuel /\ k # 0)
      BY FuelNat
    <3> QED
      BY <1>4, <2>4, <3>1
  <2>6. g = [k \in 0..Fuel |-> g[k]]
    OBVIOUS
  <2> HIDE DEF S
  <2> QED
    BY <2>5, <2>6
<1>6. Is(G)
  <2>1. TextIs(g, m, x)
    BY <1>1, <1>5
  <2>2. TextIs(Texts(m, x), m, x)
    BY <2>1 DEF Texts
  <2> HIDE DEF Is
  <2> QED
    BY <1>1, <2>2
<1> HIDE DEF G
<1>7. G[0] = first /\ \A k \in 1..Fuel : G[k] = Longer(G[k - 1], m, x)
  <2>1. \A k \in 0..Fuel : G[k] = IF k = 0 THEN first ELSE Longer(G[k - 1], m, x)
    BY <1>6
  <2>2. 0 \in 0..Fuel /\ \A k \in 1..Fuel : k \in 0..Fuel /\ k # 0
    BY FuelNat
  <2> HIDE DEF Is
  <2> QED
    BY <2>1, <2>2
<1> DEFINE A == {k \in 0..Fuel : G[k] \in S}
<1>8. A = 0..Fuel
  <2>1. A \in SUBSET (0..Fuel) /\ 0 \in A
    <3>1. 0 \in 0..Fuel /\ G[0] \in S
      BY <1>2, <1>7, FuelNat
    <3> HIDE DEF S
    <3> QED
      BY <3>1
  <2>2. ASSUME NEW k \in 1..Fuel, k - 1 \in A PROVE k \in A
    <3>1. G[k - 1] \in S /\ k \in 0..Fuel
      BY <2>2, FuelNat
    <3>2. Longer(G[k - 1], m, x) \in S
      BY <3>1, LongerIs
    <3> HIDE DEF S
    <3> QED
      BY <1>7, <3>1, <3>2
  <2> HIDE DEF A
  <2> QED
    BY <2>1, <2>2, FuelNat, UpTo
<1>9. \A k \in 0..Fuel : G[k] \in S
  <2> HIDE DEF S
  <2> QED
    BY <1>8
<1>10. \A pos \in Nat : G[0][pos] = TooLong
  BY <1>7 DEF first
<1> QED
  BY <1>7, <1>9, <1>10 DEF G

\* The text that begins at pos, and the text of the whole name
Rest(d, fuel, pos) == Texts(d.data, d.stray)[fuel][pos]
WholeText(d) == Rest(d, Fuel, d.start)

\* The buffer holds the characters of done, and noff counts them.
InBuffer(d, done) ==
    /\ done \in Seq(Chars) /\ Len(done) <= NameMax /\ d.noff = Len(done)
    /\ \A i \in 1..Len(done) : d.name[i - 1] = done[i]

\* While a name is read, what is written and what is still to come are its text; when it was
\* read, the last dot is a zero.  Of a name that noff cannot count nothing is known.
Uncounted(d) == Len(WholeText(d)) > NameMax
Spelling(d) == \/ Uncounted(d)
               \/ \E fuel \in 0..Fuel, done \in Seq(Chars) :
                     InBuffer(d, done) /\ WholeText(d) = done \o Rest(d, fuel, d.ptr)
Spelled(d) ==
    \/ Uncounted(d)
    \/ /\ Len(WholeText(d)) = d.noff
       /\ \A i \in 1..(Len(WholeText(d)) - 1) : d.name[i - 1] = WholeText(d)[i]
       /\ d.name[Len(WholeText(d)) - 1] = 0

Buffered(d) ==
    /\ DOMAIN d.name = 0..NameMax
    /\ d.at = "name" => Spelling(d)
    /\ d.at = "record" => Spelled(d)

NameInv == dns.at \in {"name", "record"} => Buffered(dns)

LEMMA RestIs ==
    ASSUME NEW d, Message(d), NEW fuel \in 0..Fuel, NEW pos \in Nat
    PROVE  /\ Rest(d, fuel, pos) \in Seq(Chars)
           /\ fuel = 0 => Rest(d, fuel, pos) = TooLong
           /\ fuel # 0 =>
                /\ fuel - 1 \in 0..Fuel
                /\ ByteOf(d, pos) = 0 => Rest(d, fuel, pos) = <<>>
                /\ ByteOf(d, pos) >= Flag =>
                      Rest(d, fuel, pos) = Rest(d, fuel - 1, Target(d.data, d.stray, pos))
                /\ ByteOf(d, pos) \in 1..(Flag - 1) =>
                      Rest(d, fuel, pos) = LabelIn(d.data, d.stray, pos)
                                           \o Rest(d, fuel - 1, pos + ByteOf(d, pos) + 1)
<1> DEFINE m == d.data
           x == d.stray
           t == Texts(m, x)
           b == ByteIn(m, x, pos)
<1>1. m \in Seq(Octets) /\ x \in Octets
  BY DEF Message
<1> HIDE DEF m, x
<1>2. /\ \A k \in 0..Fuel : t[k] \in [Nat -> Seq(Chars)]
      /\ \A p \in Nat : t[0][p] = TooLong
      /\ \A k \in 1..Fuel : t[k] = Longer(t[k - 1], m, x)
  BY <1>1, TextsAre
<1> HIDE DEF t, b
<1>3. t[fuel][pos] \in Seq(Chars) /\ (fuel = 0 => t[fuel][pos] = TooLong)
  BY <1>2
<1>4. ASSUME fuel # 0
      PROVE  /\ fuel - 1 \in 0..Fuel
             /\ b = 0 => t[fuel][pos] = <<>>
             /\ b >= Flag => t[fuel][pos] = t[fuel - 1][Target(m, x, pos)]
             /\ b \in 1..(Flag - 1) => t[fuel][pos] = LabelIn(m, x, pos) \o t[fuel - 1][pos + b + 1]
  <2>1. fuel \in 1..Fuel /\ fuel - 1 \in 0..Fuel
    BY <1>4, FuelNat
  <2>2. t[fuel] = Longer(t[fuel - 1], m, x)
    BY <1>2, <2>1
  <2> DEFINE u == t[fuel - 1]
  <2>3. Longer(u, m, x)[pos] = IF b = 0 THEN <<>>
                               ELSE IF b >= Flag THEN u[Target(m, x, pos)]
                               ELSE LabelIn(m, x, pos) \o u[pos + b + 1]
    BY DEF Longer, b
  <2>4. b = 0 => ~(b >= Flag)
    BY ByteValuesAssumption
  <2>5. b \in 1..(Flag - 1) => b # 0 /\ ~(b >= Flag)
    BY ByteValuesAssumption
  <2>6. b >= Flag => b # 0
    BY ByteValuesAssumption
  <2>7. t[fuel][pos] = Longer(u, m, x)[pos]
    BY <2>2
  <2> HIDE DEF u
  <2>8. /\ b = 0 => t[fuel][pos] = <<>>
        /\ b >= Flag => t[fuel][pos] = u[Target(m, x, pos)]
        /\ b \in 1..(Flag - 1) => t[fuel][pos] = LabelIn(m, x, pos) \o u[pos + b + 1]
    BY <2>3, <2>5, <2>6, <2>7
  <2> QED
    BY <2>1, <2>8 DEF u
<1> QED
  BY <1>3, <1>4 DEF Rest, ByteOf, t, b, m, x

\* A text that goes on when no label or pointer is left to follow is not counted.
LEMMA NoFuelLeft ==
    ASSUME NEW done \in Seq(Chars)
    PROVE  Len(done \o TooLong) > NameMax
<1>1. Len(done \o TooLong) = Len(done) + (NameMax + 1) /\ Len(done) \in Nat
  <2>1. TooLong \in Seq(Chars) /\ Len(TooLong) = NameMax + 1
    BY TooLongIs
  <2>2. Len(done \o TooLong) = Len(done) + Len(TooLong)
    BY <2>1, ConcatProperties
  <2> QED
    BY <2>1, <2>2, LenProperties
<1> QED
  BY <1>1, FuelNat

LEMMA EnteredIsBuffered ==
    ASSUME NEW d, Message(d), DOMAIN d.name = 0..NameMax, NEW off \in Nat
    PROVE  Buffered(Entered(d, off))
<1> DEFINE f == Entered(d, off)
<1>1. /\ f.data = d.data /\ f.stray = d.stray /\ f.at = "name" /\ f.start = off /\ f.ptr = off
      /\ f.noff = 0 /\ f.name = [d.name EXCEPT ![0] = 0]
  BY DEF Entered, Message
<1>2. DOMAIN f.name = 0..NameMax
  BY <1>1
<1> HIDE DEF f
<1>3. Fuel \in 0..Fuel
  BY FuelNat
<1>4. WholeText(f) = Rest(d, Fuel, off) /\ Rest(f, Fuel, f.ptr) = Rest(d, Fuel, off)
  BY <1>1 DEF WholeText, Rest
<1>5. Rest(d, Fuel, off) \in Seq(Chars)
  BY <1>3, RestIs
<1>6. WholeText(f) = <<>> \o Rest(f, Fuel, f.ptr)
  BY <1>4, <1>5, ConcatEmptySeq
<1>7. InBuffer(f, <<>>) /\ <<>> \in Seq(Chars)
  BY <1>1, FuelNat DEF InBuffer
<1>8. Spelling(f)
  BY <1>3, <1>6, <1>7 DEF Spelling
<1> QED
  BY <1>1, <1>2, <1>8 DEF Buffered, f

LEMMA JumpIsBuffered ==
    ASSUME Message(dns), Placed(dns), Buffered(dns), dns.at = "name", Length >= Flag
    PROVE  Buffered(JumpTo)
<1> DEFINE f == JumpTo
           target == Target(dns.data, dns.stray, dns.ptr)
<1>1. \A pos : ByteAt(pos) = ByteOf(dns, pos)
  BY DEF ByteAt, ByteOf, ByteIn
<1>2. /\ f.data = dns.data /\ f.stray = dns.stray /\ f.at = "name" /\ f.start = dns.start
      /\ f.ptr = target /\ f.noff = dns.noff /\ f.name = dns.name
  <2>1. target = (Length % Flag) * ByteValues + ByteAt(dns.ptr + 1)
    BY <1>1 DEF Target, Length, ByteOf
  <2> HIDE DEF target
  <2> QED
    BY <2>1 DEF JumpTo, Message
<1> HIDE DEF f
<1>3. WholeText(f) = WholeText(dns) /\ (Uncounted(f) <=> Uncounted(dns))
  BY <1>2 DEF WholeText, Rest, Uncounted
<1>4. CASE Uncounted(dns)
  BY <1>2, <1>3, <1>4 DEF Buffered, Spelling, f
<1>5. CASE ~Uncounted(dns)
  <2>1. PICK fuel \in 0..Fuel, done \in Seq(Chars) :
           InBuffer(dns, done) /\ WholeText(dns) = done \o Rest(dns, fuel, dns.ptr)
    BY <1>5 DEF Buffered, Spelling
  <2>2. dns.ptr \in Nat /\ ByteOf(dns, dns.ptr) >= Flag
    BY <1>1 DEF Placed, Length
  <2>3. fuel # 0
    <3>1. fuel = 0 => Rest(dns, fuel, dns.ptr) = TooLong
      BY <2>2, RestIs
    <3> QED
      BY <1>5, <2>1, <3>1, NoFuelLeft DEF Uncounted
  <2>4. fuel - 1 \in 0..Fuel /\ Rest(dns, fuel, dns.ptr) = Rest(dns, fuel - 1, target)
    BY <2>2, <2>3, RestIs
  <2>5. Rest(f, fuel - 1, f.ptr) = Rest(dns, fuel - 1, target)
    BY <1>2 DEF Rest
  <2>6. InBuffer(f, done)
    BY <1>2, <2>1 DEF InBuffer
  <2>7. WholeText(f) = done \o Rest(f, fuel - 1, f.ptr)
    BY <1>3, <2>1, <2>4, <2>5
  <2>8. Spelling(f)
    BY <2>4, <2>6, <2>7 DEF Spelling
  <2> QED
    BY <1>2, <2>8 DEF Buffered, f
<1> QED
  BY <1>4, <1>5

\* Behind what was written comes a label, and then the rest.
LEMMA LabelAppended ==
    ASSUME NEW done \in Seq(Chars), NEW label \in Seq(Chars), NEW rest \in Seq(Chars)
    PROVE  /\ done \o label \in Seq(Chars)
           /\ done \o (label \o rest) = (done \o label) \o rest
           /\ Len(done \o label) = Len(done) + Len(label)
           /\ \A i \in 1..(Len(done) + Len(label)) :
                 (done \o label)[i] = IF i <= Len(done) THEN done[i] ELSE label[i - Len(done)]
           /\ Len((done \o label) \o rest) >= Len(done \o label)
<1>1. done \o label \in Seq(Chars) /\ Len(done \o label) = Len(done) + Len(label)
  BY ConcatProperties
<1>2. \A i \in 1..(Len(done) + Len(label)) :
         (done \o label)[i] = IF i <= Len(done) THEN done[i] ELSE label[i - Len(done)]
  BY ConcatProperties
<1>3. done \o (label \o rest) = (done \o label) \o rest
  <2>1. \A S : \A a, b, c \in Seq(S) : (a \o b) \o c = a \o (b \o c)
    BY ConcatAssociative
  <2> QED
    BY <2>1
<1> DEFINE dl == done \o label
<1>4. dl \in Seq(Chars)
  BY <1>1
<1> HIDE DEF dl
<1>5. Len(dl \o rest) = Len(dl) + Len(rest) /\ Len(dl) \in Nat /\ Len(rest) \in Nat
  <2>1. Len(dl \o rest) = Len(dl) + Len(rest)
    BY <1>4, ConcatProperties
  <2> QED
    BY <1>4, <2>1, LenProperties
<1>6. Len(dl \o rest) >= Len(dl)
  BY <1>5
<1> QED
  BY <1>1, <1>2, <1>3, <1>6 DEF dl

LEMMA LabelIsBuffered ==
    ASSUME Message(dns), Placed(dns), Buffered(dns), dns.at = "name",
           Length \in 1..(Flag - 1), Room
    PROVE  Buffered(WithLabel)
<1> DEFINE f == WithLabel
           len == Length
           next == dns.ptr + len + 1
           label == LabelIn(dns.data, dns.stray, dns.ptr)
<1>1. \A pos : ByteAt(pos) = ByteOf(dns, pos)
  BY DEF ByteAt, ByteOf, ByteIn
<1>2. /\ dns.ptr \in Nat /\ len \in Nat /\ len \in 1..(Flag - 1) /\ next \in Nat
      /\ len = ByteOf(dns, dns.ptr) /\ len = ByteIn(dns.data, dns.stray, dns.ptr)
  <2>1. dns.ptr \in Nat /\ len \in 1..(Flag - 1) /\ len \in Nat
    BY ByteValuesAssumption DEF Placed
  <2>2. len = ByteOf(dns, dns.ptr) /\ len = ByteIn(dns.data, dns.stray, dns.ptr)
    BY <1>1 DEF Length, ByteOf
  <2> HIDE DEF len
  <2> QED
    BY <2>1, <2>2
<1> DEFINE char(i) == IF i \in dns.noff..(dns.noff + len - 1) THEN ByteAt(dns.ptr + 1 + (i - dns.noff))
                      ELSE IF i = dns.noff + len THEN Dot ELSE dns.name[i]
<1>3. /\ f.data = dns.data /\ f.stray = dns.stray /\ f.at = "name" /\ f.start = dns.start
      /\ f.ptr = next /\ f.noff = NextOff /\ f.name = [i \in 0..NameMax |-> char(i)]
  BY DEF WithLabel, Message
<1>4. NextOff = ((dns.noff + len + 1) % (NameMax + 1))
  BY DEF NextOff
<1> HIDE DEF f, len, next
<1>5. WholeText(f) = WholeText(dns) /\ (Uncounted(f) <=> Uncounted(dns))
  BY <1>3 DEF WholeText, Rest, Uncounted
<1>6. DOMAIN f.name = 0..NameMax
  BY <1>3
<1>7. CASE Uncounted(dns)
  BY <1>3, <1>5, <1>6, <1>7 DEF Buffered, Spelling, f
<1>8. CASE ~Uncounted(dns)
  <2>1. PICK fuel \in 0..Fuel, done \in Seq(Chars) :
           InBuffer(dns, done) /\ WholeText(dns) = done \o Rest(dns, fuel, dns.ptr)
    BY <1>8 DEF Buffered, Spelling
  <2>2. fuel # 0
    <3>1. fuel = 0 => Rest(dns, fuel, dns.ptr) = TooLong
      BY <1>2, RestIs
    <3> QED
      BY <1>8, <2>1, <3>1, NoFuelLeft DEF Uncounted
  <2> DEFINE rest == Rest(dns, fuel - 1, next)
             new == done \o label
  <2>3. fuel - 1 \in 0..Fuel /\ Rest(dns, fuel, dns.ptr) = label \o rest
    <3>1. /\ fuel - 1 \in 0..Fuel
          /\ Rest(dns, fuel, dns.ptr) = LabelIn(dns.data, dns.stray, dns.ptr)
                                        \o Rest(dns, fuel - 1, dns.ptr + ByteOf(dns, dns.ptr) + 1)
      BY <1>2, <2>2, RestIs
    <3>2. next = dns.ptr + ByteOf(dns, dns.ptr) + 1
      BY <1>2 DEF next
    <3> QED
      BY <3>1, <3>2
  <2>4. rest \in Seq(Chars)
    BY <1>2, <2>3, RestIs
  <2>5. label \in Seq(Chars) /\ Len(label) = len + 1
    BY <1>2, LabelIs DEF Message
  <2>6. \A i \in 1..(len + 1) :
           label[i] = IF i > len THEN Dot ELSE ByteOf(dns, dns.ptr + i)
    BY <1>2 DEF LabelIn, ByteOf
  <2> HIDE DEF label, rest
  <2>7. /\ new \in Seq(Chars) /\ WholeText(dns) = new \o rest /\ Len(new) = Len(done) + Len(label)
        /\ \A i \in 1..(Len(done) + Len(label)) :
              new[i] = IF i <= Len(done) THEN done[i] ELSE label[i - Len(done)]
        /\ Len(new \o rest) >= Len(new)
    <3>1. /\ new \in Seq(Chars) /\ done \o (label \o rest) = new \o rest
          /\ Len(new) = Len(done) + Len(label)
          /\ \A i \in 1..(Len(done) + Len(label)) :
                new[i] = IF i <= Len(done) THEN done[i] ELSE label[i - Len(done)]
          /\ Len(new \o rest) >= Len(new)
      BY <2>4, <2>5, LabelAppended
    <3> HIDE DEF new
    <3>2. WholeText(dns) = done \o (label \o rest)
      BY <2>1, <2>3
    <3> QED
      BY <3>1, <3>2
  <2>8. Len(done) \in Nat /\ dns.noff = Len(done) /\ Len(done) <= NameMax
    BY <2>1, LenProperties DEF InBuffer
  <2> DEFINE n == Len(done)
  <2>9. Len(new) = n + len + 1 /\ Len(new) \in Nat
    BY <1>2, <2>5, <2>7, <2>8
  <2>10. Len(new) <= NameMax
    BY <1>8, <2>7, <2>9, FuelNat, LenProperties DEF Uncounted
  <2>11. f.noff = Len(new)
    <3>1. dns.noff + len + 1 = Len(new)
      BY <2>8, <2>9
    <3>2. \A k, l \in Nat : k <= l => (k % (l + 1)) = k
      OBVIOUS
    <3>3. (Len(new) % (NameMax + 1)) = Len(new)
      BY <2>9, <2>10, <3>2, FuelNat
    <3> QED
      BY <1>3, <1>4, <3>1, <3>3
  <2>12. ASSUME NEW i \in 1..Len(new) PROVE f.name[i - 1] = new[i]
    <3>1. i \in Nat /\ i - 1 \in 0..NameMax /\ i \in 1..(Len(done) + Len(label))
      BY <2>7, <2>9, <2>10, FuelNat
    <3>2. f.name[i - 1] = char(i - 1)
      <4> HIDE DEF char
      <4> QED
        BY <1>3, <3>1
    <3>3. CASE i <= n
      <4>1. i - 1 \notin n..(n + len - 1) /\ i - 1 # n + len /\ i \in 1..n
        <5>1. n \in Nat /\ len \in Nat /\ i \in Nat /\ i >= 1 /\ i <= n
          BY <1>2, <2>8, <3>1, <3>3
        <5> HIDE DEF n, char, new
        <5> QED
          BY <5>1
      <4>2. char(i - 1) = dns.name[i - 1]
        BY <2>8, <4>1
      <4>3. dns.name[i - 1] = done[i]
        BY <2>1, <4>1 DEF InBuffer
      <4> HIDE DEF char, new
      <4> QED
        BY <2>7, <3>1, <3>2, <3>3, <4>2, <4>3
    <3>4. CASE i > n /\ i <= n + len
      <4>1. /\ i - 1 \in n..(n + len - 1) /\ dns.ptr + 1 + ((i - 1) - n) = dns.ptr + (i - n)
            /\ i - n \in 1..(len + 1) /\ ~(i - n > len) /\ ~(i <= n)
        <5>1. n \in Nat /\ len \in Nat /\ i \in Nat /\ i > n /\ i <= n + len /\ dns.ptr \in Nat
          BY <1>2, <2>8, <3>1, <3>4
        <5> HIDE DEF n, char, new
        <5> QED
          BY <5>1
      <4>2. char(i - 1) = ByteAt(dns.ptr + (i - n))
        BY <2>8, <4>1
      <4>3. new[i] = label[i - n]
        BY <2>7, <3>1, <4>1
      <4>4. label[i - n] = ByteOf(dns, dns.ptr + (i - n))
        BY <2>6, <4>1
      <4> HIDE DEF char, new
      <4> QED
        BY <1>1, <3>2, <4>2, <4>3, <4>4
    <3>5. CASE i = n + len + 1
      <4>1. /\ i - 1 \notin n..(n + len - 1) /\ i - 1 = n + len
            /\ i - n \in 1..(len + 1) /\ i - n > len /\ ~(i <= n)
        <5>1. n \in Nat /\ len \in Nat /\ i \in Nat /\ i = n + len + 1
          BY <1>2, <2>8, <3>1, <3>5
        <5> HIDE DEF n, char, new
        <5> QED
          BY <5>1
      <4>2. char(i - 1) = Dot
        BY <2>8, <4>1
      <4>3. new[i] = label[i - n]
        BY <2>7, <3>1, <4>1
      <4>4. label[i - n] = Dot
        BY <2>6, <4>1
      <4> HIDE DEF char, new
      <4> QED
        BY <3>2, <4>2, <4>3, <4>4
    <3>6. i <= n \/ (i > n /\ i <= n + len) \/ i = n + len + 1
      <4>1. i \in Nat /\ n \in Nat /\ len \in Nat /\ i <= n + len + 1
        BY <1>2, <2>8, <2>9, <3>1
      <4> HIDE DEF char, new, n
      <4> QED
        BY <4>1
    <3> HIDE DEF char, new, n
    <3> QED
      BY <3>3, <3>4, <3>5, <3>6
  <2> HIDE DEF new, n, char
  <2>13. InBuffer(f, new)
    BY <2>7, <2>10, <2>11, <2>12 DEF InBuffer
  <2>14. WholeText(f) = new \o Rest(f, fuel - 1, f.ptr)
    <3>1. Rest(f, fuel - 1, f.ptr) = rest
      BY <1>3 DEF Rest, rest
    <3> QED
      BY <1>5, <2>7, <3>1
  <2>15. Spelling(f)
    BY <2>3, <2>7, <2>13, <2>14 DEF Spelling
  <2> QED
    BY <1>3, <1>6, <2>15 DEF Buffered, f
<1> QED
  BY <1>7, <1>8

LEMMA EndIsBuffered ==
    ASSUME Message(dns), Placed(dns), Buffered(dns), EndName
    PROVE  Buffered(dns)'
<1> DEFINE f == [dns EXCEPT !.at = "record", !.name = [@ EXCEPT ![dns.noff - 1] = 0], !.ret = Returned]
<1>1. dns' = f /\ dns.at = "name" /\ Length = 0 /\ dns.noff > 0
  BY DEF EndName
<1>2. /\ f.data = dns.data /\ f.stray = dns.stray /\ f.at = "record" /\ f.start = dns.start
      /\ f.noff = dns.noff /\ f.name = [dns.name EXCEPT ![dns.noff - 1] = 0]
  BY DEF Message
<1> HIDE DEF f
<1>3. DOMAIN f.name = 0..NameMax
  BY <1>2 DEF Buffered
<1>4. WholeText(f) = WholeText(dns) /\ (Uncounted(f) <=> Uncounted(dns))
  BY <1>2 DEF WholeText, Rest, Uncounted
<1>5. Spelled(f)
  <2>1. CASE Uncounted(dns)
    BY <1>4, <2>1 DEF Spelled
  <2>2. CASE ~Uncounted(dns)
    <3>1. PICK fuel \in 0..Fuel, done \in Seq(Chars) :
             InBuffer(dns, done) /\ WholeText(dns) = done \o Rest(dns, fuel, dns.ptr)
      BY <1>1, <2>2 DEF Buffered, Spelling
    <3>2. dns.ptr \in Nat /\ ByteOf(dns, dns.ptr) = 0
      BY <1>1 DEF Placed, Length, ByteAt, ByteOf, ByteIn
    <3>3. fuel # 0
      <4>1. fuel = 0 => Rest(dns, fuel, dns.ptr) = TooLong
        BY <3>2, RestIs
      <4> QED
        BY <2>2, <3>1, <4>1, NoFuelLeft DEF Uncounted
    <3>4. Rest(dns, fuel, dns.ptr) = <<>>
      BY <3>2, <3>3, RestIs
    <3>5. WholeText(f) = done
      BY <1>4, <3>1, <3>4, ConcatEmptySeq
    <3> DEFINE n == Len(done)
    <3>6. n \in Nat /\ n > 0 /\ n <= NameMax /\ dns.noff = n
      BY <1>1, <3>1, LenProperties DEF InBuffer
    <3>7. \A i \in 1..(n - 1) : f.name[i - 1] = done[i]
      <4> SUFFICES ASSUME NEW i \in 1..(n - 1) PROVE f.name[i - 1] = done[i]
        OBVIOUS
      <4> HIDE DEF n
      <4>1. i \in 1..n /\ i - 1 \in 0..NameMax /\ i - 1 # n - 1
        BY <3>6, FuelNat
      <4>2. f.name[i - 1] = dns.name[i - 1]
        BY <1>2, <3>6, <4>1 DEF Buffered
      <4> QED
        BY <3>1, <4>1, <4>2 DEF InBuffer, n
    <3>8. f.name[n - 1] = 0
      <4> HIDE DEF n
      <4>1. n - 1 \in 0..NameMax
        BY <3>6, FuelNat
      <4> QED
        BY <1>2, <3>6, <4>1 DEF Buffered
    <3> QED
      BY <1>2, <3>5, <3>6, <3>7, <3>8 DEF Spelled
  <2> QED
    BY <2>1, <2>2
<1>6. Buffered(f)
  BY <1>2, <1>3, <1>5 DEF Buffered
<1>7. Buffered(dns)' <=> Buffered(f)
  BY <1>1 DEF Buffered, Spelling, Spelled, Uncounted, InBuffer, WholeText, Rest
<1> QED
  BY <1>6, <1>7

LEMMA NextRecordIsBuffered ==
    ASSUME Message(dns), Buffered(dns), NEW next \in Nat
    PROVE  NextRecord(next) = NoDns \/ Buffered(NextRecord(next))
<1> DEFINE d == [dns EXCEPT !.left = @ - 1, !.question = FALSE]
<1>1. Message(d) /\ DOMAIN d.name = 0..NameMax
  BY DEF Message, Buffered
<1>2. NextRecord(next) = IF dns.left = 1 THEN NoDns ELSE Entered(d, next)
  BY DEF NextRecord
<1> HIDE DEF d
<1> QED
  BY <1>1, <1>2, EnteredIsBuffered

\* One step for each label and pointer: what is written and what is still to come are the
\* text of the name.
LEMMA NameKept ==
    ASSUME PlaceInv, NameInv, DnsNext
    PROVE  NameInv'
<1>0. \A d : dns' = d /\ (d = NoDns \/ d.at = "dhcp" \/ Buffered(d)) => NameInv'
  <2> SUFFICES ASSUME NEW d, dns' = d, d = NoDns \/ d.at = "dhcp" \/ Buffered(d)
               PROVE  NameInv'
    OBVIOUS
  <2>1. Buffered(dns)' <=> Buffered(d)
    BY DEF Buffered, Spelling, Spelled, Uncounted, InBuffer, WholeText, Rest
  <2> QED
    BY <2>1 DEF NameInv, NoDns
<1>1. CASE Arrive
  <2>1. PICK body \in MessageBodies, stray \in Strays, kind \in {"query", "response"},
             acount \in 1..MaxAnswers :
          dns' = Entered([at |-> "name", kind |-> kind,
                          data |-> [i \in 1..Header |-> 0] \o body, stray |-> stray,
                          left |-> IF kind = "query" THEN 1 ELSE 1 + acount,
                          question |-> TRUE, off |-> 0, start |-> 0, ptr |-> 0,
                          noff |-> 0, c |-> FALSE, name |-> Blank, run |-> 0,
                          back |-> TRUE, ret |-> 0], Header)
    BY <1>1 DEF Arrive
  <2> DEFINE data == [i \in 1..Header |-> 0] \o body
             d == [at |-> "name", kind |-> kind,
                   data |-> data, stray |-> stray,
                   left |-> IF kind = "query" THEN 1 ELSE 1 + acount,
                   question |-> TRUE, off |-> 0, start |-> 0, ptr |-> 0,
                   noff |-> 0, c |-> FALSE, name |-> Blank, run |-> 0,
                   back |-> TRUE, ret |-> 0]
  <2>2. dns' = Entered(d, Header)
    BY <2>1
  <2>3. data \in Seq(Octets)
    BY ArrivedIs
  <2>4. stray \in Octets /\ Header \in Nat
    BY StraysAssumption, SizesAssumption DEF Octets
  <2> HIDE DEF data
  <2>5. Message(d) /\ DOMAIN d.name = 0..NameMax
    BY <2>3, <2>4 DEF Message, Blank
  <2> HIDE DEF d
  <2>6. Buffered(Entered(d, Header))
    BY <2>4, <2>5, EnteredIsBuffered
  <2> QED
    BY <1>0, <2>2, <2>6
<1>2. CASE FollowPointer
  <2>1. /\ Message(dns) /\ Placed(dns) /\ Buffered(dns)
        /\ dns' = JumpTo /\ dns.at = "name" /\ Length >= Flag
    BY <1>2 DEF FollowPointer, PlaceInv, NameInv
  <2>2. Buffered(JumpTo)
    BY <2>1, JumpIsBuffered
  <2> QED
    BY <1>0, <2>1, <2>2
<1>3. CASE CopyLabel
  <2>1. /\ Message(dns) /\ Placed(dns) /\ Buffered(dns)
        /\ dns' = WithLabel /\ dns.at = "name" /\ Length \in 1..(Flag - 1) /\ Room
    BY <1>3 DEF CopyLabel, PlaceInv, NameInv
  <2>2. Buffered(WithLabel)
    BY <2>1, LabelIsBuffered
  <2> QED
    BY <1>0, <2>1, <2>2
<1>4. CASE BadName
  BY <1>0, <1>4 DEF BadName
<1>5. CASE EndName
  <2>1. Message(dns) /\ Placed(dns) /\ Buffered(dns)
    BY <1>5 DEF EndName, PlaceInv, NameInv
  <2> QED
    BY <1>5, <2>1, EndIsBuffered DEF NameInv
<1>6. CASE QueryDone
  BY <1>0, <1>6 DEF QueryDone
<1>7. CASE Question
  <2>1. Message(dns) /\ Placed(dns) /\ Buffered(dns) /\ dns.at = "record"
    BY <1>7 DEF Question, PlaceInv, NameInv
  <2>2. dns.ret + QuestionSize \in Nat
    BY <2>1, SizesAssumption DEF Placed, Read
  <2>3. dns' = NoDns \/ dns' = NextRecord(dns.ret + QuestionSize)
    BY <1>7 DEF Question
  <2>4. \/ NextRecord(dns.ret + QuestionSize) = NoDns
        \/ Buffered(NextRecord(dns.ret + QuestionSize))
    BY <2>1, <2>2, NextRecordIsBuffered
  <2> QED
    BY <1>0, <2>3, <2>4
<1>8. CASE Answer
  <2> DEFINE next == dns.ret + AnswerSize + ByteAt((dns.ret + AnswerSize) - 1)
  <2>1. Message(dns) /\ Placed(dns) /\ Buffered(dns) /\ dns.at = "record"
    BY <1>8 DEF Answer, PlaceInv, NameInv
  <2>2. dns' = NoDns \/ dns' = NextRecord(next)
    BY <1>8 DEF Answer
  <2>3. next \in Nat
    BY <2>1, AnswerEnds
  <2> HIDE DEF next
  <2>4. NextRecord(next) = NoDns \/ Buffered(NextRecord(next))
    BY <2>1, <2>3, NextRecordIsBuffered
  <2> QED
    BY <1>0, <2>2, <2>4
<1>9. CASE CheckDhcp
  <2>1. \E r \in DhcpRequests, u \in DhcpSessions :
            dns' = [at |-> "dhcp", arg |-> r, session |-> u, res |-> check_dhcp(r, u)]
    BY <1>9 DEF CheckDhcp
  <2> QED
    BY <2>1 DEF NameInv
<1>10. CASE DhcpDone
  BY <1>0, <1>10 DEF DhcpDone
<1> QED
  BY <1>1, <1>2, <1>3, <1>4, <1>5, <1>6, <1>7, <1>8, <1>9, <1>10 DEF DnsNext, DnsStep

\* get_qname hands its callers the name that the message holds, its labels with dots between
\* them, unless noff cannot count it (dns.c:4-43), and the position behind it as
\* ResumesBehindName has it: for messages of any length and contents.
THEOREM QuestionDecodedHolds == Spec => []QuestionDecoded
<1>1. Init => PlaceInv /\ NameInv
  BY DEF Init, DnsInit, NoDns, PlaceInv, NameInv
<1>2. PlaceInv /\ NameInv /\ [Next]_messages => (PlaceInv /\ NameInv)'
  <2>1. PlaceInv /\ NameInv /\ DnsNext => PlaceInv' /\ NameInv'
    BY PlaceKept, NameKept
  <2>2. PlaceInv /\ UNCHANGED dns => PlaceInv'
    BY DEF PlaceInv, Message, Placed, Read, Jumped, NotJumped, ByteOf, EndAt
  <2>3. NameInv /\ UNCHANGED dns => NameInv'
    <3> SUFFICES ASSUME NameInv, dns' = dns PROVE NameInv'
      OBVIOUS
    <3>1. Buffered(dns)' <=> Buffered(dns)
      BY DEF Buffered, Spelling, Spelled, Uncounted, InBuffer, WholeText, Rest
    <3> QED
      BY <3>1 DEF NameInv
  <2> QED
    BY <2>1, <2>2, <2>3 DEF Next, messages
<1>3. NameInv => NameDecoded
  <2> SUFFICES ASSUME NameInv, dns.at = "record" PROVE NameDecoded
    BY DEF NameDecoded
  <2>1. Spelled(dns)
    BY DEF NameInv, Buffered
  <2>2. TextOfName(dns.start) = WholeText(dns)
    BY DEF TextOfName, WholeText, Rest, Texts, TextIs, Fuel, Target, LabelIn, LabelAt, ByteIn, ByteAt
  <2> QED
    BY <2>1, <2>2 DEF NameDecoded, Spelled, Uncounted
<1> QED
  BY <1>1, <1>2, <1>3, ResumesBehindNameHolds, PTL DEF Spec, QuestionDecoded

===============================================================================
