---------------------------- MODULE StoreProofs ----------------------------
(***************************************************************************)
(* Theorems about the database of module Store, for any blocks, solution   *)
(* sets and word size: the references between its tables, that a block     *)
(* reads back as it was written exactly if its sets were inserted once,    *)
(* and that a query by block address finds what the block wrote last.      *)
(* Words read back from their bytes and words from their blobs; the rows   *)
(* of a set are copies of those that one insertion writes, so that what a  *)
(* query finds among them is known from the solutions of the set.          *)
(***************************************************************************)
EXTENDS Store, FiniteSetTheorems, SequenceTheorems, WellFoundedInduction, TLAPS

-----------------------------------------------------------------------------
(* Induction and recursion over the numbers up to n.                       *)

\* Induction, for a set of numbers.
LEMMA UpTo ==
    ASSUME NEW n \in Nat, NEW T, 0 \in T,
           \A i \in 0..n : i < n /\ i \in T => i + 1 \in T
    PROVE  0..n \subseteq T
<1> DEFINE U == (0..n) \ T
<1>1. SUFFICES ASSUME U # {} PROVE FALSE
  OBVIOUS
<1>2. U \subseteq Nat
  OBVIOUS
<1>3. PICK u \in U : \A v \in U : ~(<<v, u>> \in OpToRel(<, Nat))
  BY <1>1, <1>2, WFMin, NatLessThanWellFounded, Zenon
<1>4. u \in Nat /\ u # 0 /\ u <= n /\ u \notin T
  OBVIOUS
<1>5. u - 1 \in 0..n /\ u - 1 \in Nat /\ u - 1 < u /\ u - 1 < n /\ (u - 1) + 1 = u
  BY <1>4
<1>6. <<u - 1, u>> \in OpToRel(<, Nat)
  BY <1>4, <1>5 DEF OpToRel
<1>7. u - 1 \in T
  BY <1>3, <1>5, <1>6
<1> QED
  BY <1>4, <1>5, <1>7

\* f begins with a and goes on as step says.
Steps(f, n, a, step) == f[0] = a /\ \A i \in 1..n : f[i] = step[i][f[i - 1]]

\* Every such recursion defines a function.
LEMMA Recursion ==
    ASSUME NEW n \in Nat, NEW V, NEW a \in V, NEW step \in [1..n -> [V -> V]]
    PROVE  \E f \in [0..n -> V] : Steps(f, n, a, step)
<1> DEFINE T == {k \in 0..n : \E f \in [0..k -> V] : Steps(f, k, a, step)}
<1>1. 0 \in T
  <2> DEFINE f == [i \in 0..0 |-> a]
  <2>1. f \in [0..0 -> V] /\ Steps(f, 0, a, step)
    BY DEF Steps
  <2> QED
    BY <2>1
<1>2. ASSUME NEW k \in 0..n, k < n, k \in T PROVE k + 1 \in T
  <2>1. PICK f \in [0..k -> V] : Steps(f, k, a, step)
    BY <1>2
  <2> DEFINE g == [i \in 0..(k + 1) |-> IF i <= k THEN f[i] ELSE step[k + 1][f[k]]]
  <2>2. k + 1 \in 1..n /\ f[k] \in V /\ step[k + 1] \in [V -> V]
    BY <1>2
  <2>3. g \in [0..(k + 1) -> V]
    BY <2>2
  <2>4. g[0] = a
    BY <2>1 DEF Steps
  <2>5. ASSUME NEW i \in 1..(k + 1) PROVE g[i] = step[i][g[i - 1]]
    <3>1. CASE i <= k
      <4>1. i \in 1..k /\ i - 1 \in 0..k /\ i \in 0..(k + 1) /\ i - 1 \in 0..(k + 1) /\ i - 1 <= k
        BY <3>1
      <4>2. g[i] = f[i] /\ g[i - 1] = f[i - 1]
        BY <3>1, <4>1
      <4> QED
        BY <2>1, <4>1, <4>2 DEF Steps
    <3>2. CASE i = k + 1
      <4>1. ~(k + 1 <= k) /\ (k + 1) - 1 = k /\ k \in 0..(k + 1) /\ k + 1 \in 0..(k + 1)
        OBVIOUS
      <4>2. g[k + 1] = step[k + 1][f[k]] /\ g[k] = f[k]
        BY <4>1
      <4> QED
        BY <3>2, <4>1, <4>2
    <3> QED
      BY <3>1, <3>2
  <2>6. Steps(g, k + 1, a, step)
    BY <2>4, <2>5 DEF Steps
  <2> QED
    BY <2>2, <2>3, <2>6
<1>3. 0..n \subseteq T
  <2> HIDE DEF T
  <2> QED
    BY <1>1, <1>2, UpTo
<1>4. n \in 0..n
  OBVIOUS
<1> QED
  BY <1>3, <1>4

-----------------------------------------------------------------------------
(* Sequences put one after the other.                                      *)

\* A function on 1..n is a sequence of length n.
LEMMA SequenceIs ==
    ASSUME NEW S, NEW n \in Nat, NEW f \in [1..n -> S]
    PROVE  f \in Seq(S) /\ Len(f) = n
OBVIOUS

\* Sequences of one domain are of one length.
LEMMA SameDomain ==
    ASSUME NEW S, NEW T, NEW s \in Seq(S), NEW t \in Seq(T), DOMAIN s = DOMAIN t
    PROVE  Len(s) = Len(t)
OBVIOUS

\* A sequence without elements is empty.
LEMMA EmptyRange ==
    ASSUME NEW S, NEW s \in Seq(S)
    PROVE  (Range(s) = {} <=> s = << >>) /\ (Len(s) = 0 <=> s = << >>)
<1>1. Len(s) = 0 <=> s = << >>
  OBVIOUS
<1>2. Range(s) = {s[i] : i \in 1..Len(s)} /\ Len(s) \in Nat
  BY RangeEquality, LenProperties
<1>3. Range(s) = {} <=> Len(s) = 0
  <2>1. \A n \in Nat : 1..n = {} <=> n = 0
    OBVIOUS
  <2> QED
    BY <1>2, <2>1
<1> QED
  BY <1>1, <1>3

\* f is what FlattenSeq computes on its way.
Flattens(f, ss) ==
    f = [i \in 1..Len(ss) |-> IF i = 1 THEN ss[i] ELSE f[i - 1] \o ss[i]]

\* f[i] holds the first i of the sequences of ss.
Concats(f, ss, n, S) ==
    /\ f \in [0..n -> Seq(S)]
    /\ f[0] = << >>
    /\ \A i \in 1..n : f[i] = f[i - 1] \o ss[i]

\* The concatenations of the first sequences exist.
LEMMA ConcatsExist ==
    ASSUME NEW S, NEW n \in Nat, NEW ss \in [1..n -> Seq(S)]
    PROVE  \E f : Concats(f, ss, n, S)
<1> DEFINE step == [i \in 1..n |-> [s \in Seq(S) |-> s \o ss[i]]]
<1>1. << >> \in Seq(S)
  BY EmptySeq
<1>2. step \in [1..n -> [Seq(S) -> Seq(S)]]
  BY ConcatProperties
<1>3. PICK f \in [0..n -> Seq(S)] : Steps(f, n, << >>, step)
  <2> HIDE DEF step
  <2> QED
    BY <1>1, <1>2, Recursion
<1>4. ASSUME NEW i \in 1..n PROVE f[i] = f[i - 1] \o ss[i]
  <2>1. i - 1 \in 0..n
    OBVIOUS
  <2> QED
    BY <1>3, <2>1 DEF Steps
<1>5. f[0] = << >>
  BY <1>3 DEF Steps
<1> QED
  BY <1>3, <1>4, <1>5 DEF Concats

\* FlattenSeq puts the sequences one after the other.
LEMMA FlattenIs ==
    ASSUME NEW S, NEW n \in Nat, NEW ss \in [1..n -> Seq(S)], NEW f, Concats(f, ss, n, S)
    PROVE  FlattenSeq(ss) = f[n]
<1>1. ss \in Seq(Seq(S)) /\ Len(ss) = n
  OBVIOUS
<1>2. CASE n = 0
  <2>1. ss = << >>
    BY <1>2
  <2> QED
    BY <1>1, <1>2, <2>1 DEF FlattenSeq, Concats
<1>3. CASE n # 0
  <2> DEFINE h == [i \in 1..n |-> f[i]]
  <2>1. Flattens(h, ss)
    <3>1. ASSUME NEW i \in 1..n
          PROVE  h[i] = IF i = 1 THEN ss[i] ELSE h[i - 1] \o ss[i]
      <4>1. f[i] = f[i - 1] \o ss[i]
        BY DEF Concats
      <4>2. CASE i = 1
        <5>1. f[0] = << >> /\ i - 1 = 0
          BY <4>2 DEF Concats
        <5>3. f[1] = << >> \o ss[1]
          BY <4>1, <4>2, <5>1
        <5>2. ss[1] \in Seq(S)
          BY <4>2
        <5> QED
          BY <4>2, <5>2, <5>3, ConcatEmptySeq
      <4>3. CASE i # 1
        <5>1. i - 1 \in 1..n
          BY <4>3
        <5> QED
          BY <4>1, <4>3, <5>1
      <4> QED
        BY <4>2, <4>3
    <3> QED
      BY <1>1, <3>1 DEF Flattens
  <2>2. FlattenSeq(ss) = (CHOOSE g : Flattens(g, ss))[n]
    BY <1>1, <1>3 DEF FlattenSeq, Flattens
  <2> DEFINE g == CHOOSE g : Flattens(g, ss)
  <2>3. Flattens(g, ss)
    BY <2>1
  <2>4. g = [i \in 1..n |-> IF i = 1 THEN ss[i] ELSE g[i - 1] \o ss[i]]
    <3> HIDE DEF g
    <3> QED
      BY <1>1, <2>3 DEF Flattens
  <2> HIDE DEF g
  <2> DEFINE T == {i \in 0..n : i = 0 \/ g[i] = f[i]}
  <2>5. 0 \in T
    OBVIOUS
  <2>6. ASSUME NEW i \in 0..n, i < n, i \in T PROVE i + 1 \in T
    <3>1. i + 1 \in 1..n /\ (i + 1) - 1 = i
      BY <2>6
    <3>2. f[i + 1] = f[i] \o ss[i + 1]
      BY <3>1 DEF Concats
    <3>3. CASE i = 0
      <4>1. g[1] = ss[1]
        BY <2>4, <3>1, <3>3
      <4>4. f[0] = << >> /\ 1 \in 1..n /\ i + 1 = 1
        BY <3>1, <3>3 DEF Concats
      <4>2. f[1] = << >> \o ss[1] /\ ss[1] \in Seq(S)
        BY <3>2, <3>3, <4>4
      <4>3. f[1] = ss[1]
        BY <4>2, ConcatEmptySeq
      <4> QED
        BY <3>1, <4>1, <4>3, <4>4
    <3>4. CASE i # 0
      <4>1. i + 1 # 1
        BY <3>4
      <4>2. g[i + 1] = g[i] \o ss[i + 1]
        BY <2>4, <3>1, <4>1
      <4>3. g[i] = f[i]
        BY <2>6, <3>4
      <4>4. g[i + 1] = f[i + 1] /\ i + 1 \in 0..n
        BY <3>1, <3>2, <4>2, <4>3
      <4> QED
        BY <4>4
    <3> QED
      BY <3>3, <3>4
  <2>7. 0..n \subseteq T
    <3> HIDE DEF T
    <3> QED
      BY <2>5, <2>6, UpTo
  <2>8. n \in T
    BY <2>7
  <2> QED
    BY <1>3, <2>2, <2>8 DEF g
<1> QED
  BY <1>2, <1>3
-----------------------------------------------------------------------------
(* Words and their bytes.                                                  *)

\* The base and the length of a word.
LEMMA Bases == ByteBase \in Nat \ {0} /\ ByteBase % 2 = 0 /\ WordBytes \in Nat \ {0}
BY StoreAssumption DEF StoreAssumption

Powers(f) == f = [n \in 0..WordBytes |-> IF n = 0 THEN 1 ELSE ByteBase * f[n - 1]]

\* The powers of the base.
LEMMA PowerIs ==
    /\ \A n \in 0..WordBytes : Power[n] \in Nat \ {0}
    /\ Power[0] = 1
    /\ \A n \in 1..WordBytes : Power[n] = ByteBase * Power[n - 1]
<1> DEFINE step == [n \in 1..WordBytes |-> [v \in Nat \ {0} |-> ByteBase * v]]
<1>1. step \in [1..WordBytes -> [Nat \ {0} -> Nat \ {0}]]
  BY Bases
<1>2. PICK f \in [0..WordBytes -> Nat \ {0}] : Steps(f, WordBytes, 1, step)
  <2> HIDE DEF step
  <2>1. 1 \in Nat \ {0} /\ WordBytes \in Nat
    BY Bases
  <2> QED
    BY <1>1, <2>1, Recursion
<1>3. ASSUME NEW n \in 0..WordBytes PROVE f[n] = IF n = 0 THEN 1 ELSE ByteBase * f[n - 1]
  <2>1. CASE n = 0
    BY <1>2, <2>1 DEF Steps
  <2>2. CASE n # 0
    <3>1. n \in 1..WordBytes /\ n - 1 \in 0..WordBytes
      BY <2>2, Bases
    <3> QED
      BY <1>2, <2>2, <3>1 DEF Steps
  <2> QED
    BY <2>1, <2>2
<1>4. Powers(f)
  BY <1>3 DEF Powers
<1>5. Power = CHOOSE g : Powers(g)
  BY DEF Power, Powers
<1>6. Powers(Power)
  BY <1>4, <1>5
<1>7. Power = [n \in 0..WordBytes |-> IF n = 0 THEN 1 ELSE ByteBase * Power[n - 1]]
  BY <1>6 DEF Powers
<1> HIDE DEF Power
<1> DEFINE T == {n \in 0..WordBytes : Power[n] \in Nat \ {0}}
<1>8. 0 \in T
  BY <1>7, Bases
<1>9. ASSUME NEW n \in 0..WordBytes, n < WordBytes, n \in T PROVE n + 1 \in T
  <2>1. n + 1 \in 0..WordBytes /\ n + 1 # 0 /\ (n + 1) - 1 = n
    BY <1>9, Bases
  <2>2. Power[n + 1] = ByteBase * Power[n]
    BY <1>7, <2>1
  <2> QED
    BY <1>9, <2>1, <2>2, Bases
<1>10. 0..WordBytes \subseteq T
  <2> HIDE DEF T
  <2> QED
    BY <1>8, <1>9, UpTo, Bases
<1>11. ASSUME NEW n \in 1..WordBytes PROVE Power[n] = ByteBase * Power[n - 1]
  <2>1. n \in 0..WordBytes /\ n # 0
    BY Bases
  <2> QED
    BY <1>7, <2>1
<1>12. Power[0] = 1
  BY <1>7, Bases
<1> QED
  BY <1>10, <1>11, <1>12

\* Quotient and remainder.
LEMMA Division ==
    ASSUME NEW d \in Nat \ {0}, NEW w \in Int
    PROVE  /\ w \div d \in Int /\ w % d \in 0..(d - 1)
           /\ w = d * (w \div d) + (w % d)
OBVIOUS

\* A quotient is known from its remainder.
LEMMA QuotientIs ==
    ASSUME NEW d \in Nat \ {0}, NEW w \in Int, NEW q \in Int, NEW r \in 0..(d - 1),
           w = d * q + r
    PROVE  w \div d = q
OBVIOUS

\* Dividing by d, one finds the next quotient.
LEMMA DivideOnce ==
    ASSUME NEW d \in Nat \ {0}, NEW p \in Nat \ {0}, NEW w \in Int
    PROVE  w \div p = d * (w \div (d * p)) + ((w \div p) % d)
<1> DEFINE q == w \div p
           r == w % p
           u == q \div d
           v == q % d
<1>1. q \in Int /\ r \in 0..(p - 1) /\ w = p * q + r
  BY Division
<1>2. u \in Int /\ v \in 0..(d - 1) /\ q = d * u + v
  BY <1>1, Division
<1> HIDE DEF q, r, u, v
<1>3. w = p * (d * u + v) + r
  BY <1>1, <1>2
<1>4. p * (d * u + v) = (d * p) * u + p * v
  BY <1>2
<1>5. p * v + r \in Int /\ (d * p) * u \in Int /\ d * p \in Nat \ {0}
  BY <1>1, <1>2
<1>6. w = (d * p) * u + (p * v + r)
  BY <1>1, <1>2, <1>3, <1>4
<1>7. p * v <= p * (d - 1) /\ 0 <= p * v
  BY <1>2
<1>8. p * (d - 1) = d * p - p
  OBVIOUS
<1>9. p * v + r \in 0..(d * p - 1)
  BY <1>1, <1>2, <1>5, <1>7, <1>8
<1>10. w \div (d * p) = u
  BY <1>2, <1>5, <1>6, <1>9, QuotientIs
<1> QED
  BY <1>2, <1>10 DEF q, u, v

\* The bytes of a word.
LEMMA BytesAre ==
    ASSUME NEW w \in Int
    PROVE  /\ BytesFromWord(w) \in Seq(Int) /\ Len(BytesFromWord(w)) = WordBytes
           /\ BytesFromWord(w) \in [1..WordBytes -> Int]
<1>1. ASSUME NEW i \in 1..WordBytes PROVE (w \div Power[WordBytes - i]) % ByteBase \in Int
  <2>1. WordBytes - i \in 0..WordBytes
    BY Bases
  <2>2. Power[WordBytes - i] \in Nat \ {0}
    BY <2>1, PowerIs
  <2>3. w \div Power[WordBytes - i] \in Int
    BY <2>2, Division
  <2> QED
    BY <2>3, Division, Bases
<1>2. BytesFromWord(w) \in [1..WordBytes -> Int]
  BY <1>1 DEF BytesFromWord
<1> QED
  BY <1>2, Bases

Sums(f, bytes) ==
    f = [i \in 0..WordBytes |-> IF i = 0 THEN 0 ELSE f[i - 1] * ByteBase + bytes[i]]

\* What the recursion of WordFromBytes computes.
LEMMA SumIs ==
    ASSUME NEW bytes \in [1..WordBytes -> Int]
    PROVE  \E f \in [0..WordBytes -> Int] :
              /\ f[0] = 0
              /\ \A i \in 1..WordBytes : f[i] = f[i - 1] * ByteBase + bytes[i]
              /\ WordFromBytes(bytes) =
                    IF f[WordBytes] \in Word THEN f[WordBytes]
                    ELSE f[WordBytes] - Power[WordBytes]
<1> DEFINE step == [i \in 1..WordBytes |-> [v \in Int |-> v * ByteBase + bytes[i]]]
<1>1. step \in [1..WordBytes -> [Int -> Int]]
  BY Bases
<1>2. PICK g \in [0..WordBytes -> Int] : Steps(g, WordBytes, 0, step)
  <2> HIDE DEF step
  <2>1. 0 \in Int /\ WordBytes \in Nat
    BY Bases
  <2> QED
    BY <1>1, <2>1, Recursion
<1>3. ASSUME NEW i \in 0..WordBytes
      PROVE  g[i] = IF i = 0 THEN 0 ELSE g[i - 1] * ByteBase + bytes[i]
  <2>1. CASE i = 0
    BY <1>2, <2>1 DEF Steps
  <2>2. CASE i # 0
    <3>1. i \in 1..WordBytes /\ i - 1 \in 0..WordBytes
      BY <2>2, Bases
    <3> QED
      BY <1>2, <2>2, <3>1 DEF Steps
  <2> QED
    BY <2>1, <2>2
<1>4. Sums(g, bytes)
  BY <1>3 DEF Sums
<1> DEFINE f == CHOOSE h : Sums(h, bytes)
<1>5. Sums(f, bytes)
  BY <1>4
<1>6. WordFromBytes(bytes) =
        IF f[WordBytes] \in Word THEN f[WordBytes] ELSE f[WordBytes] - Power[WordBytes]
  BY DEF WordFromBytes, Sums
<1> HIDE DEF f
<1>7. f = [i \in 0..WordBytes |-> IF i = 0 THEN 0 ELSE f[i - 1] * ByteBase + bytes[i]]
  BY <1>5 DEF Sums
<1> DEFINE T == {i \in 0..WordBytes : f[i] \in Int}
<1>8. 0 \in T
  BY <1>7, Bases
<1>9. ASSUME NEW i \in 0..WordBytes, i < WordBytes, i \in T PROVE i + 1 \in T
  <2>1. i + 1 \in 0..WordBytes /\ i + 1 # 0 /\ (i + 1) - 1 = i /\ i + 1 \in 1..WordBytes
    BY <1>9, Bases
  <2>2. f[i + 1] = f[i] * ByteBase + bytes[i + 1]
    BY <1>7, <2>1
  <2>3. bytes[i + 1] \in Int /\ f[i] \in Int /\ ByteBase \in Int
    BY <1>9, <2>1, Bases
  <2> QED
    BY <2>1, <2>2, <2>3
<1>10. 0..WordBytes \subseteq T
  <2> HIDE DEF T
  <2> QED
    BY <1>8, <1>9, UpTo, Bases
<1>11. f \in [0..WordBytes -> Int]
  BY <1>7, <1>10
<1>12. f[0] = 0
  BY <1>7, Bases
<1>13. ASSUME NEW i \in 1..WordBytes PROVE f[i] = f[i - 1] * ByteBase + bytes[i]
  <2>1. i \in 0..WordBytes /\ i # 0
    BY Bases
  <2> QED
    BY <1>7, <2>1
<1> QED
  BY <1>6, <1>11, <1>12, <1>13

\* A word reads as it was written.
LEMMA WordReads ==
    ASSUME NEW w \in Word
    PROVE  WordFromBytes(BytesFromWord(w)) = w
<1> DEFINE bytes == BytesFromWord(w)
           p == Power[WordBytes]
           q(j) == w \div Power[j]
<1>1. p \in Nat \ {0} /\ WordBytes \in 0..WordBytes
  BY PowerIs, Bases
<1>2. w \in Int
  BY <1>1 DEF Word
<1>3. PICK f \in [0..WordBytes -> Int] :
              /\ f[0] = 0
              /\ \A i \in 1..WordBytes : f[i] = f[i - 1] * ByteBase + bytes[i]
              /\ WordFromBytes(bytes) = IF f[WordBytes] \in Word THEN f[WordBytes]
                                        ELSE f[WordBytes] - p
  BY <1>2, BytesAre, SumIs
<1>4. \A j \in 0..WordBytes : q(j) \in Int
  BY <1>2, PowerIs, Division
<1> DEFINE T == {i \in 0..WordBytes : f[i] = q(WordBytes - i) - q(WordBytes) * Power[i]}
<1>5. 0 \in T
  <2>1. Power[0] = 1 /\ WordBytes - 0 = WordBytes /\ 0 \in 0..WordBytes
    BY PowerIs, Bases
  <2>2. q(WordBytes) \in Int
    BY <1>1, <1>4
  <2> HIDE DEF q
  <2>3. q(WordBytes - 0) - q(WordBytes) * Power[0] = 0
    BY <2>1, <2>2
  <2> QED
    BY <1>3, <2>1, <2>3
<1>6. ASSUME NEW i \in 0..WordBytes, i < WordBytes, i \in T PROVE i + 1 \in T
  <2> DEFINE j == WordBytes - (i + 1)
  <2>1. /\ i + 1 \in 1..WordBytes /\ i + 1 \in 0..WordBytes /\ (i + 1) - 1 = i
        /\ j \in 0..WordBytes /\ j + 1 = WordBytes - i /\ j + 1 \in 1..WordBytes
        /\ (j + 1) - 1 = j /\ j + 1 \in 0..WordBytes
    BY <1>6, Bases
  <2> HIDE DEF j
  <2>2. /\ Power[j + 1] = ByteBase * Power[j] /\ Power[i + 1] = ByteBase * Power[i]
        /\ Power[j] \in Nat \ {0} /\ Power[i] \in Nat \ {0}
    BY <2>1, PowerIs
  <2>3. bytes[i + 1] = (w \div Power[j]) % ByteBase
    BY <2>1 DEF BytesFromWord, j
  <2>4. q(j) = ByteBase * q(j + 1) + bytes[i + 1]
    BY <1>2, <2>2, <2>3, DivideOnce, Bases
  <2>5. f[i + 1] = f[i] * ByteBase + bytes[i + 1]
    BY <1>3, <2>1
  <2>6. f[i] = q(j + 1) - q(WordBytes) * Power[i]
    BY <1>6, <2>1
  <2>7. q(j) \in Int /\ q(j + 1) \in Int /\ q(WordBytes) \in Int /\ bytes[i + 1] \in Int
    BY <1>1, <1>2, <1>4, <2>1, BytesAre
  <2> HIDE DEF q, bytes
  <2>8. (q(j + 1) - q(WordBytes) * Power[i]) * ByteBase
          = ByteBase * q(j + 1) - q(WordBytes) * (ByteBase * Power[i])
    BY <2>2, <2>7, Bases
  <2>10. f[i + 1] = (ByteBase * q(j + 1) - q(WordBytes) * Power[i + 1]) + bytes[i + 1]
    BY <2>2, <2>5, <2>6, <2>8
  <2>11. ByteBase * q(j + 1) \in Int /\ q(WordBytes) * Power[i + 1] \in Int
    BY <2>2, <2>7, Bases
  <2>9. f[i + 1] = q(j) - q(WordBytes) * Power[i + 1]
    BY <2>4, <2>7, <2>10, <2>11
  <2> QED
    BY <2>1, <2>9 DEF j
<1>7. 0..WordBytes \subseteq T
  <2> HIDE DEF T
  <2> QED
    BY <1>5, <1>6, UpTo, Bases
<1>8. f[WordBytes] = w - q(WordBytes) * p
  <2>1. WordBytes - WordBytes = 0 /\ Power[0] = 1
    BY PowerIs, Bases
  <2>2. q(0) = w
    BY <1>2, <2>1
  <2>3. WordBytes \in T
    BY <1>1, <1>7
  <2> QED
    BY <2>1, <2>2, <2>3
<1> DEFINE h == p \div 2
<1>9. p = 2 * h /\ h \in Nat
  <2>1. p = ByteBase * Power[WordBytes - 1] /\ Power[WordBytes - 1] \in Nat \ {0}
    BY PowerIs, Bases
  <2>2. ByteBase = 2 * (ByteBase \div 2) /\ ByteBase \div 2 \in Nat
    BY Bases
  <2>3. p = 2 * ((ByteBase \div 2) * Power[WordBytes - 1])
    BY <2>1, <2>2
  <2>4. (ByteBase \div 2) * Power[WordBytes - 1] \in Nat
    BY <2>1, <2>2
  <2> HIDE DEF p
  <2> QED
    BY <2>3, <2>4
<1>10. -h <= w /\ w <= h - 1 /\ \A x \in Int : x \in Word <=> -h <= x /\ x <= h - 1
  BY <1>9 DEF Word
<1> HIDE DEF h
<1>11. CASE 0 <= w
  <2>1. w \in 0..(p - 1) /\ w = p * 0 + w
    BY <1>1, <1>2, <1>9, <1>10, <1>11
  <2>2. q(WordBytes) = 0
    BY <1>1, <1>2, <2>1, QuotientIs
  <2>3. f[WordBytes] = w
    BY <1>1, <1>2, <1>8, <2>2
  <2> QED
    BY <1>3, <2>3
<1>12. CASE w < 0
  <2>1. w + p \in 0..(p - 1) /\ w = p * (-1) + (w + p)
    BY <1>1, <1>2, <1>9, <1>10, <1>12
  <2> DEFINE x == -1
  <2>6. x \in Int /\ w = p * x + (w + p)
    BY <2>1
  <2> HIDE DEF x
  <2>7. w \div p = x
    BY <1>1, <1>2, <2>1, <2>6, QuotientIs
  <2>2. q(WordBytes) = -1
    BY <2>7 DEF x
  <2>3. f[WordBytes] = w + p
    BY <1>1, <1>2, <1>8, <2>2
  <2>4. f[WordBytes] \notin Word
    BY <1>1, <1>2, <1>9, <1>10, <2>3
  <2>5. (w + p) - p = w
    BY <1>1, <1>2
  <2> QED
    BY <1>3, <2>3, <2>4, <2>5
<1> QED
  BY <1>2, <1>11, <1>12

\* seq consists of the n sequences of ss, m elements each.
Chunks(seq, ss, n, m) ==
    /\ Len(seq) = n * m
    /\ \A i \in 1..n, j \in 1..m : seq[(i - 1) * m + j] = ss[i][j]

\* Sequences of one length, put one after the other.
LEMMA FlattenEqual ==
    ASSUME NEW S, NEW n \in Nat, NEW m \in Nat,
           NEW ss \in [1..n -> {s \in Seq(S) : Len(s) = m}]
    PROVE  FlattenSeq(ss) \in Seq(S) /\ Chunks(FlattenSeq(ss), ss, n, m)
<1>0. ss \in [1..n -> Seq(S)] /\ \A i \in 1..n : Len(ss[i]) = m
  OBVIOUS
<1>1. PICK f : Concats(f, ss, n, S)
  BY <1>0, ConcatsExist
<1>2. FlattenSeq(ss) = f[n]
  BY <1>0, <1>1, FlattenIs
<1>3. \A k \in 0..n : f[k] \in Seq(S)
  BY <1>1 DEF Concats
<1> DEFINE T == {k \in 0..n : /\ Len(f[k]) = k * m
                              /\ \A i \in 1..k, j \in 1..m : f[k][(i - 1) * m + j] = ss[i][j]}
<1>4. 0 \in T
  <2>1. f[0] = << >>
    BY <1>1 DEF Concats
  <2> QED
    BY <2>1
<1>5. ASSUME NEW k \in 0..n, k < n, k \in T PROVE k + 1 \in T
  <2>1. k + 1 \in 1..n /\ k + 1 \in 0..n /\ (k + 1) - 1 = k
    BY <1>5
  <2>2. f[k + 1] = f[k] \o ss[k + 1]
    BY <1>1, <2>1 DEF Concats
  <2>3. f[k] \in Seq(S) /\ ss[k + 1] \in Seq(S) /\ Len(f[k]) = k * m /\ Len(ss[k + 1]) = m
    BY <1>0, <1>3, <1>5, <2>1
  <2>4. k * m \in Nat /\ (k + 1) * m = k * m + m
    OBVIOUS
  <2>8. /\ Len(f[k] \o ss[k + 1]) = Len(f[k]) + Len(ss[k + 1])
        /\ \A x \in 1..(Len(f[k]) + Len(ss[k + 1])) :
              (f[k] \o ss[k + 1])[x] =
                IF x <= Len(f[k]) THEN f[k][x] ELSE ss[k + 1][x - Len(f[k])]
    BY <2>3, ConcatProperties, Zenon
  <2>5. Len(f[k + 1]) = (k + 1) * m
    BY <2>2, <2>3, <2>4, <2>8, Zenon
  <2>6. \A x \in 1..(k * m + m) : f[k + 1][x] = IF x <= k * m THEN f[k][x] ELSE ss[k + 1][x - k * m]
    BY <2>2, <2>3, <2>8, Zenon
  <2>7. ASSUME NEW i \in 1..(k + 1), NEW j \in 1..m
        PROVE  f[k + 1][(i - 1) * m + j] = ss[i][j]
    <3> DEFINE x == (i - 1) * m + j
    <3>1. CASE i = k + 1
      <4>1. x = k * m + j /\ k * m + j \in 1..(k * m + m) /\ ~(k * m + j <= k * m)
            /\ (k * m + j) - k * m = j
        BY <2>4, <3>1
      <4> HIDE DEF x
      <4>2. f[k + 1][x] = ss[k + 1][j]
        BY <2>6, <4>1
      <4> QED
        BY <3>1, <4>2 DEF x
    <3>2. CASE i <= k
      <4>1. i \in 1..k /\ f[k][x] = ss[i][j]
        BY <1>5, <3>2
      <4>2. i * m <= k * m /\ (i - 1) * m + m = i * m /\ (i - 1) * m \in Nat
        BY <3>2
      <4>5. i * m \in Nat /\ j \in Nat /\ 1 <= j /\ j <= m
        BY <3>2
      <4>6. \A y, z, u \in Nat :
               y + m = z /\ z <= u => y + j \in 1..(u + m) /\ y + j <= u
        BY <4>5
      <4>3. x \in 1..(k * m + m) /\ x <= k * m
        BY <2>4, <4>2, <4>5, <4>6, Zenon
      <4> HIDE DEF x
      <4>4. f[k + 1][x] = f[k][x]
        BY <2>6, <4>3
      <4> QED
        BY <4>1, <4>4 DEF x
    <3> QED
      BY <3>1, <3>2
  <2> QED
    BY <2>1, <2>5, <2>7
<1>6. 0..n \subseteq T
  <2> HIDE DEF T
  <2> QED
    BY <1>4, <1>5, UpTo
<1>7. n \in T /\ n \in 0..n
  BY <1>6
<1> QED
  BY <1>2, <1>3, <1>7 DEF Chunks

\* A blob is the bytes of its words, ...
LEMMA BlobIs ==
    ASSUME NEW words \in Seq(Word)
    PROVE  /\ BlobFromWords(words) \in Seq(Int)
           /\ Len(BlobFromWords(words)) = Len(words) * WordBytes
           /\ \A i \in 1..Len(words), j \in 1..WordBytes :
                 BlobFromWords(words)[(i - 1) * WordBytes + j] = BytesFromWord(words[i])[j]
<1> DEFINE n == Len(words)
           ss == [i \in 1..n |-> BytesFromWord(words[i])]
<1>1. n \in Nat /\ DOMAIN words = 1..n /\ WordBytes \in Nat
  BY Bases
<1>2. \A i \in 1..n : words[i] \in Int
  BY PowerIs, Bases DEF Word
<1>3. ss \in [1..n -> {s \in Seq(Int) : Len(s) = WordBytes}]
  BY <1>2, BytesAre
<1>4. BlobFromWords(words) = FlattenSeq(ss)
  BY <1>1 DEF BlobFromWords
<1> HIDE DEF ss
<1>5. FlattenSeq(ss) \in Seq(Int) /\ Chunks(FlattenSeq(ss), ss, n, WordBytes)
  BY <1>1, <1>3, FlattenEqual
<1>6. \A i \in 1..n : ss[i] = BytesFromWord(words[i])
  BY DEF ss
<1> QED
  BY <1>4, <1>5, <1>6 DEF Chunks

\* ... and reads as it was written.
LEMMA BlobReads ==
    ASSUME NEW words \in Seq(Word)
    PROVE  WordsFromBlob(BlobFromWords(words)) = words
<1> DEFINE n == Len(words)
           blob == BlobFromWords(words)
<1>1. n \in Nat /\ WordBytes \in Nat \ {0}
  BY Bases
<1>2. /\ blob \in Seq(Int) /\ Len(blob) = n * WordBytes
      /\ \A i \in 1..n, j \in 1..WordBytes :
            blob[(i - 1) * WordBytes + j] = BytesFromWord(words[i])[j]
  BY BlobIs
<1> HIDE DEF blob
<1>3. Len(blob) \div WordBytes = n
  <2>1. n * WordBytes \in Int /\ n * WordBytes = WordBytes * n + 0 /\ 0 \in 0..(WordBytes - 1)
    BY <1>1
  <2> QED
    BY <1>1, <1>2, <2>1, QuotientIs
<1>4. ASSUME NEW i \in 1..n
      PROVE  WordFromBytes(SubSeq(blob, (i - 1) * WordBytes + 1, i * WordBytes)) = words[i]
  <2> DEFINE lo == (i - 1) * WordBytes + 1
             hi == i * WordBytes
             bytes == BytesFromWord(words[i])
  <2>1. words[i] \in Word /\ words[i] \in Int
    BY PowerIs, Bases DEF Word
  <2>2. bytes \in Seq(Int) /\ Len(bytes) = WordBytes
    BY <2>1, BytesAre
  <2>3. /\ (i - 1) * WordBytes \in Nat /\ i * WordBytes = (i - 1) * WordBytes + WordBytes
        /\ i * WordBytes <= n * WordBytes
    BY <1>1
  <2>4. lo \in Int /\ hi \in Int /\ lo <= hi /\ hi - lo + 1 = WordBytes
        /\ \A x \in lo..hi : x \in 1..Len(blob)
    BY <1>1, <1>2, <2>3
  <2>5. \A j \in 1..WordBytes : lo + j - 1 = (i - 1) * WordBytes + j
    BY <1>1, <2>3
  <2> HIDE DEF lo, hi, bytes
  <2>6. \A x \in lo..hi : blob[x] \in Int
    BY <1>2, <2>4, ElementOfSeq
  <2>7. /\ SubSeq(blob, lo, hi) \in Seq(Int)
        /\ Len(SubSeq(blob, lo, hi)) = IF lo <= hi THEN hi - lo + 1 ELSE 0
        /\ \A j \in 1..(hi - lo + 1) : SubSeq(blob, lo, hi)[j] = blob[lo + j - 1]
    BY <2>4, <2>6, SubSeqProperties
  <2>8. Len(SubSeq(blob, lo, hi)) = WordBytes
    BY <2>4, <2>7
  <2>9. ASSUME NEW j \in 1..WordBytes PROVE SubSeq(blob, lo, hi)[j] = bytes[j]
    <3>1. j \in 1..(hi - lo + 1)
      BY <2>4
    <3>2. SubSeq(blob, lo, hi)[j] = blob[lo + j - 1]
      BY <2>7, <3>1
    <3>3. blob[(i - 1) * WordBytes + j] = bytes[j]
      BY <1>2 DEF bytes
    <3> QED
      BY <2>5, <3>2, <3>3
  <2>10. SubSeq(blob, lo, hi) = bytes
    BY <2>2, <2>7, <2>8, <2>9, SeqEqual
  <2> QED
    BY <2>1, <2>10, WordReads DEF lo, hi, bytes
<1>5. WordsFromBlob(blob) = [i \in 1..n |-> words[i]]
  BY <1>3, <1>4 DEF WordsFromBlob
<1> QED
  BY <1>5 DEF blob

-----------------------------------------------------------------------------
(* Rows.                                                                   *)

\* The last sequence comes last.
LEMMA FlattenStep ==
    ASSUME NEW S, NEW n \in Nat, NEW ss \in [1..(n + 1) -> Seq(S)]
    PROVE  FlattenSeq(ss) = FlattenSeq([i \in 1..n |-> ss[i]]) \o ss[n + 1]
<1> DEFINE tt == [i \in 1..n |-> ss[i]]
<1>1. n + 1 \in Nat /\ tt \in [1..n -> Seq(S)] /\ n + 1 \in 1..(n + 1)
  OBVIOUS
<1>2. PICK f : Concats(f, ss, n + 1, S)
  BY <1>1, ConcatsExist
<1> DEFINE g == [i \in 0..n |-> f[i]]
<1>3. Concats(g, tt, n, S)
  <2>1. g \in [0..n -> Seq(S)]
    BY <1>2 DEF Concats
  <2>2. g[0] = << >>
    BY <1>2 DEF Concats
  <2>3. ASSUME NEW i \in 1..n PROVE g[i] = g[i - 1] \o tt[i]
    <3>1. i \in 1..(n + 1) /\ i \in 0..n /\ i - 1 \in 0..n
      OBVIOUS
    <3>2. f[i] = f[i - 1] \o ss[i]
      BY <1>2, <3>1 DEF Concats
    <3> QED
      BY <3>1, <3>2
  <2> HIDE DEF g, tt
  <2> QED
    BY <2>1, <2>2, <2>3 DEF Concats
<1>4. FlattenSeq(ss) = f[n + 1] /\ FlattenSeq(tt) = g[n]
  <2> HIDE DEF g, tt
  <2> QED
    BY <1>1, <1>2, <1>3, FlattenIs
<1>5. f[n + 1] = f[n] \o ss[n + 1]
  <2>1. (n + 1) - 1 = n
    OBVIOUS
  <2> QED
    BY <1>1, <1>2, <2>1 DEF Concats
<1>6. g[n] = f[n]
  OBVIOUS
<1> QED
  BY <1>4, <1>5, <1>6

\* No sequences make the empty one.
LEMMA FlattenNone ==
    ASSUME NEW ss, ss \in [1..0 -> {}]
    PROVE  FlattenSeq(ss) = << >>
<1>1. ss = << >> /\ Len(ss) = 0
  OBVIOUS
<1> QED
  BY <1>1 DEF FlattenSeq

\* The elements of the sequences, and no others.
LEMMA FlattenRange ==
    ASSUME NEW S, NEW n \in Nat, NEW ss \in [1..n -> Seq(S)]
    PROVE  /\ FlattenSeq(ss) \in Seq(S)
           /\ \A x : x \in Range(FlattenSeq(ss)) <=> \E i \in 1..n : x \in Range(ss[i])
<1>1. PICK f : Concats(f, ss, n, S)
  BY ConcatsExist
<1>2. FlattenSeq(ss) = f[n]
  BY <1>1, FlattenIs
<1>3. \A k \in 0..n : f[k] \in Seq(S)
  BY <1>1 DEF Concats
<1> DEFINE T == {k \in 0..n : \A x : x \in Range(f[k]) <=> \E i \in 1..k : x \in Range(ss[i])}
<1>4. 0 \in T
  <2>1. f[0] = << >>
    BY <1>1 DEF Concats
  <2>2. Range(<< >>) = {}
    BY DEF Range
  <2> QED
    BY <2>1, <2>2
<1>5. ASSUME NEW k \in 0..n, k < n, k \in T PROVE k + 1 \in T
  <2>1. k + 1 \in 1..n /\ k + 1 \in 0..n /\ (k + 1) - 1 = k
    BY <1>5
  <2>2. f[k + 1] = f[k] \o ss[k + 1] /\ f[k] \in Seq(S) /\ ss[k + 1] \in Seq(S)
    BY <1>1, <1>3, <2>1 DEF Concats
  <2>3. Range(f[k + 1]) = Range(f[k]) \cup Range(ss[k + 1])
    BY <2>2, RangeConcatenation
  <2>4. \A i : i \in 1..(k + 1) <=> i \in 1..k \/ i = k + 1
    OBVIOUS
  <2>5. \A x : x \in Range(f[k]) <=> \E i \in 1..k : x \in Range(ss[i])
    BY <1>5
  <2>6. \A x : x \in Range(f[k + 1]) <=> \E i \in 1..(k + 1) : x \in Range(ss[i])
    BY <2>3, <2>4, <2>5, Zenon
  <2> QED
    BY <2>1, <2>6
<1>6. 0..n \subseteq T
  <2> HIDE DEF T
  <2> QED
    BY <1>4, <1>5, UpTo
<1>8. n \in 0..n
  OBVIOUS
<1>7. n \in T
  <2> HIDE DEF T
  <2> QED
    BY <1>6, <1>8
<1> QED
  BY <1>2, <1>3, <1>7, <1>8, Zenon

\* f is what InSolution finds on its way.
Founds(f, rows, i) ==
    f = [n \in 0..Len(rows) |->
            IF n = 0 THEN << >>
            ELSE IF rows[n].solution = i THEN Append(f[n - 1], rows[n])
            ELSE f[n - 1]]

\* f[n] holds the rows of the solution among the first n.
Finds(f, rows, i, S) ==
    /\ f \in [0..Len(rows) -> Seq(S)]
    /\ f[0] = << >>
    /\ \A n \in 1..Len(rows) :
          f[n] = IF rows[n].solution = i THEN Append(f[n - 1], rows[n]) ELSE f[n - 1]

\* The rows found among the first n exist.
LEMMA FindsExist ==
    ASSUME NEW S, NEW rows \in Seq(S), NEW i
    PROVE  \E f : Finds(f, rows, i, S)
<1> DEFINE len == Len(rows)
           step == [n \in 1..len |-> [s \in Seq(S) |->
                      IF rows[n].solution = i THEN Append(s, rows[n]) ELSE s]]
<1>1. len \in Nat /\ \A n \in 1..len : rows[n] \in S
  BY ElementOfSeq, LenProperties
<1>2. << >> \in Seq(S)
  BY EmptySeq
<1>3. step \in [1..len -> [Seq(S) -> Seq(S)]]
  BY <1>1, AppendProperties
<1>4. PICK f \in [0..len -> Seq(S)] : Steps(f, len, << >>, step)
  <2> HIDE DEF step, len
  <2> QED
    BY <1>1, <1>2, <1>3, Recursion
<1>5. ASSUME NEW n \in 1..len
      PROVE  f[n] = IF rows[n].solution = i THEN Append(f[n - 1], rows[n]) ELSE f[n - 1]
  <2>1. n - 1 \in 0..len
    BY <1>1
  <2> QED
    BY <1>4, <2>1 DEF Steps
<1>6. f[0] = << >>
  BY <1>4 DEF Steps
<1> QED
  BY <1>4, <1>5, <1>6 DEF Finds

\* InSolution finds them.
LEMMA InSolutionIs ==
    ASSUME NEW S, NEW rows \in Seq(S), NEW i, NEW f, Finds(f, rows, i, S)
    PROVE  InSolution(rows, i) = f[Len(rows)]
<1> DEFINE len == Len(rows)
           g == CHOOSE h : Founds(h, rows, i)
<1>1. len \in Nat
  BY LenProperties
<1>2. ASSUME NEW n \in 0..len
      PROVE  f[n] = IF n = 0 THEN << >>
                    ELSE IF rows[n].solution = i THEN Append(f[n - 1], rows[n])
                    ELSE f[n - 1]
  <2>1. CASE n = 0
    BY <2>1 DEF Finds
  <2>2. CASE n # 0
    <3>1. n \in 1..len
      BY <1>1, <2>2
    <3> QED
      BY <2>2, <3>1 DEF Finds
  <2> QED
    BY <2>1, <2>2
<1>3. Founds(f, rows, i)
  BY <1>2 DEF Founds, Finds
<1>4. Founds(g, rows, i)
  BY <1>3
<1>5. InSolution(rows, i) = g[len]
  BY DEF InSolution, Founds
<1> HIDE DEF g
<1>6. g = [n \in 0..len |->
             IF n = 0 THEN << >>
             ELSE IF rows[n].solution = i THEN Append(g[n - 1], rows[n])
             ELSE g[n - 1]]
  BY <1>4 DEF Founds
<1> HIDE DEF len
<1> DEFINE T == {n \in 0..len : g[n] = f[n]}
<1>7. 0 \in T
  <2>1. 0 \in 0..len
    BY <1>1
  <2> QED
    BY <1>2, <1>6, <2>1
<1>8. ASSUME NEW n \in 0..len, n < len, n \in T PROVE n + 1 \in T
  <2>1. n + 1 \in 0..len /\ n + 1 # 0 /\ (n + 1) - 1 = n
    BY <1>1, <1>8
  <2>2. g[n + 1] = IF rows[n + 1].solution = i THEN Append(g[n], rows[n + 1]) ELSE g[n]
    BY <1>6, <2>1
  <2>3. f[n + 1] = IF rows[n + 1].solution = i THEN Append(f[n], rows[n + 1]) ELSE f[n]
    BY <1>2, <2>1
  <2>4. g[n + 1] = f[n + 1]
    BY <1>8, <2>2, <2>3
  <2> QED
    BY <2>1, <2>4
<1>9. 0..len \subseteq T
  <2> HIDE DEF T
  <2> QED
    BY <1>1, <1>7, <1>8, UpTo
<1>10. len \in T
  BY <1>1, <1>9
<1> QED
  BY <1>5, <1>10 DEF len

\* Equality, for the sequences of the next lemmas: the provers then do not
\* compare them element by element.
Same(s, t) == s = t

\* What is appended to both is appended to the second.
LEMMA AppendMoves ==
    ASSUME NEW S, NEW s \in Seq(S), NEW t \in Seq(S), NEW e \in S
    PROVE  Same(Append(s \o t, e), s \o Append(t, e))
<1>1. <<e>> \in Seq(S) /\ s \o t \in Seq(S)
  BY ConcatProperties
<1>2. Append(t, e) = t \o <<e>> /\ Append(s \o t, e) = (s \o t) \o <<e>>
  BY <1>1, AppendIsConcat
<1>3. (s \o t) \o <<e>> = s \o (t \o <<e>>)
  BY <1>1, ConcatAssociative
<1> QED
  BY <1>2, <1>3 DEF Same

\* Concatenation is associative.
LEMMA Regroup ==
    ASSUME NEW S, NEW s \in Seq(S), NEW t \in Seq(S), NEW u \in Seq(S)
    PROVE  Same((s \o t) \o u, s \o (t \o u))
BY ConcatAssociative DEF Same

\* The rows of a solution in two sequences.
LEMMA InSolutionConcat ==
    ASSUME NEW S, NEW rows \in Seq(S), NEW more \in Seq(S), NEW i
    PROVE  Same(InSolution(rows \o more, i), InSolution(rows, i) \o InSolution(more, i))
<1> DEFINE l == Len(rows)
           m == Len(more)
           all == rows \o more
<1>1. l \in Nat /\ m \in Nat
  BY LenProperties
<1>2. /\ all \in Seq(S) /\ Len(all) = l + m
      /\ \A n \in 1..(l + m) : all[n] = IF n <= l THEN rows[n] ELSE more[n - l]
  BY ConcatProperties, Zenon
<1>3. \A n \in 1..l : rows[n] \in S
  BY ElementOfSeq
<1>4. \A n \in 1..m : more[n] \in S
  BY ElementOfSeq
<1>5. PICK f : Finds(f, rows, i, S)
  BY FindsExist
<1>6. PICK g : Finds(g, more, i, S)
  BY FindsExist
<1>7. PICK h : Finds(h, all, i, S)
  BY <1>2, FindsExist
<1>8. InSolution(rows, i) = f[l] /\ InSolution(more, i) = g[m] /\ InSolution(all, i) = h[l + m]
  BY <1>2, <1>5, <1>6, <1>7, InSolutionIs
<1> HIDE DEF l, m, all
<1>9. /\ f \in [0..l -> Seq(S)] /\ f[0] = << >>
      /\ \A n \in 1..l : f[n] = IF rows[n].solution = i THEN Append(f[n - 1], rows[n]) ELSE f[n - 1]
  BY <1>5 DEF Finds, l
<1>10. /\ g \in [0..m -> Seq(S)] /\ g[0] = << >>
       /\ \A n \in 1..m : g[n] = IF more[n].solution = i THEN Append(g[n - 1], more[n]) ELSE g[n - 1]
  BY <1>6 DEF Finds, m
<1>11. /\ h[0] = << >>
       /\ \A n \in 1..(l + m) : h[n] = IF all[n].solution = i THEN Append(h[n - 1], all[n]) ELSE h[n - 1]
  BY <1>2, <1>7 DEF Finds
<1> DEFINE T == {n \in 0..l : h[n] = f[n]}
<1>12. 0 \in T
  BY <1>1, <1>9, <1>11
<1>13. ASSUME NEW n \in 0..l, n < l, n \in T PROVE n + 1 \in T
  <2>1. n + 1 \in 1..l /\ n + 1 \in 1..(l + m) /\ (n + 1) - 1 = n /\ n + 1 <= l /\ n + 1 \in 0..l
    BY <1>1, <1>13
  <2>2. all[n + 1] = rows[n + 1]
    BY <1>2, <2>1
  <2>3. f[n + 1] = IF rows[n + 1].solution = i THEN Append(f[n], rows[n + 1]) ELSE f[n]
    BY <1>9, <2>1
  <2>4. h[n + 1] = IF all[n + 1].solution = i THEN Append(h[n], all[n + 1]) ELSE h[n]
    BY <1>11, <2>1
  <2>5. h[n + 1] = f[n + 1]
    BY <1>13, <2>2, <2>3, <2>4
  <2> QED
    BY <2>1, <2>5
<1>14. 0..l \subseteq T
  <2> HIDE DEF T
  <2> QED
    BY <1>1, <1>12, <1>13, UpTo
<1>15. h[l] = f[l] /\ f[l] \in Seq(S)
  <2>1. l \in 0..l
    BY <1>1
  <2> QED
    BY <1>9, <1>14, <2>1
<1> DEFINE U == {n \in 0..m : h[l + n] = f[l] \o g[n]}
<1>16. 0 \in U
  <2>1. 0 \in 0..m /\ l + 0 = l
    BY <1>1
  <2>2. f[l] \o << >> = f[l]
    BY <1>15, ConcatEmptySeq
  <2> QED
    BY <1>10, <1>15, <2>1, <2>2
<1>17. ASSUME NEW n \in 0..m, n < m, n \in U PROVE n + 1 \in U
  <2>1. /\ n + 1 \in 1..m /\ l + (n + 1) \in 1..(l + m) /\ (n + 1) - 1 = n /\ n + 1 \in 0..m
        /\ (l + (n + 1)) - 1 = l + n /\ ~(l + (n + 1) <= l) /\ (l + (n + 1)) - l = n + 1
    BY <1>1, <1>17
  <2>2. all[l + (n + 1)] = more[n + 1]
    BY <1>2, <2>1
  <2>3. g[n + 1] = IF more[n + 1].solution = i THEN Append(g[n], more[n + 1]) ELSE g[n]
    BY <1>10, <2>1
  <2>4. h[l + (n + 1)] = IF more[n + 1].solution = i THEN Append(h[l + n], more[n + 1]) ELSE h[l + n]
    BY <1>11, <2>1, <2>2
  <2>5. g[n] \in Seq(S) /\ more[n + 1] \in S /\ h[l + n] = f[l] \o g[n]
    BY <1>4, <1>10, <1>17, <2>1 DEF m
  <2>6. Append(f[l] \o g[n], more[n + 1]) = f[l] \o Append(g[n], more[n + 1])
    <3>1. Same(Append(f[l] \o g[n], more[n + 1]), f[l] \o Append(g[n], more[n + 1]))
      BY <1>15, <2>5, AppendMoves
    <3> QED
      BY <3>1 DEF Same
  <2>7. h[l + (n + 1)] = f[l] \o g[n + 1]
    <3>1. CASE more[n + 1].solution = i
      BY <2>3, <2>4, <2>5, <2>6, <3>1
    <3>2. CASE more[n + 1].solution # i
      BY <2>3, <2>4, <2>5, <3>2
    <3> QED
      BY <3>1, <3>2
  <2> QED
    BY <2>1, <2>7
<1>18. 0..m \subseteq U
  <2> HIDE DEF U
  <2> QED
    BY <1>1, <1>16, <1>17, UpTo
<1>19. m \in U
  <2>1. m \in 0..m
    BY <1>1
  <2> HIDE DEF U
  <2> QED
    BY <1>18, <2>1
<1> QED
  BY <1>8, <1>19 DEF all, Same

\* Rows of another solution, ...
LEMMA InSolutionNone ==
    ASSUME NEW S, NEW rows \in Seq(S), NEW i, \A n \in 1..Len(rows) : rows[n].solution # i
    PROVE  Same(InSolution(rows, i), << >>)
<1> DEFINE f == [n \in 0..Len(rows) |-> << >>]
<1>1. Len(rows) \in Nat /\ << >> \in Seq(S)
  BY LenProperties, EmptySeq
<1>2. Finds(f, rows, i, S)
  BY <1>1 DEF Finds
<1>3. InSolution(rows, i) = f[Len(rows)]
  <2> HIDE DEF f
  <2> QED
    BY <1>2, InSolutionIs
<1> QED
  BY <1>1, <1>3 DEF Same

\* ... and of this one.
LEMMA InSolutionAll ==
    ASSUME NEW S, NEW rows \in Seq(S), NEW i, \A n \in 1..Len(rows) : rows[n].solution = i
    PROVE  Same(InSolution(rows, i), rows)
<1> DEFINE len == Len(rows)
           f == [n \in 0..len |-> SubSeq(rows, 1, n)]
<1>1. len \in Nat /\ \A n \in 1..len : rows[n] \in S
  BY LenProperties, ElementOfSeq
<1>2. \A n \in 0..len : SubSeq(rows, 1, n) \in Seq(S)
  BY <1>1, SubSeqProperties
<1>3. SubSeq(rows, 1, 0) = << >>
  BY SubSeqEmpty
<1>4. ASSUME NEW n \in 1..len PROVE SubSeq(rows, 1, n) = Append(SubSeq(rows, 1, n - 1), rows[n])
  <2>1. n \in 1..Len(rows) /\ 1 \in 1..Len(rows) /\ n - 1 \in 0..len
    BY <1>1
  <2>2. SubSeq(rows, 1, n) = SubSeq(rows, 1, n - 1) \o <<rows[n]>>
    BY <2>1, SubSeqRecursiveSecond
  <2>3. SubSeq(rows, 1, n - 1) \in Seq(S) /\ rows[n] \in S
    BY <1>1, <1>2, <2>1
  <2> QED
    BY <2>2, <2>3, AppendIsConcat
<1>5. f \in [0..len -> Seq(S)]
  BY <1>2
<1>6. f[0] = << >>
  BY <1>1, <1>3
<1>7. \A n \in 1..len : f[n] = Append(f[n - 1], rows[n])
  <2> SUFFICES ASSUME NEW n \in 1..len PROVE f[n] = Append(f[n - 1], rows[n])
    OBVIOUS
  <2>1. n \in 0..len /\ n - 1 \in 0..len
    BY <1>1
  <2> QED
    BY <1>4, <2>1
<1> HIDE DEF f
<1>8. Finds(f, rows, i, S)
  BY <1>5, <1>6, <1>7 DEF Finds
<1>9. InSolution(rows, i) = f[len]
  BY <1>8, InSolutionIs
<1>10. f[len] = SubSeq(rows, 1, len)
  BY <1>1 DEF f
<1> QED
  BY <1>9, <1>10, SubSeqFull DEF Same

\* Nothing is found among no rows.
LEMMA InSolutionEmpty ==
    ASSUME NEW i
    PROVE  InSolution(<< >>, i) = << >>
<1>1. << >> \in Seq({}) /\ Len(<< >>) = 0 /\ \A n \in 1..Len(<< >>) : FALSE
  OBVIOUS
<1>2. Same(InSolution(<< >>, i), << >>)
  BY <1>1, InSolutionNone
<1> QED
  BY <1>2 DEF Same

\* The rows of one solution among those of all.
LEMMA InSolutionGroups ==
    ASSUME NEW S, NEW n \in Nat, NEW ss \in [1..n -> Seq(S)], NEW i \in 1..n,
           \A k \in 1..n : \A j \in 1..Len(ss[k]) : ss[k][j].solution = k
    PROVE  Same(InSolution(FlattenSeq(ss), i), ss[i])
<1>1. PICK f : Concats(f, ss, n, S)
  BY ConcatsExist
<1>2. FlattenSeq(ss) = f[n]
  BY <1>1, FlattenIs
<1>3. \A k \in 0..n : f[k] \in Seq(S)
  BY <1>1 DEF Concats
<1>4. << >> \in Seq(S) /\ Len(<< >>) = 0
  BY EmptySeq
<1> DEFINE T == {k \in 0..n : Same(InSolution(f[k], i), IF i <= k THEN ss[i] ELSE << >>)}
<1>5. 0 \in T
  <2>1. f[0] = << >> /\ ~(i <= 0)
    BY <1>1 DEF Concats
  <2>2. InSolution(<< >>, i) = << >>
    BY InSolutionEmpty
  <2> QED
    BY <2>1, <2>2 DEF Same
<1>6. ASSUME NEW k \in 0..n, k < n, k \in T PROVE k + 1 \in T
  <2>1. k + 1 \in 1..n /\ k + 1 \in 0..n /\ (k + 1) - 1 = k
    BY <1>6
  <2>2. f[k + 1] = f[k] \o ss[k + 1] /\ f[k] \in Seq(S) /\ ss[k + 1] \in Seq(S)
    BY <1>1, <1>3, <2>1 DEF Concats
  <2>7. Same(InSolution(f[k] \o ss[k + 1], i), InSolution(f[k], i) \o InSolution(ss[k + 1], i))
    BY <2>2, InSolutionConcat
  <2>3. InSolution(f[k + 1], i) = InSolution(f[k], i) \o InSolution(ss[k + 1], i)
    BY <2>2, <2>7 DEF Same
  <2>4. InSolution(f[k], i) = IF i <= k THEN ss[i] ELSE << >>
    BY <1>6 DEF Same
  <2>5. CASE i = k + 1
    <3>1. ~(i <= k) /\ i <= k + 1
      BY <2>5
    <3>2. \A j \in 1..Len(ss[k + 1]) : ss[k + 1][j].solution = i
      BY <2>1, <2>5
    <3>6. Same(InSolution(ss[k + 1], i), ss[k + 1])
      BY <2>2, <3>2, InSolutionAll
    <3>3. InSolution(ss[k + 1], i) = ss[i]
      BY <2>5, <3>6 DEF Same
    <3>4. << >> \o ss[i] = ss[i]
      BY <2>2, <2>5, ConcatEmptySeq
    <3>5. InSolution(f[k + 1], i) = ss[i]
      BY <2>3, <2>4, <3>1, <3>3, <3>4
    <3> QED
      BY <2>1, <3>1, <3>5 DEF Same
  <2>6. CASE i # k + 1
    <3>1. i <= k <=> i <= k + 1
      BY <2>1, <2>6
    <3>2. \A j \in 1..Len(ss[k + 1]) : ss[k + 1][j].solution # i
      BY <2>1, <2>6
    <3>8. Same(InSolution(ss[k + 1], i), << >>)
      BY <2>2, <3>2, InSolutionNone
    <3>3. InSolution(ss[k + 1], i) = << >>
      BY <3>8 DEF Same
    <3> DEFINE u == IF i <= k THEN ss[i] ELSE << >>
    <3>4. u \in Seq(S)
      BY <1>4
    <3>5. u \o << >> = u
      BY <3>4, ConcatEmptySeq
    <3>6. InSolution(f[k + 1], i) = u
      BY <2>3, <2>4, <3>3, <3>5
    <3>7. Same(InSolution(f[k + 1], i), IF i <= k + 1 THEN ss[i] ELSE << >>)
      BY <3>1, <3>6 DEF Same
    <3> QED
      BY <2>1, <3>7
  <2> QED
    BY <2>5, <2>6
<1>7. n \in T
  <2>1. n \in 0..n
    OBVIOUS
  <2> HIDE DEF T
  <2> QED
    BY <1>5, <1>6, <2>1, UpTo
<1>8. i <= n
  OBVIOUS
<1> QED
  BY <1>2, <1>7, <1>8 DEF Same

\* Rows n times and once more.
LEMMA RepeatedIs ==
    ASSUME NEW S, NEW rows \in Seq(S), NEW n \in Nat
    PROVE  /\ Repeated(rows, 0) = << >>
           /\ Repeated(rows, n) \in Seq(S)
           /\ Repeated(rows, n + 1) = Repeated(rows, n) \o rows
<1>1. Repeated(rows, 0) = << >>
  <2> DEFINE ss == [i \in 1..0 |-> rows]
  <2>1. ss \in [1..0 -> {}]
    OBVIOUS
  <2> QED
    BY <2>1, FlattenNone DEF Repeated
<1>2. Repeated(rows, n) \in Seq(S)
  <2> DEFINE ss == [i \in 1..n |-> rows]
  <2>1. ss \in [1..n -> Seq(S)]
    OBVIOUS
  <2>2. FlattenSeq(ss) \in Seq(S)
    <3> HIDE DEF ss
    <3> QED
      BY <2>1, FlattenRange
  <2> QED
    BY <2>2 DEF Repeated
<1>3. Repeated(rows, n + 1) = Repeated(rows, n) \o rows
  <2> DEFINE ss == [i \in 1..(n + 1) |-> rows]
             tt == [i \in 1..n |-> ss[i]]
  <2>1. ss \in [1..(n + 1) -> Seq(S)] /\ ss[n + 1] = rows
    OBVIOUS
  <2>2. tt = [i \in 1..n |-> rows]
    OBVIOUS
  <2>3. FlattenSeq(ss) = FlattenSeq(tt) \o ss[n + 1]
    <3> HIDE DEF ss
    <3> QED
      BY <2>1, FlattenStep
  <2>4. Repeated(rows, n + 1) = FlattenSeq(ss) /\ Repeated(rows, n) = FlattenSeq(tt)
    BY <2>2 DEF Repeated
  <2> HIDE DEF ss, tt
  <2> QED
    BY <2>1, <2>3, <2>4
<1> QED
  BY <1>1, <1>2, <1>3

\* Rows once are the rows.
LEMMA RepeatedOnce ==
    ASSUME NEW S, NEW rows \in Seq(S)
    PROVE  Same(Repeated(rows, 1), rows)
<1>1. Repeated(rows, 0 + 1) = Repeated(rows, 0) \o rows /\ Repeated(rows, 0) = << >>
  BY RepeatedIs
<1>2. << >> \o rows = rows
  BY ConcatEmptySeq
<1> QED
  BY <1>1, <1>2 DEF Same

\* Rows m times and then n times are there m + n times.
LEMMA RepeatedSum ==
    ASSUME NEW S, NEW rows \in Seq(S), NEW m \in Nat, NEW n \in Nat
    PROVE  Same(Repeated(rows, m) \o Repeated(rows, n), Repeated(rows, m + n))
<1> DEFINE T == {k \in 0..n : Same(Repeated(rows, m) \o Repeated(rows, k), Repeated(rows, m + k))}
<1>1. 0 \in T
  <2>1. Repeated(rows, 0) = << >> /\ Repeated(rows, m) \in Seq(S) /\ m + 0 = m
    BY RepeatedIs
  <2>2. Repeated(rows, m) \o << >> = Repeated(rows, m)
    BY <2>1, ConcatEmptySeq
  <2> QED
    BY <2>1, <2>2 DEF Same
<1>2. ASSUME NEW k \in 0..n, k < n, k \in T PROVE k + 1 \in T
  <2>1. k \in Nat /\ m + k \in Nat /\ m + (k + 1) = (m + k) + 1 /\ k + 1 \in 0..n
    BY <1>2
  <2>2. /\ Repeated(rows, k + 1) = Repeated(rows, k) \o rows /\ Repeated(rows, k) \in Seq(S)
    BY <2>1, RepeatedIs
  <2>3. Repeated(rows, (m + k) + 1) = Repeated(rows, m + k) \o rows /\ Repeated(rows, m) \in Seq(S)
    BY <2>1, RepeatedIs
  <2>4. Same((Repeated(rows, m) \o Repeated(rows, k)) \o rows,
             Repeated(rows, m) \o (Repeated(rows, k) \o rows))
    BY <2>2, <2>3, Regroup
  <2>5. Repeated(rows, m) \o Repeated(rows, k) = Repeated(rows, m + k)
    BY <1>2 DEF Same
  <2>6. Same(Repeated(rows, m) \o Repeated(rows, k + 1), Repeated(rows, m + (k + 1)))
    BY <2>1, <2>2, <2>3, <2>4, <2>5 DEF Same
  <2> QED
    BY <2>1, <2>6
<1>3. n \in T
  <2>1. n \in 0..n
    OBVIOUS
  <2> HIDE DEF T
  <2> QED
    BY <1>1, <1>2, <2>1, UpTo
<1> QED
  BY <1>3

\* Rows that are found are rows.
LEMMA InSolutionTyped ==
    ASSUME NEW S, NEW rows \in Seq(S), NEW i
    PROVE  InSolution(rows, i) \in Seq(S)
<1>1. PICK f : Finds(f, rows, i, S)
  BY FindsExist
<1>2. InSolution(rows, i) = f[Len(rows)]
  BY <1>1, InSolutionIs
<1>3. Len(rows) \in 0..Len(rows)
  BY LenProperties
<1> QED
  BY <1>1, <1>2, <1>3 DEF Finds

\* Rows n times hold n times the rows of a solution.
LEMMA RepeatedFinds ==
    ASSUME NEW S, NEW rows \in Seq(S), NEW n \in Nat, NEW i
    PROVE  Len(InSolution(Repeated(rows, n), i)) = n * Len(InSolution(rows, i))
<1> DEFINE found == InSolution(rows, i)
           T == {k \in 0..n : Len(InSolution(Repeated(rows, k), i)) = k * Len(found)}
<1>1. \A s \in Seq(S) : InSolution(s, i) \in Seq(S)
  BY InSolutionTyped
<1>2. found \in Seq(S) /\ Len(found) \in Nat
  BY <1>1, LenProperties
<1>3. 0 \in T
  <2>1. << >> \in Seq(S) /\ Len(<< >>) = 0 /\ Repeated(rows, 0) = << >>
    BY EmptySeq, RepeatedIs
  <2>2. InSolution(<< >>, i) = << >>
    BY InSolutionEmpty
  <2> QED
    BY <1>2, <2>1, <2>2
<1>4. ASSUME NEW k \in 0..n, k < n, k \in T PROVE k + 1 \in T
  <2>1. k \in Nat /\ k + 1 \in 0..n
    BY <1>4
  <2>2. Repeated(rows, k + 1) = Repeated(rows, k) \o rows /\ Repeated(rows, k) \in Seq(S)
    BY <2>1, RepeatedIs
  <2>7. Same(InSolution(Repeated(rows, k) \o rows, i), InSolution(Repeated(rows, k), i) \o found)
    BY <2>2, InSolutionConcat
  <2>3. InSolution(Repeated(rows, k + 1), i) = InSolution(Repeated(rows, k), i) \o found
    BY <2>2, <2>7 DEF Same
  <2>4. InSolution(Repeated(rows, k), i) \in Seq(S)
    BY <1>1, <2>2
  <2>5. Len(InSolution(Repeated(rows, k), i) \o found) = k * Len(found) + Len(found)
    BY <1>2, <1>4, <2>4, ConcatProperties
  <2>6. k * Len(found) + Len(found) = (k + 1) * Len(found)
    <3> HIDE DEF found
    <3>1. \A x \in Nat : k * x + x = (k + 1) * x
      BY <2>1
    <3> QED
      BY <1>2, <3>1, Zenon
  <2> QED
    BY <2>1, <2>3, <2>5, <2>6
<1>5. n \in T
  <2>1. n \in 0..n
    OBVIOUS
  <2> HIDE DEF T
  <2> QED
    BY <1>3, <1>4, <2>1, UpTo
<1> QED
  BY <1>5

-----------------------------------------------------------------------------
(* The rows of a solution set.                                             *)

Solution == [contract : Contracts, mutations : Seq(Seq(Word) \X Seq(Word)), data : Seq(Seq(Word))]
MutationRow == [solution : Nat, index : Nat, key : Seq(Int), value : Seq(Int)]
PredDataRow == [solution : Nat, index : Nat, value : Seq(Int)]

\* The rows of each solution of a set.
MutationGroups(s) ==
    [i \in DOMAIN Solutions[s] |->
        [j \in DOMAIN Solutions[s][i].mutations |->
            [solution |-> i, index |-> j,
             key |-> BlobFromWords(Solutions[s][i].mutations[j][1]),
             value |-> BlobFromWords(Solutions[s][i].mutations[j][2])]]]

PredDataGroups(s) ==
    [i \in DOMAIN Solutions[s] |->
        [j \in DOMAIN Solutions[s][i].data |->
            [solution |-> i, index |-> j, value |-> BlobFromWords(Solutions[s][i].data[j])]]]

\* The solutions of a set.
LEMMA SolutionsAre ==
    ASSUME NEW s \in SolutionSets
    PROVE  /\ Len(Solutions[s]) \in Nat /\ DOMAIN Solutions[s] = 1..Len(Solutions[s])
           /\ Solutions[s] = [i \in 1..Len(Solutions[s]) |-> Solutions[s][i]]
           /\ \A i \in 1..Len(Solutions[s]) : Solutions[s][i] \in Solution
<1>1. Solutions[s] \in Seq(Solution)
  BY StoreAssumption DEF StoreAssumption, Solution
<1> QED
  BY <1>1, ElementOfSeq, LenProperties

\* One solution.
LEMMA SolutionIs ==
    ASSUME NEW s \in SolutionSets, NEW i \in 1..Len(Solutions[s])
    PROVE  /\ Solutions[s][i].mutations \in Seq(Seq(Word) \X Seq(Word))
           /\ Solutions[s][i].data \in Seq(Seq(Word))
           /\ Solutions[s][i] = [contract  |-> Solutions[s][i].contract,
                                 mutations |-> Solutions[s][i].mutations,
                                 data      |-> Solutions[s][i].data]
<1>1. Solutions[s][i] \in Solution
  BY SolutionsAre
<1> QED
  BY <1>1 DEF Solution

\* The rows of table mutation of each solution are its mutations.
LEMMA MutationGroupsAre ==
    ASSUME NEW s \in SolutionSets
    PROVE  /\ MutationGroups(s) \in [1..Len(Solutions[s]) -> Seq(MutationRow)]
           /\ \A i \in 1..Len(Solutions[s]) :
                 /\ Len(MutationGroups(s)[i]) = Len(Solutions[s][i].mutations)
                 /\ \A j \in 1..Len(Solutions[s][i].mutations) :
                       MutationGroups(s)[i][j] =
                          [solution |-> i, index |-> j,
                           key |-> BlobFromWords(Solutions[s][i].mutations[j][1]),
                           value |-> BlobFromWords(Solutions[s][i].mutations[j][2])]
<1>1. ASSUME NEW i \in 1..Len(Solutions[s])
      PROVE  /\ MutationGroups(s)[i] \in Seq(MutationRow)
             /\ Len(MutationGroups(s)[i]) = Len(Solutions[s][i].mutations)
             /\ \A j \in 1..Len(Solutions[s][i].mutations) :
                   MutationGroups(s)[i][j] =
                      [solution |-> i, index |-> j,
                       key |-> BlobFromWords(Solutions[s][i].mutations[j][1]),
                       value |-> BlobFromWords(Solutions[s][i].mutations[j][2])]
  <2> DEFINE ms == Solutions[s][i].mutations
             row(j) == [solution |-> i, index |-> j,
                        key |-> BlobFromWords(ms[j][1]), value |-> BlobFromWords(ms[j][2])]
  <2>1. ms \in Seq(Seq(Word) \X Seq(Word)) /\ Len(ms) \in Nat /\ DOMAIN ms = 1..Len(ms)
    BY SolutionIs, LenProperties
  <2>2. ASSUME NEW j \in 1..Len(ms) PROVE row(j) \in MutationRow
    <3>1. ms[j] \in Seq(Word) \X Seq(Word)
      BY <2>1, ElementOfSeq
    <3>2. ms[j][1] \in Seq(Word) /\ ms[j][2] \in Seq(Word)
      BY <3>1
    <3>3. BlobFromWords(ms[j][1]) \in Seq(Int) /\ BlobFromWords(ms[j][2]) \in Seq(Int)
      BY <3>2, BlobIs
    <3>4. i \in Nat /\ j \in Nat
      BY <2>1, SolutionsAre
    <3> HIDE DEF ms
    <3> QED
      BY <3>3, <3>4 DEF MutationRow
  <2>3. MutationGroups(s)[i] = [j \in 1..Len(ms) |-> row(j)]
    BY <2>1, SolutionsAre DEF MutationGroups
  <2> HIDE DEF ms, row
  <2>4. [j \in 1..Len(ms) |-> row(j)] \in [1..Len(ms) -> MutationRow]
    BY <2>2
  <2>5. \A j \in 1..Len(ms) : MutationGroups(s)[i][j] = row(j)
    BY <2>3
  <2>7. Len(ms) \in Nat /\ MutationGroups(s)[i] \in [1..Len(ms) -> MutationRow]
    BY <2>1, <2>3, <2>4
  <2>6. MutationGroups(s)[i] \in Seq(MutationRow) /\ Len(MutationGroups(s)[i]) = Len(ms)
    BY <2>7, SequenceIs
  <2> QED
    BY <2>5, <2>6 DEF ms, row
<1>2. MutationGroups(s) \in [1..Len(Solutions[s]) -> Seq(MutationRow)]
  <2>1. DOMAIN MutationGroups(s) = 1..Len(Solutions[s])
    BY SolutionsAre DEF MutationGroups
  <2>2. MutationGroups(s) = [i \in DOMAIN MutationGroups(s) |-> MutationGroups(s)[i]]
    BY DEF MutationGroups
  <2>3. \A i \in 1..Len(Solutions[s]) : MutationGroups(s)[i] \in Seq(MutationRow)
    BY <1>1
  <2> QED
    BY <2>1, <2>2, <2>3
<1> QED
  BY <1>1, <1>2

\* ... of one solution.
LEMMA MutationGroupIs ==
    ASSUME NEW s \in SolutionSets, NEW i \in 1..Len(Solutions[s])
    PROVE  /\ MutationGroups(s)[i] \in Seq(MutationRow)
           /\ Len(MutationGroups(s)[i]) = Len(Solutions[s][i].mutations)
<1>1. MutationGroups(s) \in [1..Len(Solutions[s]) -> Seq(MutationRow)]
  BY MutationGroupsAre
<1>2. Len(MutationGroups(s)[i]) = Len(Solutions[s][i].mutations)
  BY MutationGroupsAre, Zenon
<1> QED
  BY <1>1, <1>2

\* ... and one row.
LEMMA MutationRowIs ==
    ASSUME NEW s \in SolutionSets, NEW i \in 1..Len(Solutions[s]),
           NEW j \in 1..Len(Solutions[s][i].mutations)
    PROVE  /\ MutationGroups(s)[i][j].solution = i
           /\ MutationGroups(s)[i][j].key = BlobFromWords(Solutions[s][i].mutations[j][1])
           /\ MutationGroups(s)[i][j].value = BlobFromWords(Solutions[s][i].mutations[j][2])
<1>1. MutationGroups(s)[i][j] =
        [solution |-> i, index |-> j,
         key |-> BlobFromWords(Solutions[s][i].mutations[j][1]),
         value |-> BlobFromWords(Solutions[s][i].mutations[j][2])]
  BY MutationGroupsAre, Zenon
<1> QED
  BY <1>1

\* The rows of table pred_data of each solution are its predicate data.
LEMMA PredDataGroupsAre ==
    ASSUME NEW s \in SolutionSets
    PROVE  /\ PredDataGroups(s) \in [1..Len(Solutions[s]) -> Seq(PredDataRow)]
           /\ \A i \in 1..Len(Solutions[s]) :
                 /\ Len(PredDataGroups(s)[i]) = Len(Solutions[s][i].data)
                 /\ \A j \in 1..Len(Solutions[s][i].data) :
                       PredDataGroups(s)[i][j] =
                          [solution |-> i, index |-> j,
                           value |-> BlobFromWords(Solutions[s][i].data[j])]
<1>1. ASSUME NEW i \in 1..Len(Solutions[s])
      PROVE  /\ PredDataGroups(s)[i] \in Seq(PredDataRow)
             /\ Len(PredDataGroups(s)[i]) = Len(Solutions[s][i].data)
             /\ \A j \in 1..Len(Solutions[s][i].data) :
                   PredDataGroups(s)[i][j] =
                      [solution |-> i, index |-> j,
                       value |-> BlobFromWords(Solutions[s][i].data[j])]
  <2> DEFINE ds == Solutions[s][i].data
             row(j) == [solution |-> i, index |-> j, value |-> BlobFromWords(ds[j])]
  <2>1. ds \in Seq(Seq(Word)) /\ Len(ds) \in Nat /\ DOMAIN ds = 1..Len(ds)
    BY SolutionIs, LenProperties
  <2>2. ASSUME NEW j \in 1..Len(ds) PROVE row(j) \in PredDataRow
    <3>1. ds[j] \in Seq(Word)
      BY <2>1, ElementOfSeq
    <3>2. BlobFromWords(ds[j]) \in Seq(Int)
      BY <3>1, BlobIs
    <3>3. i \in Nat /\ j \in Nat
      BY <2>1, SolutionsAre
    <3> HIDE DEF ds
    <3> QED
      BY <3>2, <3>3 DEF PredDataRow
  <2>3. PredDataGroups(s)[i] = [j \in 1..Len(ds) |-> row(j)]
    BY <2>1, SolutionsAre DEF PredDataGroups
  <2> HIDE DEF ds, row
  <2>4. [j \in 1..Len(ds) |-> row(j)] \in [1..Len(ds) -> PredDataRow]
    BY <2>2
  <2>5. \A j \in 1..Len(ds) : PredDataGroups(s)[i][j] = row(j)
    BY <2>3
  <2>7. Len(ds) \in Nat /\ PredDataGroups(s)[i] \in [1..Len(ds) -> PredDataRow]
    BY <2>1, <2>3, <2>4
  <2>6. PredDataGroups(s)[i] \in Seq(PredDataRow) /\ Len(PredDataGroups(s)[i]) = Len(ds)
    BY <2>7, SequenceIs
  <2> QED
    BY <2>5, <2>6 DEF ds, row
<1>2. PredDataGroups(s) \in [1..Len(Solutions[s]) -> Seq(PredDataRow)]
  <2>1. DOMAIN PredDataGroups(s) = 1..Len(Solutions[s])
    BY SolutionsAre DEF PredDataGroups
  <2>2. PredDataGroups(s) = [i \in DOMAIN PredDataGroups(s) |-> PredDataGroups(s)[i]]
    BY DEF PredDataGroups
  <2>3. \A i \in 1..Len(Solutions[s]) : PredDataGroups(s)[i] \in Seq(PredDataRow)
    BY <1>1
  <2> QED
    BY <2>1, <2>2, <2>3
<1> QED
  BY <1>1, <1>2

\* ... of one solution.
LEMMA PredDataGroupIs ==
    ASSUME NEW s \in SolutionSets, NEW i \in 1..Len(Solutions[s])
    PROVE  /\ PredDataGroups(s)[i] \in Seq(PredDataRow)
           /\ Len(PredDataGroups(s)[i]) = Len(Solutions[s][i].data)
<1>1. PredDataGroups(s) \in [1..Len(Solutions[s]) -> Seq(PredDataRow)]
  BY PredDataGroupsAre
<1>2. Len(PredDataGroups(s)[i]) = Len(Solutions[s][i].data)
  BY PredDataGroupsAre, Zenon
<1> QED
  BY <1>1, <1>2

\* ... and one row.
LEMMA PredDataRowIs ==
    ASSUME NEW s \in SolutionSets, NEW i \in 1..Len(Solutions[s]),
           NEW j \in 1..Len(Solutions[s][i].data)
    PROVE  /\ PredDataGroups(s)[i][j].solution = i
           /\ PredDataGroups(s)[i][j].value = BlobFromWords(Solutions[s][i].data[j])
<1>1. PredDataGroups(s)[i][j] =
        [solution |-> i, index |-> j,
         value |-> BlobFromWords(Solutions[s][i].data[j])]
  BY PredDataGroupsAre, Zenon
<1> QED
  BY <1>1

\* The mutation rows of a set are those of its solutions.
LEMMA MutationRowsAre ==
    ASSUME NEW s \in SolutionSets
    PROVE  /\ MutationRows[s] = FlattenSeq(MutationGroups(s))
           /\ MutationRows[s] \in Seq(MutationRow)
           /\ \A x : x \in Range(MutationRows[s])
                       <=> \E i \in 1..Len(Solutions[s]) : x \in Range(MutationGroups(s)[i])
<1>1. MutationRows[s] = FlattenSeq(MutationGroups(s))
  BY DEF MutationRows, MutationGroups
<1>2. Len(Solutions[s]) \in Nat /\ MutationGroups(s) \in [1..Len(Solutions[s]) -> Seq(MutationRow)]
  BY SolutionsAre, MutationGroupsAre
<1> QED
  BY <1>1, <1>2, FlattenRange

\* The pred_data rows of a set are those of its solutions.
LEMMA PredDataRowsAre ==
    ASSUME NEW s \in SolutionSets
    PROVE  /\ PredDataRows[s] = FlattenSeq(PredDataGroups(s))
           /\ PredDataRows[s] \in Seq(PredDataRow)
           /\ \A x : x \in Range(PredDataRows[s])
                       <=> \E i \in 1..Len(Solutions[s]) : x \in Range(PredDataGroups(s)[i])
<1>1. PredDataRows[s] = FlattenSeq(PredDataGroups(s))
  BY DEF PredDataRows, PredDataGroups
<1>2. Len(Solutions[s]) \in Nat /\ PredDataGroups(s) \in [1..Len(Solutions[s]) -> Seq(PredDataRow)]
  BY SolutionsAre, PredDataGroupsAre
<1> QED
  BY <1>1, <1>2, FlattenRange

\* The rows of one solution, among those of its set.
LEMMA MutationsFound ==
    ASSUME NEW s \in SolutionSets, NEW i \in 1..Len(Solutions[s])
    PROVE  Same(InSolution(MutationRows[s], i), MutationGroups(s)[i])
<1> DEFINE n == Len(Solutions[s])
           ss == MutationGroups(s)
<1>1. n \in Nat /\ ss \in [1..n -> Seq(MutationRow)]
  BY SolutionsAre, MutationGroupsAre
<1>2. ASSUME NEW k \in 1..n, NEW j \in 1..Len(ss[k]) PROVE ss[k][j].solution = k
  <2>1. j \in 1..Len(Solutions[s][k].mutations)
    BY MutationGroupIs
  <2> QED
    BY <2>1, MutationRowIs
<1>3. MutationRows[s] = FlattenSeq(ss)
  BY MutationRowsAre
<1> HIDE DEF ss
<1>4. Same(InSolution(FlattenSeq(ss), i), ss[i])
  BY <1>1, <1>2, InSolutionGroups
<1> QED
  BY <1>3, <1>4 DEF ss

\* The predicate data of a solution are found among the rows of its set.
LEMMA PredDataFound ==
    ASSUME NEW s \in SolutionSets, NEW i \in 1..Len(Solutions[s])
    PROVE  Same(InSolution(PredDataRows[s], i), PredDataGroups(s)[i])
<1> DEFINE n == Len(Solutions[s])
           ss == PredDataGroups(s)
<1>1. n \in Nat /\ ss \in [1..n -> Seq(PredDataRow)]
  BY SolutionsAre, PredDataGroupsAre
<1>2. ASSUME NEW k \in 1..n, NEW j \in 1..Len(ss[k]) PROVE ss[k][j].solution = k
  <2>1. j \in 1..Len(Solutions[s][k].data)
    BY PredDataGroupIs
  <2> QED
    BY <2>1, PredDataRowIs
<1>3. PredDataRows[s] = FlattenSeq(ss)
  BY PredDataRowsAre
<1> HIDE DEF ss
<1>4. Same(InSolution(FlattenSeq(ss), i), ss[i])
  BY <1>1, <1>2, InSolutionGroups
<1> QED
  BY <1>3, <1>4 DEF ss

\* Where the rows are those of one insertion, the set reads as it was written.
LEMMA SetReads ==
    ASSUME NEW s \in SolutionSets, s \in solutionSet,
           mutation[s] = MutationRows[s], predData[s] = PredDataRows[s]
    PROVE  GetSolutionSet(s) = Solutions[s]
<1> DEFINE read(i) == GetSolutionSet(s)[i]
<1>1. GetSolutionSet(s) = [i \in 1..Len(Solutions[s]) |-> read(i)]
  BY SolutionsAre DEF GetSolutionSet
<1>2. ASSUME NEW i \in 1..Len(Solutions[s]) PROVE read(i) = Solutions[s][i]
  <2> DEFINE ms == InSolution(mutation[s], i)
             ds == InSolution(predData[s], i)
             sol == Solutions[s][i]
  <2>1. read(i) = [contract  |-> sol.contract,
                   mutations |-> [j \in DOMAIN ms |->
                                    <<WordsFromBlob(ms[j].key), WordsFromBlob(ms[j].value)>>],
                   data      |-> [j \in DOMAIN ds |-> WordsFromBlob(ds[j].value)]]
    BY SolutionsAre DEF GetSolutionSet
  <2>2. ms = MutationGroups(s)[i] /\ ds = PredDataGroups(s)[i]
    BY MutationsFound, PredDataFound DEF Same
  <2>3. /\ sol.mutations \in Seq(Seq(Word) \X Seq(Word)) /\ sol.data \in Seq(Seq(Word))
        /\ sol = [contract |-> sol.contract, mutations |-> sol.mutations, data |-> sol.data]
    BY SolutionIs
  <2>4. /\ ms \in Seq(MutationRow) /\ Len(ms) = Len(sol.mutations)
        /\ ds \in Seq(PredDataRow) /\ Len(ds) = Len(sol.data)
    BY <2>2, MutationGroupIs, PredDataGroupIs
  <2>5. /\ DOMAIN ms = 1..Len(sol.mutations) /\ DOMAIN ds = 1..Len(sol.data)
        /\ sol.mutations = [j \in 1..Len(sol.mutations) |-> sol.mutations[j]]
        /\ sol.data = [j \in 1..Len(sol.data) |-> sol.data[j]]
    BY <2>3, <2>4, LenProperties
  <2>6. ASSUME NEW j \in 1..Len(sol.mutations)
        PROVE  <<WordsFromBlob(ms[j].key), WordsFromBlob(ms[j].value)>> = sol.mutations[j]
    <3>1. sol.mutations[j] \in Seq(Word) \X Seq(Word)
      BY <2>3, ElementOfSeq
    <3>2. /\ sol.mutations[j][1] \in Seq(Word) /\ sol.mutations[j][2] \in Seq(Word)
          /\ sol.mutations[j] = <<sol.mutations[j][1], sol.mutations[j][2]>>
      BY <3>1
    <3>5. /\ MutationGroups(s)[i][j].key = BlobFromWords(sol.mutations[j][1])
          /\ MutationGroups(s)[i][j].value = BlobFromWords(sol.mutations[j][2])
      BY MutationRowIs
    <3>3. ms[j].key = BlobFromWords(sol.mutations[j][1])
          /\ ms[j].value = BlobFromWords(sol.mutations[j][2])
      <4> HIDE DEF ms, sol
      <4> QED
        BY <2>2, <3>5
    <3>4. WordsFromBlob(ms[j].key) = sol.mutations[j][1]
          /\ WordsFromBlob(ms[j].value) = sol.mutations[j][2]
      BY <3>2, <3>3, BlobReads
    <3> HIDE DEF sol, ms
    <3> QED
      BY <3>2, <3>4
  <2>7. ASSUME NEW j \in 1..Len(sol.data) PROVE WordsFromBlob(ds[j].value) = sol.data[j]
    <3>1. sol.data[j] \in Seq(Word)
      BY <2>3, ElementOfSeq
    <3>2. ds[j].value = BlobFromWords(sol.data[j])
      BY <2>2, PredDataRowIs
    <3> QED
      BY <3>1, <3>2, BlobReads
  <2> HIDE DEF read, sol, ms, ds
  <2>8. [j \in DOMAIN ms |-> <<WordsFromBlob(ms[j].key), WordsFromBlob(ms[j].value)>>] = sol.mutations
    BY <2>5, <2>6
  <2>9. [j \in DOMAIN ds |-> WordsFromBlob(ds[j].value)] = sol.data
    BY <2>5, <2>7
  <2>10. read(i) = sol
    BY <2>1, <2>3, <2>8, <2>9
  <2> QED
    BY <2>10 DEF sol
<1> HIDE DEF read
<1>3. Solutions[s] = [i \in 1..Len(Solutions[s]) |-> Solutions[s][i]]
  BY SolutionsAre
<1> QED
  BY <1>1, <1>2, <1>3

\* Where they are not, the set reads differently.
LEMMA SetReadsMore ==
    ASSUME NEW s \in SolutionSets, s \in solutionSet, NEW k \in Nat, k >= 2, HasRows(s),
           mutation[s] = Repeated(MutationRows[s], k),
           predData[s] = Repeated(PredDataRows[s], k)
    PROVE  GetSolutionSet(s) # Solutions[s]
<1> SUFFICES ASSUME GetSolutionSet(s) = Solutions[s] PROVE FALSE
  OBVIOUS
<1>1. ASSUME NEW i \in 1..Len(Solutions[s])
      PROVE  /\ Len(InSolution(mutation[s], i)) = Len(Solutions[s][i].mutations)
             /\ Len(InSolution(predData[s], i)) = Len(Solutions[s][i].data)
  <2> DEFINE ms == InSolution(mutation[s], i)
             ds == InSolution(predData[s], i)
  <2>1. /\ Solutions[s][i].mutations =
             [j \in DOMAIN ms |-> <<WordsFromBlob(ms[j].key), WordsFromBlob(ms[j].value)>>]
        /\ Solutions[s][i].data = [j \in DOMAIN ds |-> WordsFromBlob(ds[j].value)]
    <3>1. GetSolutionSet(s)[i] =
            [contract  |-> Solutions[s][i].contract,
             mutations |-> [j \in DOMAIN ms |->
                              <<WordsFromBlob(ms[j].key), WordsFromBlob(ms[j].value)>>],
             data      |-> [j \in DOMAIN ds |-> WordsFromBlob(ds[j].value)]]
      BY SolutionsAre DEF GetSolutionSet
    <3> HIDE DEF ms, ds
    <3> QED
      BY <3>1
  <2>2. DOMAIN Solutions[s][i].mutations = DOMAIN ms /\ DOMAIN Solutions[s][i].data = DOMAIN ds
    <3> HIDE DEF ms, ds
    <3> QED
      BY <2>1
  <2>3. ms \in Seq(MutationRow) /\ ds \in Seq(PredDataRow)
    BY MutationRowsAre, PredDataRowsAre, RepeatedIs, InSolutionTyped
  <2>4. Solutions[s][i].mutations \in Seq(Seq(Word) \X Seq(Word))
        /\ Solutions[s][i].data \in Seq(Seq(Word))
    BY SolutionIs
  <2> HIDE DEF ms, ds
  <2> QED
    BY <2>2, <2>3, <2>4, SameDomain DEF ms, ds
<1>2. ASSUME NEW i \in 1..Len(Solutions[s])
      PROVE  /\ Len(InSolution(mutation[s], i)) = k * Len(Solutions[s][i].mutations)
             /\ Len(InSolution(predData[s], i)) = k * Len(Solutions[s][i].data)
  <2>1. MutationRows[s] \in Seq(MutationRow) /\ PredDataRows[s] \in Seq(PredDataRow)
    BY MutationRowsAre, PredDataRowsAre
  <2>2. /\ Len(InSolution(MutationRows[s], i)) = Len(Solutions[s][i].mutations)
        /\ Len(InSolution(PredDataRows[s], i)) = Len(Solutions[s][i].data)
    BY MutationsFound, PredDataFound, MutationGroupIs, PredDataGroupIs DEF Same
  <2>3. Len(InSolution(mutation[s], i)) = k * Len(InSolution(MutationRows[s], i))
    BY <2>1, RepeatedFinds
  <2>4. Len(InSolution(predData[s], i)) = k * Len(InSolution(PredDataRows[s], i))
    BY <2>1, RepeatedFinds
  <2> QED
    BY <2>2, <2>3, <2>4
<1>3. ASSUME NEW i \in 1..Len(Solutions[s])
      PROVE  Len(Solutions[s][i].mutations) = 0 /\ Len(Solutions[s][i].data) = 0
  <2>1. Len(Solutions[s][i].mutations) \in Nat /\ Len(Solutions[s][i].data) \in Nat
    BY SolutionIs, LenProperties
  <2>2. \A l \in Nat : l = k * l => l = 0
    OBVIOUS
  <2>3. Len(Solutions[s][i].mutations) = k * Len(Solutions[s][i].mutations)
    BY <1>1, <1>2
  <2>4. Len(Solutions[s][i].data) = k * Len(Solutions[s][i].data)
    BY <1>1, <1>2
  <2> QED
    BY <2>1, <2>2, <2>3, <2>4, Zenon
<1>4. Range(MutationRows[s]) = {} /\ Range(PredDataRows[s]) = {}
  <2>1. ASSUME NEW i \in 1..Len(Solutions[s])
        PROVE  Range(MutationGroups(s)[i]) = {} /\ Range(PredDataGroups(s)[i]) = {}
    <3>1. MutationGroups(s)[i] \in Seq(MutationRow) /\ Len(MutationGroups(s)[i]) = 0
      BY <1>3, MutationGroupIs
    <3>2. PredDataGroups(s)[i] \in Seq(PredDataRow) /\ Len(PredDataGroups(s)[i]) = 0
      BY <1>3, PredDataGroupIs
    <3> QED
      BY <3>1, <3>2, EmptyRange
  <2> QED
    BY <2>1, MutationRowsAre, PredDataRowsAre
<1>5. MutationRows[s] = << >> /\ PredDataRows[s] = << >>
  BY <1>4, MutationRowsAre, PredDataRowsAre, EmptyRange
<1> QED
  BY <1>5 DEF HasRows

-----------------------------------------------------------------------------
(* The inductive invariant.                                                *)

\* What a block leaves in the tables is what it was given with, once for each
\* insertion of a solution set where the rows are not unique.
RowsInv ==
    /\ block \subseteq Blocks /\ IsFiniteSet(block)
    /\ solutionSet \subseteq SolutionSets
    /\ blockSet = UNION {{<<b, Sets[b][i], i>> : i \in DOMAIN Sets[b]} : b \in block}
    /\ \A b \in block : Range(Sets[b]) \subseteq solutionSet /\ Len(Sets[b]) <= inserts
    /\ inserts \in 0..MaxInserts /\ copies \in [SolutionSets -> 0..inserts]
    /\ \A s \in solutionSet : copies[s] >= 1
    /\ mutation = [s \in SolutionSets |-> Repeated(MutationRows[s], copies[s])]
    /\ predData = [s \in SolutionSets |-> Repeated(PredDataRows[s], copies[s])]

\* What the other tables refer to is stored.
ReferencesInv ==
    /\ finalized \subseteq block
    /\ \A b, c \in finalized : Number[b] = Number[c] => b = c
    /\ progress \in block \cup {NoBlock}
    /\ failed \subseteq block \X solutionSet /\ IsFiniteSet(failed)
    /\ \A r \in DOMAIN state : \E w \in StateWrites : state[r] = BlobFromWords(w[3])

StoreInv == RowsInv /\ ReferencesInv

\* The solution sets of a block.
LEMMA SetsAre ==
    ASSUME NEW b \in Blocks
    PROVE  /\ Sets[b] \in Seq(SolutionSets) /\ Len(Sets[b]) \in Nat
           /\ DOMAIN Sets[b] = 1..Len(Sets[b])
           /\ \A i \in DOMAIN Sets[b] : Sets[b][i] \in SolutionSets
           /\ Range(Sets[b]) = {Sets[b][i] : i \in DOMAIN Sets[b]}
<1>1. Sets[b] \in Seq(SolutionSets)
  BY StoreAssumption DEF StoreAssumption
<1> QED
  BY <1>1, LenProperties, ElementOfSeq DEF Range

\* A block has a set as often as it occurs in it.
LEMMA OccurrencesAre ==
    ASSUME NEW b \in Blocks, NEW s
    PROVE  /\ Occurrences(s, b) \in 0..Len(Sets[b])
           /\ s \in Range(Sets[b]) => Occurrences(s, b) >= 1
<1> DEFINE n == Len(Sets[b])
           T == {i \in DOMAIN Sets[b] : Sets[b][i] = s}
<1>1. n \in Nat /\ T \in SUBSET (1..n)
  BY SetsAre
<1>2. IsFiniteSet(1..n) /\ Cardinality(1..n) = n
  BY <1>1, FS_Interval
<1>3. IsFiniteSet(T) /\ Cardinality(T) <= n
  <2> HIDE DEF T, n
  <2> QED
    BY <1>1, <1>2, FS_Subset
<1>4. Cardinality(T) \in Nat
  BY <1>3, FS_CardinalityType
<1>5. ASSUME s \in Range(Sets[b]) PROVE Cardinality(T) >= 1
  <2>1. T # {}
    <3>1. s \in {Sets[b][i] : i \in DOMAIN Sets[b]}
      BY <1>5 DEF Range
    <3>2. PICK i \in DOMAIN Sets[b] : Sets[b][i] = s
      BY <3>1
    <3> QED
      BY <3>2
  <2>2. Cardinality(T) # 0
    <3> HIDE DEF T
    <3> QED
      BY <1>3, <2>1, FS_EmptySet
  <2> QED
    BY <1>4, <2>2
<1>6. Occurrences(s, b) = Cardinality(T)
  BY DEF Occurrences
<1> HIDE DEF T
<1> QED
  BY <1>1, <1>3, <1>4, <1>5, <1>6

\* The empty tables.
LEMMA InitRows == Init => StoreInv
<1> SUFFICES ASSUME Init PROVE StoreInv
  OBVIOUS
<1>1. ASSUME NEW s \in SolutionSets
      PROVE  Repeated(MutationRows[s], 0) = << >> /\ Repeated(PredDataRows[s], 0) = << >>
  <2>1. MutationRows[s] \in Seq(MutationRow) /\ PredDataRows[s] \in Seq(PredDataRow)
    BY MutationRowsAre, PredDataRowsAre
  <2> QED
    BY <2>1, RepeatedIs
<1>2. /\ mutation = [s \in SolutionSets |-> Repeated(MutationRows[s], copies[s])]
      /\ predData = [s \in SolutionSets |-> Repeated(PredDataRows[s], copies[s])]
  BY <1>1 DEF Init
<1>3. inserts \in 0..MaxInserts /\ copies \in [SolutionSets -> 0..inserts]
  BY StoreAssumption DEF Init, StoreAssumption
<1>4. RowsInv
  BY <1>2, <1>3, FS_EmptySet DEF Init, RowsInv
<1>5. ReferencesInv
  BY FS_EmptySet DEF Init, ReferencesInv
<1> QED
  BY <1>4, <1>5 DEF StoreInv

\* Inserting a block.
LEMMA InsertKeepsRows ==
    ASSUME RowsInv, NEW b \in Blocks, RoomFor(b), InsertBlockRows(b)
    PROVE  RowsInv' /\ block \subseteq block' /\ solutionSet \subseteq solutionSet' /\ b \in block'
<1> DEFINE n == Len(Sets[b])
<1>1. /\ Sets[b] \in Seq(SolutionSets) /\ n \in Nat /\ Range(Sets[b]) \subseteq SolutionSets
  <2>1. \A i \in DOMAIN Sets[b] : Sets[b][i] \in SolutionSets
    BY SetsAre
  <2>2. Range(Sets[b]) \subseteq SolutionSets
    BY <2>1 DEF Range
  <2> QED
    BY <2>2, SetsAre
<1>2. block' = block \cup {b} /\ solutionSet' = solutionSet \cup Range(Sets[b])
  BY DEF InsertBlockRows
<1>3. block' \subseteq Blocks /\ solutionSet' \subseteq SolutionSets
  BY <1>1, <1>2 DEF RowsInv
<1>4. IsFiniteSet(block')
  BY <1>2, FS_AddElement DEF RowsInv
<1>5. blockSet' = UNION {{<<c, Sets[c][i], i>> : i \in DOMAIN Sets[c]} : c \in block'}
  <2>1. blockSet' = blockSet \cup {<<b, Sets[b][i], i>> : i \in DOMAIN Sets[b]}
    BY DEF InsertBlockRows
  <2>2. blockSet = UNION {{<<c, Sets[c][i], i>> : i \in DOMAIN Sets[c]} : c \in block}
    BY DEF RowsInv
  <2> DEFINE rows(c) == {<<c, Sets[c][i], i>> : i \in DOMAIN Sets[c]}
  <2>3. blockSet' = (UNION {rows(c) : c \in block}) \cup rows(b)
    BY <2>1, <2>2
  <2> HIDE DEF rows
  <2>4. blockSet' = UNION {rows(c) : c \in block'}
    BY <1>2, <2>3
  <2> QED
    BY <2>4 DEF rows
<1>6. inserts \in Nat /\ MaxInserts \in Nat /\ inserts' = inserts + n /\ inserts + n <= MaxInserts
  BY StoreAssumption DEF StoreAssumption, RowsInv, InsertBlockRows, RoomFor
<1>7. inserts' \in 0..MaxInserts /\ inserts <= inserts' /\ n <= inserts'
  BY <1>1, <1>6
<1>8. ASSUME NEW s \in SolutionSets
      PROVE  /\ copies[s] \in 0..inserts /\ Occurrences(s, b) \in 0..n
             /\ copies'[s] = copies[s] + Occurrences(s, b)
  <2>1. copies' = [t \in SolutionSets |-> copies[t] + Occurrences(t, b)]
    BY DEF InsertBlockRows
  <2> QED
    BY <2>1, OccurrencesAre DEF RowsInv
<1>9. copies' \in [SolutionSets -> 0..inserts']
  <2>1. copies' = [t \in SolutionSets |-> copies[t] + Occurrences(t, b)]
    BY DEF InsertBlockRows
  <2>2. ASSUME NEW s \in SolutionSets PROVE copies[s] + Occurrences(s, b) \in 0..inserts'
    BY <1>1, <1>6, <1>8
  <2> QED
    BY <2>1, <2>2
<1>10. ASSUME NEW s \in solutionSet' PROVE copies'[s] >= 1
  <2>1. s \in SolutionSets
    BY <1>3
  <2>2. CASE s \in solutionSet
    <3>1. copies[s] >= 1
      BY <2>2 DEF RowsInv
    <3> QED
      BY <1>1, <1>6, <1>8, <2>1, <3>1
  <2>3. CASE s \in Range(Sets[b])
    <3>1. Occurrences(s, b) >= 1
      BY <2>3, OccurrencesAre
    <3> QED
      BY <1>1, <1>6, <1>8, <2>1, <3>1
  <2> QED
    BY <1>2, <2>2, <2>3
<1>11. ASSUME NEW c \in block'
       PROVE  Range(Sets[c]) \subseteq solutionSet' /\ Len(Sets[c]) <= inserts'
  <2>1. CASE c \in block
    <3>1. Range(Sets[c]) \subseteq solutionSet /\ Len(Sets[c]) <= inserts /\ Len(Sets[c]) \in Nat
      BY <2>1, SetsAre DEF RowsInv
    <3> QED
      BY <1>2, <1>6, <1>7, <3>1
  <2>2. CASE c = b
    BY <1>2, <1>7, <2>2
  <2> QED
    BY <1>2, <2>1, <2>2
<1>12. ASSUME NEW s \in SolutionSets
       PROVE  /\ mutation'[s] = Repeated(MutationRows[s], copies'[s])
              /\ predData'[s] = Repeated(PredDataRows[s], copies'[s])
  <2>1. MutationRows[s] \in Seq(MutationRow) /\ PredDataRows[s] \in Seq(PredDataRow)
    BY MutationRowsAre, PredDataRowsAre
  <2>2. copies[s] \in Nat /\ Occurrences(s, b) \in Nat /\ copies'[s] = copies[s] + Occurrences(s, b)
    BY <1>1, <1>6, <1>8
  <2>3. Same(Repeated(MutationRows[s], copies[s]) \o Repeated(MutationRows[s], Occurrences(s, b)),
             Repeated(MutationRows[s], copies[s] + Occurrences(s, b)))
    BY <2>1, <2>2, RepeatedSum
  <2>4. Same(Repeated(PredDataRows[s], copies[s]) \o Repeated(PredDataRows[s], Occurrences(s, b)),
             Repeated(PredDataRows[s], copies[s] + Occurrences(s, b)))
    BY <2>1, <2>2, RepeatedSum
  <2>5. mutation[s] = Repeated(MutationRows[s], copies[s])
        /\ predData[s] = Repeated(PredDataRows[s], copies[s])
    BY DEF RowsInv
  <2>6. mutation'[s] = mutation[s] \o Repeated(MutationRows[s], Occurrences(s, b))
        /\ predData'[s] = predData[s] \o Repeated(PredDataRows[s], Occurrences(s, b))
    BY DEF InsertBlockRows
  <2> QED
    BY <2>2, <2>3, <2>4, <2>5, <2>6 DEF Same
<1>13. /\ mutation' = [s \in SolutionSets |-> Repeated(MutationRows[s], copies'[s])]
       /\ predData' = [s \in SolutionSets |-> Repeated(PredDataRows[s], copies'[s])]
  <2>1. mutation' = [s \in SolutionSets |-> mutation'[s]] /\ predData' = [s \in SolutionSets |-> predData'[s]]
    BY DEF InsertBlockRows
  <2> QED
    BY <1>12, <2>1, Zenon
<1>14. RowsInv'
  BY <1>3, <1>4, <1>5, <1>7, <1>9, <1>10, <1>11, <1>13, Zenon DEF RowsInv
<1> QED
  BY <1>2, <1>14
\* insert_block keeps the invariant, with or without finalizing.
LEMMA InsertKeepsInv ==
    ASSUME StoreInv, NEW b \in Blocks, RoomFor(b), InsertBlockRows(b),
           finalized' \subseteq block', \A c, d \in finalized' : Number[c] = Number[d] => c = d,
           UNCHANGED <<progress, failed, state>>
    PROVE  StoreInv'
<1>1. RowsInv' /\ block \subseteq block' /\ solutionSet \subseteq solutionSet' /\ b \in block'
  BY InsertKeepsRows DEF StoreInv
<1>2. progress' \in block' \cup {NoBlock}
  BY <1>1 DEF StoreInv, ReferencesInv
<1>3. failed' \subseteq block' \X solutionSet' /\ IsFiniteSet(failed')
  BY <1>1 DEF StoreInv, ReferencesInv
<1>4. \A r \in DOMAIN state' : \E w \in StateWrites : state'[r] = BlobFromWords(w[3])
  BY DEF StoreInv, ReferencesInv
<1> QED
  BY <1>1, <1>2, <1>3, <1>4 DEF StoreInv, ReferencesInv

\* So does a transaction on other tables, of the rows.
LEMMA UnchangedKeepsRows ==
    ASSUME RowsInv, UNCHANGED setVars
    PROVE  RowsInv'
BY DEF RowsInv, setVars

\* Every transaction keeps the invariant.
LEMMA StepKeepsInv == StoreInv /\ [Next]_vars => StoreInv'
<1> SUFFICES ASSUME StoreInv, [Next]_vars PROVE StoreInv'
  OBVIOUS
<1>1. ASSUME NEW b \in Blocks, InsertBlock(b) PROVE StoreInv'
  <2>1. RoomFor(b) /\ InsertBlockRows(b) /\ UNCHANGED <<finalized, progress, failed, state>>
    BY <1>1 DEF InsertBlock
  <2>2. block \subseteq block'
    BY <2>1, InsertKeepsRows DEF StoreInv
  <2>3. finalized' \subseteq block' /\ \A c, d \in finalized' : Number[c] = Number[d] => c = d
    BY <2>1, <2>2 DEF StoreInv, ReferencesInv
  <2> QED
    BY <2>1, <2>3, InsertKeepsInv
<1>2. ASSUME NEW b \in Blocks, FinalizeBlock(b) PROVE StoreInv'
  <2>1. RowsInv'
    BY <1>2, UnchangedKeepsRows DEF FinalizeBlock, StoreInv
  <2>2. finalized' \subseteq block' /\ \A c, d \in finalized' : Number[c] = Number[d] => c = d
    BY <1>2 DEF FinalizeBlock, CanFinalize, StoreInv, ReferencesInv, setVars
  <2> QED
    BY <1>2, <2>1, <2>2 DEF FinalizeBlock, StoreInv, ReferencesInv, setVars
<1>3. ASSUME NEW b \in Blocks, InsertAndFinalize(b) PROVE StoreInv'
  <2>1. /\ RoomFor(b) /\ CanFinalize(b) /\ InsertBlockRows(b)
        /\ finalized' = finalized \cup {b} /\ UNCHANGED <<progress, failed, state>>
    BY <1>3 DEF InsertAndFinalize
  <2>2. block \subseteq block' /\ b \in block'
    BY <2>1, InsertKeepsRows DEF StoreInv
  <2>3. finalized' \subseteq block' /\ \A c, d \in finalized' : Number[c] = Number[d] => c = d
    BY <2>1, <2>2 DEF CanFinalize, StoreInv, ReferencesInv
  <2> QED
    BY <2>1, <2>3, InsertKeepsInv
<1>4. ASSUME NEW b \in Blocks, UpdateValidationProgress(b) PROVE StoreInv'
  <2>1. RowsInv'
    BY <1>4, UnchangedKeepsRows DEF UpdateValidationProgress, StoreInv
  <2> QED
    BY <1>4, <2>1 DEF UpdateValidationProgress, StoreInv, ReferencesInv, setVars
<1>5. ASSUME NEW b \in Blocks, NEW s \in Range(Sets[b]), InsertFailedBlock(b, s) PROVE StoreInv'
  <2>1. RowsInv'
    BY <1>5, UnchangedKeepsRows DEF InsertFailedBlock, StoreInv
  <2>2. IsFiniteSet(failed')
    BY <1>5, FS_AddElement DEF InsertFailedBlock, StoreInv, ReferencesInv
  <2> QED
    BY <1>5, <2>1, <2>2 DEF InsertFailedBlock, StoreInv, ReferencesInv, setVars
<1>6. ASSUME NEW w \in StateWrites, UpdateState(w[1], w[2], w[3]) PROVE StoreInv'
  <2>1. RowsInv'
    BY <1>6, UnchangedKeepsRows DEF UpdateState, StoreInv
  <2> DEFINE row == <<w[1], BlobFromWords(w[2])>>
  <2>2. state' = [r \in DOMAIN state \cup {row} |->
                     IF r = row THEN BlobFromWords(w[3]) ELSE state[r]]
    BY <1>6 DEF UpdateState
  <2> HIDE DEF row
  <2>3. \A r \in DOMAIN state' : \E v \in StateWrites : state'[r] = BlobFromWords(v[3])
    BY <2>2 DEF StoreInv, ReferencesInv
  <2> QED
    BY <1>6, <2>1, <2>3 DEF UpdateState, StoreInv, ReferencesInv, setVars
<1>7. ASSUME NEW w \in StateWrites, DeleteState(w[1], w[2]) PROVE StoreInv'
  <2>1. RowsInv'
    BY <1>7, UnchangedKeepsRows DEF DeleteState, StoreInv
  <2>2. DOMAIN state' \subseteq DOMAIN state /\ \A r \in DOMAIN state' : state'[r] = state[r]
    BY <1>7 DEF DeleteState, Restrict
  <2>3. \A r \in DOMAIN state' : \E v \in StateWrites : state'[r] = BlobFromWords(v[3])
    BY <2>2 DEF StoreInv, ReferencesInv
  <2> QED
    BY <1>7, <2>1, <2>3 DEF DeleteState, StoreInv, ReferencesInv, setVars
<1>8. CASE UNCHANGED vars
  <2>1. RowsInv'
    BY <1>8, UnchangedKeepsRows DEF vars, StoreInv
  <2> QED
    BY <1>8, <2>1 DEF vars, StoreInv, ReferencesInv, setVars
<1> QED
  BY <1>1, <1>2, <1>3, <1>4, <1>5, <1>6, <1>7, <1>8 DEF Next

\* The rows of the tables stay as the insertions made them, and their references
\* and keys hold, through every transaction.
THEOREM Stored == Spec => []StoreInv
<1> QED
  BY InitRows, StepKeepsInv, PTL DEF Spec

\* A value of table state is read as it was written.
LEMMA StateReads ==
    ASSUME StoreInv, NEW w \in StateWrites
    PROVE  QueryState(w[1], w[2]) \in {Unset} \cup {v[3] : v \in StateWrites}
<1> DEFINE row == <<w[1], BlobFromWords(w[2])>>
<1> HIDE DEF row
<1>1. ASSUME row \in DOMAIN state
      PROVE  WordsFromBlob(state[row]) \in {v[3] : v \in StateWrites}
  <2>1. PICK v \in StateWrites : state[row] = BlobFromWords(v[3])
    BY <1>1 DEF StoreInv, ReferencesInv
  <2>2. v[3] \in Seq(Word)
    BY StoreAssumption DEF StoreAssumption
  <2>3. WordsFromBlob(state[row]) = v[3]
    BY <2>1, <2>2, BlobReads
  <2> QED
    BY <2>3
<1>2. QueryState(w[1], w[2]) = IF row \in DOMAIN state THEN WordsFromBlob(state[row]) ELSE Unset
  BY DEF QueryState, row
<1> QED
  BY <1>1, <1>2

\* The references and keys follow from the invariant.
LEMMA InvImpliesTypeOK == StoreInv => TypeOK
<1> SUFFICES ASSUME StoreInv PROVE TypeOK
  OBVIOUS
<1>1. blockSet \subseteq block \X solutionSet \X (1..MaxInserts)
  <2> SUFFICES ASSUME NEW x \in blockSet PROVE x \in block \X solutionSet \X (1..MaxInserts)
    OBVIOUS
  <2>1. PICK b \in block : x \in {<<b, Sets[b][i], i>> : i \in DOMAIN Sets[b]}
    BY DEF StoreInv, RowsInv
  <2>2. PICK i \in DOMAIN Sets[b] : x = <<b, Sets[b][i], i>>
    BY <2>1
  <2>3. b \in Blocks /\ Len(Sets[b]) <= inserts /\ inserts \in 0..MaxInserts
    BY DEF StoreInv, RowsInv
  <2>4. Len(Sets[b]) \in Nat /\ DOMAIN Sets[b] = 1..Len(Sets[b]) /\ MaxInserts \in Nat
    BY <2>3, SetsAre, StoreAssumption DEF StoreAssumption
  <2>5. i \in 1..MaxInserts
    BY <2>3, <2>4
  <2>6. Sets[b][i] \in solutionSet
    BY DEF StoreInv, RowsInv, Range
  <2> QED
    BY <2>2, <2>5, <2>6
<1>2. DOMAIN mutation = SolutionSets /\ DOMAIN predData = SolutionSets
  BY DEF StoreInv, RowsInv
<1>3. \A w \in StateWrites : QueryState(w[1], w[2]) \in {Unset} \cup {v[3] : v \in StateWrites}
  BY StateReads
<1> QED
  BY <1>1, <1>2, <1>3 DEF TypeOK, StoreInv, RowsInv, ReferencesInv

\* The references and keys of the tables hold, finalized numbers are unique, and
\* a value of table state reads as it was written.
THEOREM ReferencesHold == Spec => []TypeOK
<1> QED
  BY Stored, InvImpliesTypeOK, PTL

-----------------------------------------------------------------------------
(* A block is read as it was written.                                      *)

\* The mappings of a stored block are its sets with their indexes.
LEMMA BlockSetIs ==
    ASSUME StoreInv, NEW b \in block, NEW s, NEW i
    PROVE  <<b, s, i>> \in blockSet <=> i \in DOMAIN Sets[b] /\ s = Sets[b][i]
<1>1. blockSet = UNION {{<<c, Sets[c][j], j>> : j \in DOMAIN Sets[c]} : c \in block}
  BY DEF StoreInv, RowsInv
<1>2. ASSUME <<b, s, i>> \in blockSet PROVE i \in DOMAIN Sets[b] /\ s = Sets[b][i]
  <2>1. PICK c \in block : <<b, s, i>> \in {<<c, Sets[c][j], j>> : j \in DOMAIN Sets[c]}
    BY <1>1, <1>2
  <2>2. PICK j \in DOMAIN Sets[c] : <<b, s, i>> = <<c, Sets[c][j], j>>
    BY <2>1
  <2> QED
    BY <2>2
<1>3. ASSUME i \in DOMAIN Sets[b], s = Sets[b][i] PROVE <<b, s, i>> \in blockSet
  BY <1>1, <1>3
<1> QED
  BY <1>2, <1>3

\* The sets of a stored block.
LEMMA StoredSets ==
    ASSUME StoreInv, NEW b \in block
    PROVE  /\ b \in Blocks /\ Sets[b] \in Seq(SolutionSets)
           /\ Len(Sets[b]) \in Nat /\ DOMAIN Sets[b] = 1..Len(Sets[b])
           /\ MaxInserts \in Nat /\ Len(Sets[b]) <= MaxInserts
           /\ \A i \in 1..Len(Sets[b]) : Sets[b][i] \in solutionSet /\ Sets[b][i] \in SolutionSets
<1>1. b \in Blocks /\ Range(Sets[b]) \subseteq solutionSet /\ Len(Sets[b]) <= inserts
      /\ inserts \in 0..MaxInserts
  BY DEF StoreInv, RowsInv
<1>2. /\ Sets[b] \in Seq(SolutionSets) /\ Len(Sets[b]) \in Nat
      /\ DOMAIN Sets[b] = 1..Len(Sets[b])
      /\ \A i \in DOMAIN Sets[b] : Sets[b][i] \in SolutionSets
  BY <1>1, SetsAre
<1>3. MaxInserts \in Nat
  BY StoreAssumption DEF StoreAssumption
<1>4. \A i \in DOMAIN Sets[b] : Sets[b][i] \in solutionSet
  BY <1>1 DEF Range
<1> QED
  BY <1>1, <1>2, <1>3, <1>4

\* The numbers up to n, in their order, are themselves.
LEMMA NumbersInOrder ==
    ASSUME NEW n \in Nat, MaxInserts \in Nat, n <= MaxInserts
    PROVE  InOrder(1..n, IndexOrder) = [k \in 1..n |-> k]
<1>1. Cardinality(1..n) = n
  BY FS_Interval
<1>2. ASSUME NEW x \in 1..n
      PROVE  Cardinality({y \in 1..n : <<y, x>> \in IndexOrder}) = x - 1
  <2>1. {y \in 1..n : <<y, x>> \in IndexOrder} = 1..(x - 1)
    BY DEF IndexOrder
  <2>2. x - 1 \in Nat /\ 1 \in Int /\ x - 1 \in Int
    OBVIOUS
  <2>3. Cardinality(1..(x - 1)) = x - 1
    BY <2>2, FS_Interval
  <2> QED
    BY <2>1, <2>3
<1>3. ASSUME NEW k \in 1..n
      PROVE  (CHOOSE x \in 1..n : Cardinality({y \in 1..n : <<y, x>> \in IndexOrder}) = k - 1) = k
  <2> DEFINE P(x) == Cardinality({y \in 1..n : <<y, x>> \in IndexOrder}) = k - 1
  <2>1. \A x \in 1..n : P(x) <=> x = k
    <3>1. \A x \in 1..n : P(x) <=> x - 1 = k - 1
      BY <1>2
    <3> HIDE DEF P
    <3> QED
      BY <3>1
  <2> HIDE DEF P
  <2>2. (CHOOSE x \in 1..n : P(x)) = k
    BY <2>1
  <2> QED
    BY <2>2 DEF P
<1> QED
  BY <1>1, <1>3 DEF InOrder

\* The rows of a block in the listings.
LEMMA RowsOfNone ==
    ASSUME StoreInv, NEW b \in block, Sets[b] = << >>
    PROVE  RowsOf(b) = <<<<b, NoSet>>>>
<1> DEFINE index == {i \in 1..MaxInserts : \E s \in solutionSet : <<b, s, i>> \in blockSet}
<1>1. DOMAIN Sets[b] = {}
  BY StoredSets
<1>2. index = {}
  BY <1>1, BlockSetIs
<1> QED
  BY <1>2 DEF RowsOf

\* The joins give a row for each of the block's sets, in order.
LEMMA RowsOfBlock ==
    ASSUME StoreInv, NEW b \in block, Sets[b] # << >>
    PROVE  RowsOf(b) = [k \in 1..Len(Sets[b]) |-> <<b, Sets[b][k]>>]
<1> DEFINE index == {i \in 1..MaxInserts : \E s \in solutionSet : <<b, s, i>> \in blockSet}
           n == Len(Sets[b])
           seq == InOrder(index, IndexOrder)
<1>1. /\ n \in Nat /\ DOMAIN Sets[b] = 1..n /\ MaxInserts \in Nat /\ n <= MaxInserts
      /\ \A i \in 1..n : Sets[b][i] \in solutionSet
  BY StoredSets
<1>2. n # 0
  BY <1>1, StoredSets, EmptySeq
<1>3. index = 1..n
  <2>1. \A i \in 1..MaxInserts : i \in index <=> i \in 1..n
    BY <1>1, BlockSetIs
  <2>2. index \subseteq 1..MaxInserts /\ 1..n \subseteq 1..MaxInserts
    BY <1>1
  <2> HIDE DEF index, n
  <2> QED
    BY <2>1, <2>2
<1>4. seq = [k \in 1..n |-> k]
  <2> HIDE DEF n, index
  <2> QED
    BY <1>1, <1>3, NumbersInOrder
<1>5. ASSUME NEW k \in 1..n
      PROVE  (CHOOSE s \in solutionSet : <<b, s, seq[k]>> \in blockSet) = Sets[b][k]
  <2>1. seq[k] = k
    BY <1>4
  <2>2. \A s \in solutionSet : <<b, s, seq[k]>> \in blockSet <=> s = Sets[b][k]
    BY <1>1, <2>1, BlockSetIs
  <2> QED
    BY <1>1, <2>2
<1>6. index # {}
  BY <1>1, <1>2, <1>3
<1>7. RowsOf(b) = [k \in DOMAIN seq |-> <<b, CHOOSE s \in solutionSet : <<b, s, seq[k]>> \in blockSet>>]
  BY <1>6 DEF RowsOf
<1>8. DOMAIN seq = 1..n
  BY <1>4
<1> QED
  BY <1>5, <1>7, <1>8

\* What get_block returns.
LEMMA BlockIs ==
    ASSUME StoreInv, NEW b \in block, Sets[b] # << >>
    PROVE  GetBlock(b) = [header |-> Header(b),
                          sets |-> [i \in 1..Len(Sets[b]) |-> GetSolutionSet(Sets[b][i])]]
<1> DEFINE n == Len(Sets[b])
           rows == RowsOf(b)
<1>1. n \in Nat /\ n # 0 /\ \A i \in 1..n : Sets[b][i] \in SolutionSets
  BY StoredSets, EmptySeq
<1>2. rows = [k \in 1..n |-> <<b, Sets[b][k]>>]
  BY RowsOfBlock
<1>3. 1 \in 1..n /\ Sets[b][1] # NoSet
  BY <1>1, StoreAssumption DEF StoreAssumption
<1>4. rows[1][2] # NoSet /\ DOMAIN rows = 1..n /\ \A i \in 1..n : rows[i][2] = Sets[b][i]
  BY <1>2, <1>3
<1>5. GetBlock(b) = [header |-> Header(b),
                     sets |-> [i \in DOMAIN rows |-> GetSolutionSet(rows[i][2])]]
  BY <1>4 DEF GetBlock
<1> QED
  BY <1>4, <1>5

\* No rows, repeated, are no rows.
LEMMA RepeatedNone ==
    ASSUME NEW n \in Nat
    PROVE  Repeated(<< >>, n) = << >>
<1>1. << >> \in Seq({})
  OBVIOUS
<1>2. Repeated(<< >>, n) \in Seq({})
  BY <1>1, RepeatedIs
<1> QED
  BY <1>2, EmptySeq, ElementOfSeq

\* A stored set reads as it was written exactly if its rows, if any, are there
\* once.
LEMMA SetReadsExactly ==
    ASSUME StoreInv, NEW s \in solutionSet
    PROVE  GetSolutionSet(s) = Solutions[s] <=> (HasRows(s) => copies[s] = 1)
<1>1. /\ s \in SolutionSets /\ copies[s] \in Nat /\ copies[s] >= 1
      /\ mutation[s] = Repeated(MutationRows[s], copies[s])
      /\ predData[s] = Repeated(PredDataRows[s], copies[s])
  BY StoreAssumption DEF StoreAssumption, StoreInv, RowsInv
<1>2. MutationRows[s] \in Seq(MutationRow) /\ PredDataRows[s] \in Seq(PredDataRow)
  BY <1>1, MutationRowsAre, PredDataRowsAre
<1>3. CASE copies[s] = 1
  <2>1. Same(Repeated(MutationRows[s], 1), MutationRows[s])
        /\ Same(Repeated(PredDataRows[s], 1), PredDataRows[s])
    BY <1>2, RepeatedOnce
  <2>2. mutation[s] = MutationRows[s] /\ predData[s] = PredDataRows[s]
    BY <1>1, <1>3, <2>1 DEF Same
  <2> QED
    BY <1>1, <1>3, <2>2, SetReads
<1>4. CASE ~HasRows(s)
  <2>1. MutationRows[s] = << >> /\ PredDataRows[s] = << >>
    BY <1>4 DEF HasRows
  <2>2. mutation[s] = MutationRows[s] /\ predData[s] = PredDataRows[s]
    BY <1>1, <2>1, RepeatedNone
  <2> QED
    BY <1>1, <1>4, <2>2, SetReads
<1>5. CASE HasRows(s) /\ copies[s] # 1
  <2>1. copies[s] >= 2
    BY <1>1, <1>5
  <2> QED
    BY <1>1, <1>5, <2>1, SetReadsMore
<1> QED
  BY <1>3, <1>4, <1>5

\* A block reads back exactly if its sets have no second copies of rows.
LEMMA InvImpliesReadsBack == StoreInv => ReadsBack
<1> SUFFICES ASSUME StoreInv, NEW b \in block, Sets[b] # << >>
             PROVE  GetBlock(b) = Written(b)
                       <=> \A s \in Range(Sets[b]) : HasRows(s) => copies[s] = 1
  BY DEF ReadsBack
<1> DEFINE n == Len(Sets[b])
           get == [i \in 1..n |-> GetSolutionSet(Sets[b][i])]
           written == [i \in 1..n |-> Solutions[Sets[b][i]]]
<1>1. DOMAIN Sets[b] = 1..n /\ \A i \in 1..n : Sets[b][i] \in solutionSet
  BY StoredSets
<1>2. GetBlock(b) = [header |-> Header(b), sets |-> get]
      /\ Written(b) = [header |-> Header(b), sets |-> written]
  BY <1>1, BlockIs DEF Written
<1>3. GetBlock(b) = Written(b) <=> get = written
  <2> HIDE DEF get, written
  <2> QED
    BY <1>2
<1>4. get = written <=> \A i \in 1..n : GetSolutionSet(Sets[b][i]) = Solutions[Sets[b][i]]
  <2>1. ASSUME get = written, NEW i \in 1..n
        PROVE  GetSolutionSet(Sets[b][i]) = Solutions[Sets[b][i]]
    <3>1. get[i] = written[i]
      BY <2>1
    <3> QED
      BY <3>1
  <2> QED
    BY <2>1
<1>5. \A i \in 1..n : GetSolutionSet(Sets[b][i]) = Solutions[Sets[b][i]]
                         <=> (HasRows(Sets[b][i]) => copies[Sets[b][i]] = 1)
  BY <1>1, SetReadsExactly
<1>6. Range(Sets[b]) = {Sets[b][i] : i \in 1..n}
  BY <1>1 DEF Range
<1> QED
  BY <1>3, <1>4, <1>5, <1>6

\* get_block returns a block with everything in the order it was inserted,
\* whatever else is stored, exactly if each of its sets that has rows was inserted
\* once.
THEOREM BlocksReadBack == Spec => []ReadsBack
<1> QED
  BY Stored, InvImpliesReadsBack, PTL

-----------------------------------------------------------------------------
(* What sets write, and where it is found.                                 *)

Write == Contracts \X Seq(Word) \X Seq(Word)

Matches(x, contract, key) == x[1] = contract /\ x[2] = key

\* f[n] is what the first n writes leave under the key.
Values(f, ws, contract, key) ==
    f = [n \in 0..Len(ws) |->
            IF n = 0 THEN Unset
            ELSE IF ws[n][1] = contract /\ ws[n][2] = key THEN ws[n][3]
            ELSE f[n - 1]]

LastOf(ws, contract, key) == (CHOOSE f : Values(f, ws, contract, key))[Len(ws)]

\* What LastWrite computes.
LEMMA LastWriteIs ==
    ASSUME NEW b, NEW contract, NEW key, NEW i
    PROVE  LastWrite(b, contract, key, i)
              = LastOf(FlattenSeq([k \in 1..i |-> Writes[Sets[b][k]]]), contract, key)
BY DEF LastWrite, LastOf, Values

\* The last write of the key counts; without one, there is no value.
LEMMA LastOfIs ==
    ASSUME NEW S, NEW ws \in Seq(S), NEW contract, NEW key
    PROVE  \/ /\ LastOf(ws, contract, key) = Unset
              /\ \A p \in 1..Len(ws) : ~Matches(ws[p], contract, key)
           \/ \E p \in 1..Len(ws) :
                /\ Matches(ws[p], contract, key)
                /\ LastOf(ws, contract, key) = ws[p][3]
                /\ \A q \in 1..Len(ws) : q > p => ~Matches(ws[q], contract, key)
<1> DEFINE len == Len(ws)
           V == {Unset} \cup {ws[p][3] : p \in 1..len}
           step == [n \in 1..len |-> [v \in V |->
                      IF ws[n][1] = contract /\ ws[n][2] = key THEN ws[n][3] ELSE v]]
           g == CHOOSE f : Values(f, ws, contract, key)
<1>1. len \in Nat
  BY LenProperties
<1>2. Unset \in V /\ step \in [1..len -> [V -> V]]
  OBVIOUS
<1>3. PICK f \in [0..len -> V] : Steps(f, len, Unset, step)
  <2> HIDE DEF step, len, V
  <2> QED
    BY <1>1, <1>2, Recursion
<1>4. ASSUME NEW n \in 0..len
      PROVE  f[n] = IF n = 0 THEN Unset
                    ELSE IF ws[n][1] = contract /\ ws[n][2] = key THEN ws[n][3]
                    ELSE f[n - 1]
  <2>1. CASE n = 0
    BY <1>3, <2>1 DEF Steps
  <2>2. CASE n # 0
    <3>1. n \in 1..len /\ n - 1 \in 0..len
      BY <1>1, <2>2
    <3>2. f[n] = step[n][f[n - 1]] /\ f[n - 1] \in V
      BY <1>3, <3>1 DEF Steps
    <3> QED
      BY <2>2, <3>1, <3>2
  <2> QED
    BY <2>1, <2>2
<1>5. f = [n \in 0..len |-> f[n]]
  BY <1>3
<1>6. Values(f, ws, contract, key)
  <2> HIDE DEF V, step, g
  <2> QED
    BY <1>4, <1>5 DEF Values
<1>7. Values(g, ws, contract, key)
  BY <1>6
<1>8. LastOf(ws, contract, key) = g[len]
  BY DEF LastOf
<1> HIDE DEF g
<1>9. g = [n \in 0..len |->
             IF n = 0 THEN Unset
             ELSE IF ws[n][1] = contract /\ ws[n][2] = key THEN ws[n][3]
             ELSE g[n - 1]]
  BY <1>7 DEF Values
<1> HIDE DEF len, V, step
<1> DEFINE LastBy(n) ==
             \/ g[n] = Unset /\ \A p \in 1..n : ~Matches(ws[p], contract, key)
             \/ \E p \in 1..n : /\ Matches(ws[p], contract, key)
                                /\ g[n] = ws[p][3]
                                /\ \A q \in 1..n : q > p => ~Matches(ws[q], contract, key)
           T == {n \in 0..len : LastBy(n)}
<1>10. 0 \in T
  <2>1. 0 \in 0..len
    BY <1>1
  <2>2. g[0] = Unset
    BY <1>9, <2>1
  <2> QED
    BY <2>1, <2>2
<1>11. ASSUME NEW n \in 0..len, n < len, n \in T PROVE n + 1 \in T
  <2>1. n + 1 \in 0..len /\ n + 1 # 0 /\ (n + 1) - 1 = n /\ n \in Nat
    BY <1>1, <1>11
  <2>2. g[n + 1] = IF ws[n + 1][1] = contract /\ ws[n + 1][2] = key THEN ws[n + 1][3] ELSE g[n]
    BY <1>9, <2>1
  <2>3. LastBy(n)
    BY <1>11
  <2>4. \A p : p \in 1..(n + 1) <=> p \in 1..n \/ p = n + 1
    BY <2>1
  <2>5. CASE Matches(ws[n + 1], contract, key)
    <3>1. g[n + 1] = ws[n + 1][3]
      BY <2>2, <2>5 DEF Matches
    <3>2. n + 1 \in 1..(n + 1) /\ \A q \in 1..(n + 1) : ~(q > n + 1)
      BY <2>1
    <3>3. LastBy(n + 1)
      BY <2>5, <3>1, <3>2
    <3> QED
      BY <2>1, <3>3
  <2>6. CASE ~Matches(ws[n + 1], contract, key)
    <3>1. g[n + 1] = g[n]
      BY <2>2, <2>6 DEF Matches
    <3>2. LastBy(n + 1)
      BY <2>3, <2>4, <2>6, <3>1
    <3> QED
      BY <2>1, <3>2
  <2> QED
    BY <2>5, <2>6
<1>12. len \in T
  <2> HIDE DEF T
  <2>1. len \in 0..len
    BY <1>1
  <2> QED
    BY <1>1, <1>10, <1>11, <2>1, UpTo
<1>13. LastBy(len)
  BY <1>12
<1> QED
  BY <1>8, <1>13 DEF len

\* Writes after writes.
LEMMA LastOfConcat ==
    ASSUME NEW S, NEW u \in Seq(S), NEW v \in Seq(S), NEW w, Same(w, u \o v),
           NEW contract, NEW key
    PROVE  \/ /\ LastOf(w, contract, key) = LastOf(u, contract, key)
              /\ \A x \in Range(v) : ~Matches(x, contract, key)
           \/ \E x \in Range(v) : Matches(x, contract, key) /\ LastOf(w, contract, key) = x[3]
<1> DEFINE P(x) == Matches(x, contract, key)
           last(z) == LastOf(z, contract, key)
<1>1. /\ w \in Seq(S) /\ Len(u) \in Nat /\ Len(v) \in Nat /\ Len(w) = Len(u) + Len(v)
      /\ \A p \in 1..Len(u) : w[p] = u[p]
      /\ \A p \in 1..Len(v) : w[Len(u) + p] = v[p]
  <2>1. Len(u) \in Nat /\ Len(v) \in Nat
    BY LenProperties
  <2>2. /\ w \in Seq(S) /\ Len(w) = Len(u) + Len(v)
        /\ \A i \in 1..Len(u) + Len(v) : w[i] = IF i <= Len(u) THEN u[i] ELSE v[i - Len(u)]
    BY ConcatProperties DEF Same
  <2>3. \A p \in 1..Len(u) : w[p] = u[p]
    BY <2>1, <2>2
  <2>4. ASSUME NEW p \in 1..Len(v) PROVE w[Len(u) + p] = v[p]
    <3>1. Len(u) + p \in 1..Len(u) + Len(v) /\ ~(Len(u) + p <= Len(u)) /\ (Len(u) + p) - Len(u) = p
      BY <2>1
    <3> QED
      BY <2>2, <3>1
  <2> QED
    BY <2>1, <2>2, <2>3, <2>4
<1>2. Range(v) = {v[p] : p \in 1..Len(v)}
  <2>1. DOMAIN v = 1..Len(v)
    BY LenProperties
  <2> QED
    BY <2>1 DEF Range
<1>3. \/ last(w) = Unset /\ \A p \in 1..Len(w) : ~P(w[p])
      \/ \E p \in 1..Len(w) : P(w[p]) /\ last(w) = w[p][3] /\ \A q \in 1..Len(w) : q > p => ~P(w[q])
  BY <1>1, LastOfIs
<1>4. \/ last(u) = Unset /\ \A p \in 1..Len(u) : ~P(u[p])
      \/ \E p \in 1..Len(u) : P(u[p]) /\ last(u) = u[p][3] /\ \A q \in 1..Len(u) : q > p => ~P(u[q])
  BY LastOfIs
<1> HIDE DEF P, last
<1>5. CASE \E q \in 1..Len(v) : P(v[q])
  <2>1. PICK q \in 1..Len(v) : P(v[q])
    BY <1>5
  <2>2. Len(u) + q \in 1..Len(w) /\ P(w[Len(u) + q])
    BY <1>1, <2>1
  <2>3. PICK p \in 1..Len(w) : P(w[p]) /\ last(w) = w[p][3] /\ \A r \in 1..Len(w) : r > p => ~P(w[r])
    BY <1>3, <2>2
  <2>4. p >= Len(u) + q
    BY <1>1, <2>2, <2>3
  <2>5. p - Len(u) \in 1..Len(v) /\ Len(u) + (p - Len(u)) = p
    BY <1>1, <2>4
  <2>6. w[p] = v[p - Len(u)]
    BY <1>1, <2>5
  <2> QED
    BY <1>2, <2>3, <2>5, <2>6 DEF P, last
<1>6. CASE \A q \in 1..Len(v) : ~P(v[q])
  <2>1. ASSUME NEW q \in 1..Len(w), P(w[q]) PROVE q \in 1..Len(u)
    <3>1. CASE q > Len(u)
      <4>1. q - Len(u) \in 1..Len(v) /\ Len(u) + (q - Len(u)) = q
        BY <1>1, <3>1
      <4> QED
        BY <1>1, <1>6, <2>1, <4>1
    <3> QED
      BY <1>1, <3>1
  <2>2. 1..Len(u) \subseteq 1..Len(w)
    BY <1>1
  <2>3. last(w) = last(u)
    <3>1. CASE last(w) = Unset /\ \A p \in 1..Len(w) : ~P(w[p])
      <4>1. \A p \in 1..Len(u) : ~P(u[p])
        BY <1>1, <2>2, <3>1
      <4> QED
        BY <1>4, <3>1, <4>1
    <3>2. ASSUME NEW p \in 1..Len(w), P(w[p]), last(w) = w[p][3],
                 \A q \in 1..Len(w) : q > p => ~P(w[q])
          PROVE  last(w) = last(u)
      <4>1. p \in 1..Len(u) /\ w[p] = u[p]
        BY <1>1, <2>1, <3>2
      <4>2. PICK r \in 1..Len(u) : P(u[r]) /\ last(u) = u[r][3] /\ \A q \in 1..Len(u) : q > r => ~P(u[q])
        BY <1>4, <3>2, <4>1
      <4>3. r \in 1..Len(w) /\ w[r] = u[r]
        BY <1>1, <2>2
      <4>4. ~(r > p) /\ ~(p > r)
        BY <3>2, <4>1, <4>2, <4>3
      <4>5. r = p
        BY <4>1, <4>4
      <4> QED
        BY <3>2, <4>1, <4>2, <4>5
    <3> QED
      BY <1>3, <3>1, <3>2
  <2>4. \A x \in Range(v) : ~P(x)
    BY <1>2, <1>6
  <2> QED
    BY <2>3, <2>4 DEF P, last
<1> QED
  BY <1>5, <1>6

\* v is written by the last of the sequences that write the key.
LeftBy(ss, n, contract, key, v) ==
    \E k \in 1..n :
        /\ \E x \in Range(ss[k]) : Matches(x, contract, key) /\ v = x[3]
        /\ \A j \in 1..n : j > k => \A x \in Range(ss[j]) : ~Matches(x, contract, key)

\* The value that the last of several sequences of writes leaves, of those that
\* write the key.
LEMMA LastOfGroups ==
    ASSUME NEW S, NEW n \in Nat, NEW ss \in [1..n -> Seq(S)], NEW contract, NEW key,
           LastOf(FlattenSeq(ss), contract, key) # Unset
    PROVE  LeftBy(ss, n, contract, key, LastOf(FlattenSeq(ss), contract, key))
<1> DEFINE first(m) == [i \in 1..m |-> ss[i]]
           P(x) == Matches(x, contract, key)
           last(z) == LastOf(z, contract, key)
           From(m, k) == /\ \E x \in Range(ss[k]) : P(x) /\ last(FlattenSeq(first(m))) = x[3]
                         /\ \A j \in 1..m : j > k => \A x \in Range(ss[j]) : ~P(x)
           T == {m \in 0..n : last(FlattenSeq(first(m))) # Unset => \E k \in 1..m : From(m, k)}
<1>1. 0 \in T
  <2>1. first(0) \in [1..0 -> {}]
    OBVIOUS
  <2>2. FlattenSeq(first(0)) = << >>
    BY <2>1, FlattenNone
  <2>3. << >> \in Seq(S) /\ Len(<< >>) = 0
    OBVIOUS
  <2>4. ASSUME NEW z \in Seq(S), Len(z) = 0 PROVE last(z) = Unset
    <3>1. 1..Len(z) = {}
      BY <2>4
    <3> QED
      BY <3>1, LastOfIs
  <2> HIDE DEF first, last
  <2>5. last(FlattenSeq(first(0))) = Unset
    BY <2>2, <2>3, <2>4
  <2> QED
    BY <2>5
<1>2. ASSUME NEW m \in 0..n, m < n, m \in T PROVE m + 1 \in T
  <2>1. m \in Nat /\ m + 1 \in 0..n /\ m + 1 \in 1..n /\ m + 1 \in 1..(m + 1)
    BY <1>2
  <2>2. first(m) \in [1..m -> Seq(S)] /\ first(m + 1) \in [1..(m + 1) -> Seq(S)]
    BY <1>2
  <2>3. [i \in 1..m |-> first(m + 1)[i]] = first(m) /\ first(m + 1)[m + 1] = ss[m + 1]
    BY <2>1
  <2> DEFINE u == FlattenSeq(first(m))
             v == ss[m + 1]
             w == FlattenSeq(first(m + 1))
  <2>4. Same(w, u \o v)
    <3> HIDE DEF first
    <3> QED
      BY <2>1, <2>2, <2>3, FlattenStep DEF Same
  <2>5. u \in Seq(S) /\ v \in Seq(S)
    <3>1. v \in Seq(S)
      BY <2>1
    <3> HIDE DEF first
    <3> QED
      BY <2>1, <2>2, <3>1, FlattenRange
  <2> HIDE DEF first, u, v, w
  <2>6. \/ last(w) = last(u) /\ \A x \in Range(v) : ~P(x)
        \/ \E x \in Range(v) : P(x) /\ last(w) = x[3]
    BY <2>4, <2>5, LastOfConcat
  <2> HIDE DEF P, last
  <2>7. \A j : j \in 1..(m + 1) <=> j \in 1..m \/ j = m + 1
    BY <2>1
  <2>8. CASE last(w) = last(u) /\ \A x \in Range(v) : ~P(x)
    <3>1. CASE last(w) = Unset
      BY <2>1, <3>1 DEF w
    <3>2. CASE last(w) # Unset
      <4>1. PICK k \in 1..m : From(m, k)
        BY <1>2, <2>8, <3>2 DEF u
      <4>2. k \in 1..(m + 1)
        BY <2>1
      <4>3. \E x \in Range(ss[k]) : P(x) /\ last(FlattenSeq(first(m + 1))) = x[3]
        BY <2>8, <4>1 DEF u, w
      <4>4. \A j \in 1..(m + 1) : j > k => \A x \in Range(ss[j]) : ~P(x)
        BY <2>7, <2>8, <4>1 DEF v
      <4> QED
        BY <2>1, <4>2, <4>3, <4>4
    <3> QED
      BY <3>1, <3>2
  <2>9. CASE \E x \in Range(v) : P(x) /\ last(w) = x[3]
    <3>1. \A j \in 1..(m + 1) : ~(j > m + 1)
      BY <2>1
    <3>2. From(m + 1, m + 1)
      BY <2>9, <3>1 DEF v, w
    <3> QED
      BY <2>1, <3>2
  <2> QED
    BY <2>6, <2>8, <2>9
<1>3. n \in T
  <2> HIDE DEF T
  <2>1. n \in 0..n
    OBVIOUS
  <2> QED
    BY <1>1, <1>2, <2>1, UpTo
<1>4. first(n) = ss
  OBVIOUS
<1>5. PICK k \in 1..n : From(n, k)
  <2>1. last(FlattenSeq(first(n))) # Unset
    BY <1>4
  <2> QED
    BY <1>3, <2>1
<1> QED
  BY <1>4, <1>5 DEF LeftBy

\* One element and two.
LEMMA OneAndTwo ==
    ASSUME NEW S, NEW s \in Seq(S), NEW t \in Seq(S), NEW u \in Seq(S),
           Len(s) = 1, Len(t) = 2, Len(u) = 3, u[1] = s[1], u[2] = t[1], u[3] = t[2]
    PROVE  Same(s \o t, u)
<1> DEFINE v == s \o t
<1>1. /\ v \in Seq(S) /\ Len(v) = Len(s) + Len(t)
      /\ \A i \in 1..Len(s) + Len(t) : v[i] = IF i <= Len(s) THEN s[i] ELSE t[i - Len(s)]
  BY ConcatProperties
<1> HIDE DEF v
<1>2. Len(v) = 3 /\ \A i \in 1..3 : v[i] = IF i <= 1 THEN s[i] ELSE t[i - 1]
  BY <1>1
<1>3. v[1] = s[1] /\ v[2] = t[1] /\ v[3] = t[2]
  BY <1>2
<1>4. \A i \in 1..Len(v) : v[i] = u[i]
  BY <1>2, <1>3
<1>5. v = u
  BY <1>1, <1>2, <1>4, SeqEqual
<1> QED
  BY <1>5 DEF Same, v

\* A contract before a mutation is a write.
LEMMA Prepended ==
    ASSUME NEW A, NEW B, NEW a, NEW m \in A \X B
    PROVE  Same(<<a>> \o m, <<a, m[1], m[2]>>)
<1>1. m = <<m[1], m[2]>>
  OBVIOUS
<1>2. ASSUME NEW x, NEW y PROVE Same(<<a>> \o <<x, y>>, <<a, x, y>>)
  <2> DEFINE S == {a, x, y}
             s == <<a>>
             t == <<x, y>>
             u == <<a, x, y>>
  <2>1. s \in Seq(S) /\ t \in Seq(S) /\ u \in Seq(S)
    OBVIOUS
  <2>2. Len(s) = 1 /\ Len(t) = 2 /\ Len(u) = 3
    OBVIOUS
  <2>3. u[1] = s[1] /\ u[2] = t[1] /\ u[3] = t[2]
    OBVIOUS
  <2> HIDE DEF S, s, t, u
  <2>4. Same(s \o t, u)
    BY <2>1, <2>2, <2>3, OneAndTwo
  <2> QED
    BY <2>4 DEF s, t, u
<1> QED
  BY <1>1, <1>2 DEF Same

\* The writes of a set are its mutations, each with its contract.
LEMMA WritesAre ==
    ASSUME NEW s \in SolutionSets
    PROVE  /\ Writes[s] \in Seq(Write)
           /\ \A x : x \in Range(Writes[s])
                       <=> \E i \in 1..Len(Solutions[s]) :
                           \E j \in 1..Len(Solutions[s][i].mutations) :
                              x = <<Solutions[s][i].contract, Solutions[s][i].mutations[j][1],
                                    Solutions[s][i].mutations[j][2]>>
<1> DEFINE n == Len(Solutions[s])
           groups == [i \in 1..n |->
                        [j \in 1..Len(Solutions[s][i].mutations) |->
                           <<Solutions[s][i].contract>> \o Solutions[s][i].mutations[j]]]
           write(i, j) == <<Solutions[s][i].contract, Solutions[s][i].mutations[j][1],
                            Solutions[s][i].mutations[j][2]>>
<1>1. n \in Nat /\ DOMAIN Solutions[s] = 1..n
  BY SolutionsAre
<1>2. ASSUME NEW i \in 1..n
      PROVE  /\ Solutions[s][i].contract \in Contracts
             /\ Solutions[s][i].mutations \in Seq(Seq(Word) \X Seq(Word))
             /\ Len(Solutions[s][i].mutations) \in Nat
             /\ DOMAIN Solutions[s][i].mutations = 1..Len(Solutions[s][i].mutations)
  <2>1. Solutions[s][i] \in Solution
    BY SolutionsAre
  <2>2. Solutions[s][i].contract \in Contracts
    BY <2>1 DEF Solution
  <2>3. Solutions[s][i].mutations \in Seq(Seq(Word) \X Seq(Word))
    BY SolutionIs
  <2> QED
    BY <2>2, <2>3, LenProperties
<1>3. Writes[s] = FlattenSeq(groups)
  <2>1. \A i \in 1..n : DOMAIN Solutions[s][i].mutations = 1..Len(Solutions[s][i].mutations)
    BY <1>2
  <2> QED
    BY <1>1, <2>1 DEF Writes
<1>4. ASSUME NEW i \in 1..n, NEW j \in 1..Len(Solutions[s][i].mutations)
      PROVE  groups[i][j] = write(i, j) /\ write(i, j) \in Write
  <2>1. Solutions[s][i].mutations[j] \in Seq(Word) \X Seq(Word)
    BY <1>2, ElementOfSeq
  <2>2. Same(<<Solutions[s][i].contract>> \o Solutions[s][i].mutations[j], write(i, j))
    BY <2>1, Prepended
  <2>3. write(i, j) \in Write
    BY <1>2, <2>1 DEF Write
  <2>4. groups[i][j] = <<Solutions[s][i].contract>> \o Solutions[s][i].mutations[j]
    OBVIOUS
  <2> QED
    BY <2>2, <2>3, <2>4 DEF Same
<1>5. ASSUME NEW i \in 1..n
      PROVE  /\ groups[i] \in Seq(Write)
             /\ Range(groups[i]) = {write(i, j) : j \in 1..Len(Solutions[s][i].mutations)}
  <2>1. groups[i] = [j \in 1..Len(Solutions[s][i].mutations) |-> groups[i][j]]
    OBVIOUS
  <2> HIDE DEF groups, write
  <2>2. groups[i] \in [1..Len(Solutions[s][i].mutations) -> Write]
    BY <1>4, <2>1
  <2>3. groups[i] \in Seq(Write)
    BY <1>2, <2>2, SequenceIs
  <2>4. Range(groups[i]) = {groups[i][j] : j \in 1..Len(Solutions[s][i].mutations)}
    BY <2>2 DEF Range
  <2> QED
    BY <1>4, <2>3, <2>4
<1>6. groups = [i \in 1..n |-> groups[i]]
  OBVIOUS
<1> HIDE DEF groups, n
<1>7. groups \in [1..n -> Seq(Write)]
  BY <1>5, <1>6
<1>8. /\ Writes[s] \in Seq(Write)
      /\ \A x : x \in Range(Writes[s]) <=> \E i \in 1..n : x \in Range(groups[i])
  BY <1>1, <1>3, <1>7, FlattenRange
<1> QED
  BY <1>5, <1>8 DEF n

\* The rows of a stored set, inserted however often, are those of one insertion.
LEMMA SameRows ==
    ASSUME StoreInv, NEW s \in solutionSet
    PROVE  s \in SolutionSets /\ Range(mutation[s]) = Range(MutationRows[s])
<1>1. /\ s \in SolutionSets /\ copies[s] \in Nat /\ copies[s] >= 1
      /\ mutation[s] = Repeated(MutationRows[s], copies[s])
  BY StoreAssumption DEF StoreAssumption, StoreInv, RowsInv
<1>2. MutationRows[s] \in Seq(MutationRow)
  BY <1>1, MutationRowsAre
<1> DEFINE n == copies[s]
           ss == [i \in 1..n |-> MutationRows[s]]
<1>3. ss \in [1..n -> Seq(MutationRow)] /\ \A i \in 1..n : ss[i] = MutationRows[s]
  BY <1>2
<1>4. mutation[s] = FlattenSeq(ss)
  BY <1>1 DEF Repeated
<1>5. n \in Nat /\ 1 \in 1..n
  BY <1>1
<1> HIDE DEF ss, n
<1>6. \A x : x \in Range(FlattenSeq(ss)) <=> \E i \in 1..n : x \in Range(ss[i])
  BY <1>3, <1>5, FlattenRange
<1>7. \A x : x \in Range(mutation[s]) <=> x \in Range(MutationRows[s])
  BY <1>3, <1>4, <1>5, <1>6
<1> QED
  BY <1>1, <1>7

\* Blobs tell keys apart.
LEMMA BlobsDiffer ==
    ASSUME NEW x \in Seq(Word), NEW y \in Seq(Word), BlobFromWords(x) = BlobFromWords(y)
    PROVE  x = y
BY BlobReads

\* A row of the set holds the blob v for the key.
Holds(s, contract, key, v) ==
    \E m \in Range(MutationRows[s]) :
        /\ m.key = BlobFromWords(key)
        /\ Solutions[s][m.solution].contract = contract
        /\ v = m.value

\* The set writes the key, with v as its blob.
Wrote(s, contract, key, v) ==
    \E x \in Range(Writes[s]) : Matches(x, contract, key) /\ v = BlobFromWords(x[3])

\* The rows of a set for a key of a contract hold the values that it writes.
LEMMA RowsHoldWrites ==
    ASSUME NEW s \in SolutionSets, NEW contract, NEW key \in Seq(Word), NEW v
    PROVE  Holds(s, contract, key, v) <=> Wrote(s, contract, key, v)
<1> DEFINE n == Len(Solutions[s])
           ms(i) == Solutions[s][i].mutations
           row(i, j) == MutationGroups(s)[i][j]
           write(i, j) == <<Solutions[s][i].contract, ms(i)[j][1], ms(i)[j][2]>>
<1>1. ASSUME NEW i \in 1..n
      PROVE  Range(MutationGroups(s)[i]) = {row(i, j) : j \in 1..Len(ms(i))}
  <2>1. MutationGroups(s)[i] \in Seq(MutationRow) /\ Len(MutationGroups(s)[i]) = Len(ms(i))
    BY MutationGroupIs
  <2> QED
    BY <2>1, RangeEquality
<1>2. ASSUME NEW i \in 1..n, NEW j \in 1..Len(ms(i))
      PROVE  /\ row(i, j).solution = i
             /\ row(i, j).key = BlobFromWords(ms(i)[j][1]) /\ row(i, j).value = BlobFromWords(ms(i)[j][2])
             /\ ms(i)[j][1] \in Seq(Word)
  <2>1. ms(i) \in Seq(Seq(Word) \X Seq(Word))
    BY SolutionIs
  <2>2. ms(i)[j] \in Seq(Word) \X Seq(Word)
    BY <2>1, ElementOfSeq
  <2>3. ms(i)[j][1] \in Seq(Word)
    BY <2>2
  <2> QED
    BY <2>3, MutationRowIs
<1>3. \A x : x \in Range(MutationRows[s]) <=> \E i \in 1..n : x \in Range(MutationGroups(s)[i])
  BY MutationRowsAre
<1>4. \A x : x \in Range(Writes[s]) <=> \E i \in 1..n : \E j \in 1..Len(ms(i)) : x = write(i, j)
  BY WritesAre
<1>5. ASSUME NEW i \in 1..n, NEW j \in 1..Len(ms(i))
      PROVE  /\ write(i, j)[1] = Solutions[s][i].contract /\ write(i, j)[2] = ms(i)[j][1]
             /\ write(i, j)[3] = ms(i)[j][2]
  OBVIOUS
<1> HIDE DEF n, ms, row, write
<1>6. ASSUME NEW m \in Range(MutationRows[s]), m.key = BlobFromWords(key),
             Solutions[s][m.solution].contract = contract, v = m.value
      PROVE  Wrote(s, contract, key, v)
  <2>1. PICK i \in 1..n : m \in Range(MutationGroups(s)[i])
    BY <1>3
  <2>2. PICK j \in 1..Len(ms(i)) : m = row(i, j)
    BY <1>1, <2>1
  <2>3. m.solution = i /\ m.key = BlobFromWords(ms(i)[j][1]) /\ m.value = BlobFromWords(ms(i)[j][2])
        /\ ms(i)[j][1] \in Seq(Word)
    BY <1>2, <2>2
  <2>4. ms(i)[j][1] = key
    BY <1>6, <2>3, BlobsDiffer
  <2>5. write(i, j) \in Range(Writes[s])
    BY <1>4
  <2>6. Matches(write(i, j), contract, key)
    BY <1>5, <1>6, <2>3, <2>4 DEF Matches
  <2>7. v = BlobFromWords(write(i, j)[3])
    BY <1>5, <1>6, <2>3
  <2> QED
    BY <2>5, <2>6, <2>7 DEF Wrote
<1>7. ASSUME NEW x \in Range(Writes[s]), Matches(x, contract, key), v = BlobFromWords(x[3])
      PROVE  Holds(s, contract, key, v)
  <2>1. PICK i \in 1..n : \E j \in 1..Len(ms(i)) : x = write(i, j)
    BY <1>4
  <2>2. PICK j \in 1..Len(ms(i)) : x = write(i, j)
    BY <2>1
  <2>3. row(i, j) \in Range(MutationRows[s])
    BY <1>1, <1>3
  <2>4. ms(i)[j][1] = key /\ Solutions[s][i].contract = contract /\ v = BlobFromWords(ms(i)[j][2])
    BY <1>5, <1>7, <2>2 DEF Matches
  <2>5. /\ row(i, j).key = BlobFromWords(key)
        /\ Solutions[s][row(i, j).solution].contract = contract
        /\ v = row(i, j).value
    BY <1>2, <2>4
  <2> QED
    BY <2>3, <2>5 DEF Holds
<1> QED
  BY <1>6, <1>7 DEF Holds, Wrote

\* The hits of a key in a block: the writes of its sets, each at its index.
LEMMA HitsAre ==
    ASSUME StoreInv, NEW b \in block, NEW contract, NEW key \in Seq(Word)
    PROVE  \A h : h \in Hits(b, contract, key)
                    <=> \E k \in 1..Len(Sets[b]) : \E x \in Range(Writes[Sets[b][k]]) :
                           Matches(x, contract, key) /\ h = <<k, BlobFromWords(x[3])>>
<1> SUFFICES ASSUME NEW h
             PROVE  h \in Hits(b, contract, key)
                      <=> \E k \in 1..Len(Sets[b]) : \E x \in Range(Writes[Sets[b][k]]) :
                             Matches(x, contract, key) /\ h = <<k, BlobFromWords(x[3])>>
  OBVIOUS
<1> DEFINE n == Len(Sets[b])
           Hit(m, s) == m.key = BlobFromWords(key) /\ Solutions[s][m.solution].contract = contract
           hits(k) == {<<k, m.value>> : m \in {x \in Range(mutation[Sets[b][k]]) : Hit(x, Sets[b][k])}}
           rows == {x \in blockSet : x[1] = b}
           of(r) == {<<r[3], m.value>> : m \in {x \in Range(mutation[r[2]]) : Hit(x, r[2])}}
<1>1. /\ n \in Nat /\ DOMAIN Sets[b] = 1..n
      /\ \A k \in 1..n : Sets[b][k] \in solutionSet /\ Sets[b][k] \in SolutionSets
  BY StoredSets
<1>2. Hits(b, contract, key) = UNION {of(r) : r \in rows}
  BY DEF Hits
<1>3. ASSUME NEW r \in rows PROVE \E k \in 1..n : r = <<b, Sets[b][k], k>>
  <2>1. PICK c \in block : r \in {<<c, Sets[c][i], i>> : i \in DOMAIN Sets[c]}
    BY DEF StoreInv, RowsInv
  <2>2. PICK i \in DOMAIN Sets[c] : r = <<c, Sets[c][i], i>>
    BY <2>1
  <2>3. c = b
    BY <2>2
  <2> QED
    BY <1>1, <2>2, <2>3
<1>4. ASSUME NEW k \in 1..n PROVE <<b, Sets[b][k], k>> \in rows
  <2>1. <<b, Sets[b][k], k>> \in blockSet
    BY <1>1, BlockSetIs
  <2> QED
    BY <2>1
<1>5. ASSUME NEW k \in 1..n PROVE of(<<b, Sets[b][k], k>>) = hits(k)
  OBVIOUS
<1> HIDE DEF rows, of
<1>6. h \in Hits(b, contract, key) <=> \E k \in 1..n : h \in hits(k)
  <2>1. ASSUME h \in Hits(b, contract, key) PROVE \E k \in 1..n : h \in hits(k)
    <3>1. PICK r \in rows : h \in of(r)
      BY <1>2, <2>1
    <3>2. PICK k \in 1..n : r = <<b, Sets[b][k], k>>
      BY <1>3
    <3> QED
      BY <1>5, <3>1, <3>2
  <2>2. ASSUME NEW k \in 1..n, h \in hits(k) PROVE h \in Hits(b, contract, key)
    <3>1. h \in of(<<b, Sets[b][k], k>>)
      BY <1>5, <2>2
    <3> QED
      BY <1>2, <1>4, <3>1
  <2> QED
    BY <2>1, <2>2
<1>7. ASSUME NEW k \in 1..n
      PROVE  h \in hits(k) <=> \E x \in Range(Writes[Sets[b][k]]) :
                                  Matches(x, contract, key) /\ h = <<k, BlobFromWords(x[3])>>
  <2> DEFINE s == Sets[b][k]
             W(v) == \E x \in Range(Writes[s]) : Matches(x, contract, key) /\ v = BlobFromWords(x[3])
             R(v) == \E m \in Range(MutationRows[s]) : Hit(m, s) /\ v = m.value
  <2>1. s \in SolutionSets /\ Range(mutation[s]) = Range(MutationRows[s])
    BY <1>1, SameRows
  <2>2. \A v : R(v) <=> W(v)
    <3> HIDE DEF s
    <3>1. ASSUME NEW v PROVE Holds(s, contract, key, v) <=> Wrote(s, contract, key, v)
      BY <2>1, RowsHoldWrites
    <3> QED
      BY <3>1, Zenon DEF Holds, Wrote
  <2>3. h \in hits(k) <=> \E v : R(v) /\ h = <<k, v>>
    <3>1. hits(k) = {<<k, m.value>> : m \in {x \in Range(MutationRows[s]) : Hit(x, s)}}
      BY <2>1
    <3> HIDE DEF hits, Hit, s
    <3> QED
      BY <3>1
  <2>4. (\E x \in Range(Writes[s]) : Matches(x, contract, key) /\ h = <<k, BlobFromWords(x[3])>>)
          <=> \E v : W(v) /\ h = <<k, v>>
    <3> HIDE DEF s
    <3> QED
      OBVIOUS
  <2> HIDE DEF W, R
  <2> QED
    BY <2>2, <2>3, <2>4
<1> HIDE DEF hits
<1> QED
  BY <1>6, <1>7

\* A query finds the value of the last of the sets that write the key.
LEMMA AddressReadsLast ==
    ASSUME StoreInv, NEW b \in block, NEW contract, NEW key \in Seq(Word),
           NEW last \in Nat, NEW k \in 1..Len(Sets[b]), k <= last,
           NEW x \in Range(Writes[Sets[b][k]]), Matches(x, contract, key), x[3] \in Seq(Word),
           \A y \in Range(Writes[Sets[b][k]]) : Matches(y, contract, key) => y = x,
           \A j \in 1..Len(Sets[b]) : j > k /\ j <= last =>
              \A y \in Range(Writes[Sets[b][j]]) : ~Matches(y, contract, key)
    PROVE  AddressUpTo(b, contract, key, last) = x[3]
<1> DEFINE n == Len(Sets[b])
           hits == Hits(b, contract, key)
           upTo == {h \in hits : h[1] <= last}
           hit == <<k, BlobFromWords(x[3])>>
           top == CHOOSE h \in upTo : \A g \in upTo : g[1] <= h[1]
<1>1. n \in Nat
  BY StoredSets
<1>2. \A h : h \in hits <=> \E j \in 1..n : \E y \in Range(Writes[Sets[b][j]]) :
                Matches(y, contract, key) /\ h = <<j, BlobFromWords(y[3])>>
  BY HitsAre
<1>3. hit \in hits /\ hit \in upTo /\ hit[1] = k
  BY <1>1, <1>2
<1>4. ASSUME NEW h \in upTo
      PROVE  h[1] \in 1..n /\ h[1] <= k /\ (h[1] = k => h = hit)
  <2>1. PICK j \in 1..n : \E y \in Range(Writes[Sets[b][j]]) :
                Matches(y, contract, key) /\ h = <<j, BlobFromWords(y[3])>>
    BY <1>2
  <2>2. PICK y \in Range(Writes[Sets[b][j]]) :
                Matches(y, contract, key) /\ h = <<j, BlobFromWords(y[3])>>
    BY <2>1
  <2>3. h[1] = j /\ j <= last
    BY <2>2
  <2>4. ~(j > k)
    BY <2>2, <2>3
  <2>5. ASSUME j = k PROVE h = hit
    BY <2>2, <2>5
  <2> QED
    BY <1>1, <2>3, <2>4, <2>5
<1> HIDE DEF hits, upTo, hit
<1>5. \A g \in upTo : g[1] <= hit[1]
  BY <1>3, <1>4
<1>6. top \in upTo /\ \A g \in upTo : g[1] <= top[1]
  BY <1>3, <1>5
<1> HIDE DEF top
<1>7. top[1] >= k
  BY <1>3, <1>4, <1>6
<1>8. top = hit
  BY <1>1, <1>4, <1>6, <1>7
<1>9. LastHit(upTo) = WordsFromBlob(hit[2])
  BY <1>8 DEF LastHit, top
<1>10. hit[2] = BlobFromWords(x[3])
  BY DEF hit
<1>11. hits # {} /\ upTo # {}
  BY <1>3
<1>12. AddressUpTo(b, contract, key, last) = LastHit(upTo)
  BY <1>11 DEF AddressUpTo, hits, upTo
<1> QED
  BY <1>9, <1>10, <1>12, BlobReads

\* The last set that writes a key is the last hit, and its value the one read.
LEMMA InvImpliesAddressReads == StoreInv => AddressReadsOwnBlock
<1> SUFFICES ASSUME StoreInv, NEW b \in block, NEW w \in StateWrites, NEW i \in DOMAIN Sets[b],
                    LastWrite(b, w[1], w[2], i) # Unset, OneValue(b, w[1], w[2])
             PROVE  /\ AddressInclusiveSolutionSet(b, w[1], w[2], i) = LastWrite(b, w[1], w[2], i)
                    /\ AddressExclusiveSolutionSet(b, w[1], w[2], i + 1) = LastWrite(b, w[1], w[2], i)
                    /\ i = Len(Sets[b]) =>
                          AddressInclusiveBlock(b, w[1], w[2]) = LastWrite(b, w[1], w[2], i)
  BY DEF AddressReadsOwnBlock
<1> DEFINE n == Len(Sets[b])
           v == LastWrite(b, w[1], w[2], i)
           ss == [k \in 1..i |-> Writes[Sets[b][k]]]
<1>1. /\ n \in Nat /\ DOMAIN Sets[b] = 1..n /\ i \in 1..n /\ MaxInserts \in Nat /\ n <= MaxInserts
      /\ \A k \in 1..n : Sets[b][k] \in SolutionSets
  BY StoredSets
<1>2. w[2] \in Seq(Word)
  BY StoreAssumption DEF StoreAssumption
<1>3. ASSUME NEW k \in 1..i PROVE Writes[Sets[b][k]] \in Seq(Write) /\ k \in 1..n
  <2>1. k \in 1..n
    BY <1>1
  <2> QED
    BY <1>1, <2>1, WritesAre
<1>4. ss \in [1..i -> Seq(Write)] /\ i \in Nat
  BY <1>1, <1>3
<1>5. v = LastOf(FlattenSeq(ss), w[1], w[2])
  BY LastWriteIs
<1>6. PICK k \in 1..i :
         /\ \E x \in Range(ss[k]) : Matches(x, w[1], w[2]) /\ v = x[3]
         /\ \A j \in 1..i : j > k => \A x \in Range(ss[j]) : ~Matches(x, w[1], w[2])
  <2> DEFINE contract == w[1]
             key == w[2]
             found == LastOf(FlattenSeq(ss), contract, key)
  <2>1. found # Unset /\ v = found
    BY <1>5
  <2> HIDE DEF ss, v, contract, key
  <2>2. LeftBy(ss, i, contract, key, found)
    BY <1>4, <2>1, LastOfGroups
  <2> HIDE DEF found
  <2> QED
    BY <2>1, <2>2 DEF contract, key, LeftBy
<1>7. PICK x \in Range(Writes[Sets[b][k]]) : Matches(x, w[1], w[2]) /\ v = x[3]
  BY <1>6
<1>8. x[3] \in Seq(Word)
  <2>1. x \in Write
    BY <1>3, RangeOfSeq
  <2> QED
    BY <2>1 DEF Write
<1>9. \A y \in Range(Writes[Sets[b][k]]) : Matches(y, w[1], w[2]) => y = x
  BY <1>1, <1>3, <1>7 DEF OneValue, Matches
<1>10. ASSUME NEW last \in Nat, last = i \/ (i = n /\ i <= last)
       PROVE  AddressUpTo(b, w[1], w[2], last) = v
  <2>1. k \in 1..n /\ k <= last
    BY <1>1, <1>10
  <2>2. ASSUME NEW j \in 1..n, j > k, j <= last
        PROVE  \A y \in Range(Writes[Sets[b][j]]) : ~Matches(y, w[1], w[2])
    <3>1. j \in 1..i
      BY <1>1, <1>10, <2>2
    <3> QED
      BY <1>6, <2>2, <3>1
  <2> HIDE DEF v
  <2> QED
    BY <1>2, <1>7, <1>8, <1>9, <2>1, <2>2, AddressReadsLast
<1> HIDE DEF v
<1>11. AddressInclusiveSolutionSet(b, w[1], w[2], i) = v
  BY <1>4, <1>10 DEF AddressInclusiveSolutionSet
<1>12. AddressExclusiveSolutionSet(b, w[1], w[2], i + 1) = v
  <2>1. i + 1 # 1 /\ (i + 1) - 1 = i
    BY <1>1
  <2> QED
    BY <1>11, <2>1 DEF AddressExclusiveSolutionSet
<1>13. ASSUME i = n PROVE AddressInclusiveBlock(b, w[1], w[2]) = v
  BY <1>1, <1>10, <1>13 DEF AddressInclusiveBlock
<1> QED
  BY <1>11, <1>12, <1>13 DEF v

\* A query by block address finds the last value that the block's own sets up to
\* the given one leave, in a fork as well as in the finalized block, however often
\* the sets were inserted.
THEOREM AddressesReadOwnBlock == Spec => []AddressReadsOwnBlock
<1> QED
  BY Stored, InvImpliesAddressReads, PTL
=============================================================================
