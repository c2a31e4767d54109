-------------------------- MODULE ListingProofs --------------------------
(***************************************************************************)
(* Theorems about the listings of module Store, for any blocks, ranges and *)
(* page sizes.  ORDER BY lists a finite set in the one way that its order  *)
(* allows; the rows of a listing are then those of each block in turn, and *)
(* the loop over them makes one entry of each block.  Each row shows one   *)
(* solution set, so that what a page shows is its part of what all rows    *)
(* show.                                                                   *)
(***************************************************************************)
EXTENDS StoreProofs

-----------------------------------------------------------------------------
(* Sets in their order.                                                    *)

\* A total order of S.
Orders(before, S) ==
    /\ \A x \in S : <<x, x>> \notin before
    /\ \A x, y \in S : <<x, y>> \in before \/ <<y, x>> \in before \/ x = y
    /\ \A x, y, z \in S : <<x, y>> \in before /\ <<y, z>> \in before => <<x, z>> \in before

\* seq lists S, each member once, in the order.
Lists(seq, S, before) ==
    /\ seq \in [1..Cardinality(S) -> S]
    /\ \A x \in S : \E k \in 1..Cardinality(S) : seq[k] = x
    /\ \A i, j \in 1..Cardinality(S) : i < j <=> <<seq[i], seq[j]>> \in before

\* InOrder lists a finite set that the order orders: the k-th member is the one
\* that has k - 1 others before it.
LEMMA InOrderLists ==
    ASSUME NEW S, IsFiniteSet(S), NEW before, Orders(before, S)
    PROVE  Cardinality(S) \in Nat /\ Lists(InOrder(S, before), S, before)
<1> DEFINE n == Cardinality(S)
           Pred(x) == {y \in S : <<y, x>> \in before}
           rank == [x \in S |-> Cardinality(Pred(x)) + 1]
           seq == InOrder(S, before)
<1>1. n \in Nat
  BY FS_CardinalityType
<1>2. ASSUME NEW x \in S
      PROVE  IsFiniteSet(Pred(x)) /\ Cardinality(Pred(x)) \in Nat /\ rank[x] \in 1..n
  <2>1. Pred(x) \in SUBSET S /\ Pred(x) # S
    BY DEF Orders
  <2> HIDE DEF Pred
  <2>2. IsFiniteSet(Pred(x)) /\ Cardinality(Pred(x)) <= n /\ Cardinality(Pred(x)) # n
    BY <2>1, FS_Subset
  <2>3. Cardinality(Pred(x)) \in Nat
    BY <2>2, FS_CardinalityType
  <2> QED
    BY <1>1, <2>2, <2>3
<1>3. ASSUME NEW x \in S, NEW y \in S, <<x, y>> \in before PROVE rank[x] < rank[y]
  <2>1. Pred(x) \cup {x} \in SUBSET Pred(y) /\ x \notin Pred(x)
    BY <1>3 DEF Orders
  <2> HIDE DEF Pred
  <2>2. Cardinality(Pred(x) \cup {x}) = Cardinality(Pred(x)) + 1
    BY <1>2, <2>1, FS_AddElement
  <2>3. Cardinality(Pred(x) \cup {x}) <= Cardinality(Pred(y))
    BY <1>2, <2>1, FS_Subset
  <2>4. Cardinality(Pred(x)) \in Nat /\ Cardinality(Pred(y)) \in Nat
    BY <1>2
  <2> QED
    BY <2>2, <2>3, <2>4
<1>4. \A x \in S : rank[x] \in Int
  BY <1>1, <1>2
<1>5. ASSUME NEW x \in S, NEW y \in S, rank[x] = rank[y] PROVE x = y
  <2>1. ~(rank[x] < rank[y]) /\ ~(rank[y] < rank[x])
    BY <1>4, <1>5
  <2> HIDE DEF rank
  <2> QED
    BY <1>3, <2>1 DEF Orders
<1>6. rank \in Surjection(S, 1..n)
  <2>1. rank \in [S -> 1..n]
    BY <1>2
  <2> HIDE DEF rank
  <2>2. rank \in Injection(S, 1..n)
    BY <1>5, <2>1 DEF Injection, IsInjective
  <2>3. IsFiniteSet(1..n) /\ Cardinality(1..n) = n
    BY <1>1, FS_Interval
  <2> QED
    BY <2>2, <2>3, FS_Injection
<1>7. ASSUME NEW k \in 1..n PROVE seq[k] \in S /\ rank[seq[k]] = k
  <2>1. PICK x \in S : rank[x] = k
    BY <1>6 DEF Surjection
  <2>2. Cardinality(Pred(x)) = k - 1
    <3>1. Cardinality(Pred(x)) + 1 = k /\ Cardinality(Pred(x)) \in Nat
      BY <1>2, <2>1
    <3> HIDE DEF Pred
    <3> QED
      BY <3>1
  <2>3. seq[k] = CHOOSE z \in S : Cardinality(Pred(z)) = k - 1
    BY DEF InOrder
  <2> HIDE DEF seq
  <2>4. seq[k] \in S /\ Cardinality(Pred(seq[k])) = k - 1
    <3> HIDE DEF Pred
    <3> QED
      BY <2>2, <2>3
  <2> QED
    BY <1>1, <2>4
<1>8. seq \in [1..n -> S]
  <2> DEFINE nth(k) == CHOOSE x \in S : Cardinality(Pred(x)) = k - 1
  <2>1. seq = [k \in 1..n |-> nth(k)]
    BY DEF InOrder
  <2> HIDE DEF seq, nth
  <2> QED
    BY <1>7, <2>1
<1> HIDE DEF seq, rank
<1>9. ASSUME NEW x \in S PROVE \E k \in 1..n : seq[k] = x
  <2>1. rank[x] \in 1..n
    BY <1>2
  <2>2. rank[seq[rank[x]]] = rank[x] /\ seq[rank[x]] \in S
    BY <1>7, <2>1
  <2> QED
    BY <1>5, <2>1, <2>2
<1>10. ASSUME NEW i \in 1..n, NEW j \in 1..n PROVE i < j <=> <<seq[i], seq[j]>> \in before
  <2>1. seq[i] \in S /\ seq[j] \in S /\ rank[seq[i]] = i /\ rank[seq[j]] = j
    BY <1>7
  <2>2. ASSUME i < j PROVE <<seq[i], seq[j]>> \in before
    <3>1. ~(<<seq[j], seq[i]>> \in before)
      <4>1. ~(j < i)
        BY <1>1, <2>2
      <4> QED
        BY <1>3, <2>1, <4>1
    <3>2. seq[i] # seq[j]
      BY <1>1, <2>1, <2>2
    <3> QED
      BY <2>1, <3>1, <3>2 DEF Orders
  <2>3. ASSUME <<seq[i], seq[j]>> \in before PROVE i < j
    BY <1>3, <2>1, <2>3
  <2> QED
    BY <2>2, <2>3
<1>11. Lists(seq, S, before)
  BY <1>8, <1>9, <1>10 DEF Lists
<1> QED
  BY <1>1, <1>11 DEF seq

\* Blocks are ordered by number and address, solution sets by address.
LEMMA BlocksAreOrdered ==
    ASSUME NEW bs \in SUBSET Blocks
    PROVE  Orders(BlockOrder, bs)
<1>1. /\ \A x \in bs : Number[x] \in Nat
      /\ \A x, y \in bs : Rank[x] \in Int /\ (Rank[x] = Rank[y] => x = y)
  BY StoreAssumption DEF StoreAssumption
<1>2. \A x, y \in bs : <<x, y>> \in BlockOrder <=>
         \/ Number[x] < Number[y]
         \/ Number[x] = Number[y] /\ Rank[x] < Rank[y]
  BY DEF BlockOrder
<1>3. \A x \in bs : <<x, x>> \notin BlockOrder
  BY <1>1, <1>2
<1>4. ASSUME NEW x \in bs, NEW y \in bs
      PROVE  <<x, y>> \in BlockOrder \/ <<y, x>> \in BlockOrder \/ x = y
  <2>1. Number[x] \in Nat /\ Number[y] \in Nat /\ Rank[x] \in Int /\ Rank[y] \in Int
        /\ (Rank[x] = Rank[y] => x = y)
    BY <1>1
  <2> QED
    BY <1>2, <2>1
<1>5. ASSUME NEW x \in bs, NEW y \in bs, NEW z \in bs,
             <<x, y>> \in BlockOrder, <<y, z>> \in BlockOrder
      PROVE  <<x, z>> \in BlockOrder
  BY <1>1, <1>2, <1>5
<1> QED
  BY <1>3, <1>4, <1>5 DEF Orders

\* Solution sets are ordered by address.
LEMMA SetsAreOrdered ==
    ASSUME NEW ss \in SUBSET SolutionSets
    PROVE  Orders(SetOrder, ss)
<1>1. \A x, y \in ss : Rank[x] \in Int /\ (Rank[x] = Rank[y] => x = y)
  BY StoreAssumption DEF StoreAssumption
<1>2. \A x, y \in ss : <<x, y>> \in SetOrder <=> Rank[x] < Rank[y]
  BY DEF SetOrder
<1> QED
  BY <1>1, <1>2 DEF Orders

-----------------------------------------------------------------------------
(* The loop of the listings.                                               *)

Row == Blocks \X (SolutionSets \cup {NoSet})

Listed == [header : {Header(b) : b \in Blocks},
           sets : Seq({GetSolutionSet(s) : s \in SolutionSets \cup {NoSet}})]

Entry(b, sets) == [header |-> Header(b), sets |-> sets]

\* The last block gets another solution set.
Extended(blocks, set) == [blocks EXCEPT ![Len(blocks)].sets = Append(@, set)]

Collected(f, rows) ==
    f = [n \in 0..Len(rows) |->
            IF n = 0 THEN << >>
            ELSE LET blocks == f[n - 1]
                     set == GetSolutionSet(rows[n][2])
                 IN  IF n > 1 /\ SameBlock(rows[n - 1], rows[n])
                     THEN [blocks EXCEPT ![Len(blocks)].sets = Append(@, set)]
                     ELSE Append(blocks, [header |-> Header(rows[n][1]), sets |-> <<set>>])]

CollectedFrom(rows) == (CHOOSE f : Collected(f, rows))[Len(rows)]

\* f[n] is what the loop has after n rows.
Collects(f, rows) ==
    /\ f \in [0..Len(rows) -> Seq(Listed)]
    /\ f[0] = << >>
    /\ \A n \in 1..Len(rows) :
          f[n] = IF n > 1 /\ rows[n - 1][1] = rows[n][1]
                 THEN Extended(f[n - 1], GetSolutionSet(rows[n][2]))
                 ELSE Append(f[n - 1], Entry(rows[n][1], <<GetSolutionSet(rows[n][2])>>))

\* The loop fails on a NULL row and goes through all rows otherwise.
LEMMA CollectIs ==
    ASSUME NEW rows
    PROVE  Collect(rows) = IF \E i \in DOMAIN rows : rows[i][2] = NoSet THEN QueryError
                           ELSE CollectedFrom(rows)
BY DEF Collect, CollectedFrom, Collected

\* What a row of a join holds.
LEMMA RowIs ==
    ASSUME NEW row \in Row
    PROVE  /\ row[1] \in Blocks /\ Header(row[1]) \in {Header(b) : b \in Blocks}
           /\ GetSolutionSet(row[2]) \in {GetSolutionSet(s) : s \in SolutionSets \cup {NoSet}}
BY DEF Row

\* A listing with another set in its last block is a listing.
LEMMA ExtendedTyped ==
    ASSUME NEW blocks \in Seq(Listed),
           NEW set \in {GetSolutionSet(s) : s \in SolutionSets \cup {NoSet}}
    PROVE  Extended(blocks, set) \in Seq(Listed)
<1> DEFINE G == {GetSolutionSet(s) : s \in SolutionSets \cup {NoSet}}
           H == {Header(b) : b \in Blocks}
           n == Len(blocks)
<1>1. n \in Nat /\ blocks \in [1..n -> Listed] /\ Listed = [header : H, sets : Seq(G)] /\ set \in G
  BY LenProperties DEF Listed
<1> HIDE DEF G, H, n
<1>2. Extended(blocks, set) = [blocks EXCEPT ![n].sets = Append(@, set)]
  BY DEF Extended, n
<1>3. ASSUME NEW i \in 1..n PROVE Extended(blocks, set)[i] \in Listed
  <2>1. blocks[i] \in [header : H, sets : Seq(G)]
    BY <1>1
  <2>2. CASE i = n
    <3>1. Extended(blocks, set)[i] = [blocks[i] EXCEPT !.sets = Append(@, set)]
      BY <1>1, <1>2, <2>2
    <3>2. Append(blocks[i].sets, set) \in Seq(G)
      BY <1>1, <2>1, AppendProperties
    <3> QED
      BY <1>1, <2>1, <3>1, <3>2
  <2>3. CASE i # n
    <3>1. Extended(blocks, set)[i] = blocks[i]
      BY <1>1, <1>2, <2>3
    <3> QED
      BY <1>1, <2>1, <3>1
  <2> QED
    BY <2>2, <2>3
<1>4. Extended(blocks, set) = [i \in 1..n |-> Extended(blocks, set)[i]]
  BY <1>1, <1>2
<1>5. Extended(blocks, set) \in [1..n -> Listed]
  BY <1>3, <1>4
<1> QED
  BY <1>1, <1>5, SequenceIs

\* The loop ends with a listing.
LEMMA CollectsExist ==
    ASSUME NEW rows \in Seq(Row)
    PROVE  \E f : Collects(f, rows)
<1> DEFINE len == Len(rows)
           set(n) == GetSolutionSet(rows[n][2])
           step == [n \in 1..len |-> [blocks \in Seq(Listed) |->
                      IF n > 1 /\ rows[n - 1][1] = rows[n][1] THEN Extended(blocks, set(n))
                      ELSE Append(blocks, Entry(rows[n][1], <<set(n)>>))]]
<1>1. len \in Nat /\ \A n \in 1..len : rows[n] \in Row
  BY ElementOfSeq, LenProperties
<1>2. << >> \in Seq(Listed)
  BY EmptySeq
<1>3. step \in [1..len -> [Seq(Listed) -> Seq(Listed)]]
  <2>1. ASSUME NEW n \in 1..len, NEW blocks \in Seq(Listed)
        PROVE  /\ Extended(blocks, set(n)) \in Seq(Listed)
               /\ Append(blocks, Entry(rows[n][1], <<set(n)>>)) \in Seq(Listed)
    <3>1. rows[n] \in Row
      BY <1>1
    <3>2. /\ Header(rows[n][1]) \in {Header(b) : b \in Blocks}
          /\ set(n) \in {GetSolutionSet(s) : s \in SolutionSets \cup {NoSet}}
      BY <3>1, RowIs
    <3> HIDE DEF set
    <3>3. Entry(rows[n][1], <<set(n)>>) \in Listed
      BY <3>2 DEF Listed, Entry
    <3> QED
      BY <3>2, <3>3, ExtendedTyped, AppendProperties
  <2> HIDE DEF set
  <2> QED
    BY <2>1
<1>4. PICK f \in [0..len -> Seq(Listed)] : Steps(f, len, << >>, step)
  <2> HIDE DEF step, len
  <2> QED
    BY <1>1, <1>2, <1>3, Recursion
<1>5. ASSUME NEW n \in 1..len
      PROVE  f[n] = IF n > 1 /\ rows[n - 1][1] = rows[n][1] THEN Extended(f[n - 1], set(n))
                    ELSE Append(f[n - 1], Entry(rows[n][1], <<set(n)>>))
  <2>1. n - 1 \in 0..len
    BY <1>1
  <2>2. f[n] = step[n][f[n - 1]] /\ f[n - 1] \in Seq(Listed)
    BY <1>4, <2>1 DEF Steps
  <2> HIDE DEF set
  <2> QED
    BY <2>2
<1>6. f[0] = << >>
  BY <1>4 DEF Steps
<1> QED
  BY <1>4, <1>5, <1>6 DEF Collects

\* What it ends with is CollectedFrom.
LEMMA CollectedIs ==
    ASSUME NEW rows \in Seq(Row), NEW f, Collects(f, rows)
    PROVE  CollectedFrom(rows) = f[Len(rows)]
<1> DEFINE len == Len(rows)
           g == CHOOSE h : Collected(h, rows)
           next(h, n) == IF n = 0 THEN << >>
                         ELSE IF n > 1 /\ rows[n - 1][1] = rows[n][1]
                         THEN Extended(h[n - 1], GetSolutionSet(rows[n][2]))
                         ELSE Append(h[n - 1], Entry(rows[n][1], <<GetSolutionSet(rows[n][2])>>))
<1>1. len \in Nat
  BY LenProperties
<1>2. ASSUME NEW h PROVE Collected(h, rows) <=> h = [n \in 0..len |-> next(h, n)]
  BY DEF Collected, Extended, Entry, SameBlock
<1> HIDE DEF next
<1>3. ASSUME NEW n \in 0..len PROVE f[n] = next(f, n)
  <2>1. CASE n = 0
    BY <2>1 DEF Collects, next
  <2>2. CASE n # 0
    <3>1. n \in 1..len
      BY <1>1, <2>2
    <3> QED
      BY <2>2, <3>1 DEF Collects, next
  <2> QED
    BY <2>1, <2>2
<1>4. f = [n \in 0..len |-> next(f, n)]
  <2>1. f = [n \in 0..len |-> f[n]]
    BY DEF Collects
  <2> QED
    BY <1>3, <2>1, Zenon
<1>5. Collected(g, rows)
  BY <1>2, <1>4
<1>6. CollectedFrom(rows) = g[len]
  BY DEF CollectedFrom
<1> HIDE DEF g, len
<1>7. g = [n \in 0..len |-> next(g, n)]
  BY <1>2, <1>5
<1> DEFINE T == {n \in 0..len : g[n] = f[n]}
<1>8. 0 \in T
  <2>1. 0 \in 0..len
    BY <1>1
  <2>2. g[0] = next(g, 0) /\ f[0] = next(f, 0)
    BY <1>3, <1>7, <2>1
  <2> QED
    BY <2>1, <2>2 DEF next
<1>9. ASSUME NEW n \in 0..len, n < len, n \in T PROVE n + 1 \in T
  <2>1. n + 1 \in 0..len /\ n + 1 # 0 /\ (n + 1) - 1 = n
    BY <1>1, <1>9
  <2>2. g[n + 1] = next(g, n + 1) /\ f[n + 1] = next(f, n + 1)
    BY <1>3, <1>7, <2>1
  <2>3. next(g, n + 1) = next(f, n + 1)
    BY <1>9, <2>1 DEF next
  <2> QED
    BY <2>1, <2>2, <2>3
<1>10. len \in T
  <2> HIDE DEF T
  <2>1. len \in 0..len
    BY <1>1
  <2> QED
    BY <1>1, <1>8, <1>9, <2>1, UpTo
<1> QED
  BY <1>6, <1>10 DEF len
-----------------------------------------------------------------------------
(* The rows of several blocks.                                             *)

\* The first m solution sets of a block, as they are read.
FirstSets(b, m) == [k \in 1..m |-> GetSolutionSet(Sets[b][k])]

BlockRows(b) == [k \in 1..Len(Sets[b]) |-> <<b, Sets[b][k]>>]

BlockEntry(b) == Entry(b, FirstSets(b, Len(Sets[b])))

\* The rows of a block, one for each solution set.
LEMMA BlockRowsAre ==
    ASSUME NEW b \in Blocks
    PROVE  /\ Len(Sets[b]) \in Nat
           /\ BlockRows(b) \in Seq(Row) /\ Len(BlockRows(b)) = Len(Sets[b])
           /\ \A k \in 1..Len(Sets[b]) :
                 BlockRows(b)[k] = <<b, Sets[b][k]>> /\ Sets[b][k] \in SolutionSets
<1>1. Len(Sets[b]) \in Nat /\ \A k \in 1..Len(Sets[b]) : Sets[b][k] \in SolutionSets
  BY SetsAre
<1>2. BlockRows(b) \in [1..Len(Sets[b]) -> Row]
  BY <1>1 DEF BlockRows, Row
<1>3. BlockRows(b) \in Seq(Row) /\ Len(BlockRows(b)) = Len(Sets[b])
  BY <1>1, <1>2, SequenceIs
<1> QED
  BY <1>1, <1>3 DEF BlockRows

\* One more solution set for the last block.
LEMMA ExtendLast ==
    ASSUME NEW S, NEW blocks \in Seq(S), NEW b, NEW sets, Entry(b, sets) \in S, NEW set
    PROVE  Same(Extended(Append(blocks, Entry(b, sets)), set), Append(blocks, Entry(b, Append(sets, set))))
<1> DEFINE n == Len(blocks)
           e == Entry(b, sets)
           f == Entry(b, Append(sets, set))
           u == Append(blocks, e)
           v == Append(blocks, f)
           T == S \cup {f}
<1>1. n \in Nat /\ blocks \in Seq(T) /\ e \in T /\ f \in T
  BY LenProperties
<1>2. /\ u \in Seq(T) /\ Len(u) = n + 1 /\ DOMAIN u = 1..(n + 1)
      /\ v \in Seq(T) /\ Len(v) = n + 1 /\ DOMAIN v = 1..(n + 1)
      /\ \A i \in 1..n : u[i] = blocks[i] /\ v[i] = blocks[i]
      /\ u[n + 1] = e /\ v[n + 1] = f
  <2> HIDE DEF e, f, T
  <2>1. u \in Seq(T) /\ Len(u) = n + 1 /\ v \in Seq(T) /\ Len(v) = n + 1
    BY <1>1, AppendProperties
  <2>2. DOMAIN u = 1..(n + 1) /\ DOMAIN v = 1..(n + 1)
    BY <2>1, LenProperties
  <2>3. \A i \in 1..n : u[i] = blocks[i] /\ v[i] = blocks[i]
    BY <1>1, AppendProperties
  <2>4. u[n + 1] = e /\ v[n + 1] = f
    BY <1>1, AppendProperties
  <2> QED
    BY <2>1, <2>2, <2>3, <2>4
<1>3. [e EXCEPT !.sets = Append(@, set)] = f
  <2>1. \A x : [Entry(b, sets) EXCEPT !.sets = x] = Entry(b, x)
    BY DEF Entry
  <2>2. e.sets = sets
    BY DEF Entry
  <2> QED
    BY <2>1, <2>2
<1> HIDE DEF u, v, e, f, n, T
<1>4. Extended(u, set) = [u EXCEPT ![n + 1] = [u[n + 1] EXCEPT !.sets = Append(@, set)]]
  BY <1>2 DEF Extended
<1>5. Extended(u, set) = [u EXCEPT ![n + 1] = f]
  BY <1>2, <1>3, <1>4
<1>6. [u EXCEPT ![n + 1] = f] = v
  <2>1. \A i \in 1..(n + 1) : i # n + 1 => i \in 1..n
    BY <1>1
  <2>2. \A i \in 1..(n + 1) : [u EXCEPT ![n + 1] = f][i] = v[i]
    BY <1>2, <2>1
  <2>3. u = [i \in 1..(n + 1) |-> u[i]] /\ v = [i \in 1..(n + 1) |-> v[i]]
    BY <1>2, LenProperties
  <2>4. [u EXCEPT ![n + 1] = f] = [i \in 1..(n + 1) |-> [u EXCEPT ![n + 1] = f][i]]
    BY <2>3
  <2> QED
    BY <2>2, <2>3, <2>4, Zenon
<1> QED
  BY <1>5, <1>6 DEF Same, u, v, e, f

\* The first m + 1 sets are the first m and one more.
LEMMA FirstSetsGrow ==
    ASSUME NEW b \in Blocks, NEW m \in Nat, m < Len(Sets[b])
    PROVE  /\ FirstSets(b, m) \in Seq({GetSolutionSet(s) : s \in SolutionSets \cup {NoSet}})
           /\ Append(FirstSets(b, m), GetSolutionSet(Sets[b][m + 1])) = FirstSets(b, m + 1)
<1> DEFINE G == {GetSolutionSet(s) : s \in SolutionSets \cup {NoSet}}
           get(k) == GetSolutionSet(Sets[b][k])
<1>1. Len(Sets[b]) \in Nat /\ \A k \in 1..Len(Sets[b]) : Sets[b][k] \in SolutionSets
  BY SetsAre
<1>2. \A k \in 1..(m + 1) : get(k) \in G
  BY <1>1
<1> HIDE DEF G, get
<1>3. [k \in 1..m |-> get(k)] \in [1..m -> G]
  BY <1>2
<1>4. [k \in 1..m |-> get(k)] \in Seq(G) /\ Len([k \in 1..m |-> get(k)]) = m
  BY <1>3, SequenceIs
<1>5. Append([k \in 1..m |-> get(k)], get(m + 1)) = [k \in 1..(m + 1) |-> get(k)]
  <2> DEFINE s == [k \in 1..m |-> get(k)]
             t == [k \in 1..(m + 1) |-> get(k)]
             u == Append(s, get(m + 1))
  <2>1. t \in [1..(m + 1) -> G] /\ m + 1 \in Nat
    BY <1>2
  <2>2. t \in Seq(G) /\ Len(t) = m + 1
    BY <2>1, SequenceIs
  <2>3. s \in Seq(G) /\ Len(s) = m /\ get(m + 1) \in G /\ \A k \in 1..m : s[k] = get(k)
    BY <1>2, <1>4
  <2>4. \A k \in 1..(m + 1) : t[k] = get(k)
    OBVIOUS
  <2> HIDE DEF s, t
  <2>5. u \in Seq(G) /\ Len(u) = m + 1
    BY <2>3, AppendProperties
  <2>6. \A k \in 1..m : u[k] = s[k]
    BY <2>3, AppendProperties
  <2>7. u[m + 1] = get(m + 1)
    BY <2>3, AppendProperties
  <2> HIDE DEF u
  <2>8. \A k \in 1..Len(u) : u[k] = t[k]
    BY <2>3, <2>4, <2>5, <2>6, <2>7
  <2>9. u = t
    BY <2>2, <2>5, <2>8, SeqEqual
  <2> QED
    BY <2>9 DEF u, s, t
<1> QED
  BY <1>4, <1>5 DEF FirstSets, get, G

\* The rows of a block make one more entry.
LEMMA CollectBlock ==
    ASSUME NEW u \in Seq(Row), NEW b \in Blocks, Sets[b] # << >>,
           u = << >> \/ u[Len(u)][1] # b, NEW w, Same(w, u \o BlockRows(b))
    PROVE  /\ CollectedFrom(u) \in Seq(Listed) /\ BlockEntry(b) \in Listed
           /\ CollectedFrom(w) = Append(CollectedFrom(u), BlockEntry(b))
<1> DEFINE p == Len(u)
           n == Len(Sets[b])
           v == BlockRows(b)
           G == {GetSolutionSet(s) : s \in SolutionSets \cup {NoSet}}
<1>1. /\ p \in Nat /\ n \in Nat /\ n # 0
      /\ v \in Seq(Row) /\ Len(v) = n
      /\ \A k \in 1..n : v[k] = <<b, Sets[b][k]>> /\ Sets[b][k] \in SolutionSets
  <2>1. n # 0
    BY SetsAre, EmptySeq
  <2> QED
    BY <2>1, LenProperties, BlockRowsAre
<1>2. /\ w \in Seq(Row) /\ Len(w) = p + n
      /\ \A i \in 1..p : w[i] = u[i]
      /\ \A k \in 1..n : w[p + k] = <<b, Sets[b][k]>>
  <2> HIDE DEF v
  <2>1. /\ w \in Seq(Row) /\ Len(w) = Len(u) + Len(v)
        /\ \A i \in 1..Len(u) + Len(v) : w[i] = IF i <= Len(u) THEN u[i] ELSE v[i - Len(u)]
    BY <1>1, ConcatProperties DEF Same, v
  <2> HIDE DEF p, n
  <2>2. Len(w) = p + n /\ \A i \in 1..(p + n) : w[i] = IF i <= p THEN u[i] ELSE v[i - p]
    BY <1>1, <2>1 DEF p
  <2>3. \A i \in 1..p : w[i] = u[i]
    BY <1>1, <2>2
  <2>4. ASSUME NEW k \in 1..n PROVE w[p + k] = <<b, Sets[b][k]>>
    <3>1. p + k \in 1..(p + n) /\ ~(p + k <= p) /\ (p + k) - p = k
      BY <1>1
    <3> QED
      BY <1>1, <2>2, <3>1
  <2> QED
    BY <2>1, <2>2, <2>3, <2>4
<1>3. PICK f : Collects(f, w)
  BY <1>2, CollectsExist
<1>4. CollectedFrom(w) = f[p + n]
  BY <1>2, <1>3, CollectedIs
<1> DEFINE g == [i \in 0..p |-> f[i]]
<1>5. CollectedFrom(u) = f[p]
  <2>1. g \in [0..p -> Seq(Listed)]
    BY <1>1, <1>2, <1>3 DEF Collects
  <2>2. g[0] = << >>
    BY <1>1, <1>3 DEF Collects
  <2>3. ASSUME NEW i \in 1..p
        PROVE  g[i] = IF i > 1 /\ u[i - 1][1] = u[i][1]
                      THEN Extended(g[i - 1], GetSolutionSet(u[i][2]))
                      ELSE Append(g[i - 1], Entry(u[i][1], <<GetSolutionSet(u[i][2])>>))
    <3>1. i \in 1..Len(w) /\ i \in 0..p /\ i - 1 \in 0..p /\ w[i] = u[i] /\ (i > 1 => w[i - 1] = u[i - 1])
      <4>1. i \in 1..Len(w) /\ i \in 0..p /\ i - 1 \in 0..p /\ (i > 1 => i - 1 \in 1..p)
        BY <1>1, <1>2
      <4> QED
        BY <1>2, <4>1
    <3>2. g[i] = f[i] /\ g[i - 1] = f[i - 1]
      BY <3>1
    <3>3. f[i] = IF i > 1 /\ w[i - 1][1] = w[i][1]
                 THEN Extended(f[i - 1], GetSolutionSet(w[i][2]))
                 ELSE Append(f[i - 1], Entry(w[i][1], <<GetSolutionSet(w[i][2])>>))
      BY <1>3, <3>1 DEF Collects
    <3> HIDE DEF g
    <3>4. CASE i > 1
      BY <3>1, <3>2, <3>3, <3>4
    <3>5. CASE ~(i > 1)
      BY <3>1, <3>2, <3>3, <3>5
    <3> QED
      BY <3>4, <3>5
  <2>4. Collects(g, u)
    <3> HIDE DEF g
    <3> QED
      BY <2>1, <2>2, <2>3 DEF Collects
  <2>5. CollectedFrom(u) = g[p]
    <3> HIDE DEF g
    <3> QED
      BY <2>4, CollectedIs
  <2> QED
    BY <1>1, <2>5
<1>6. f[p] \in Seq(Listed)
  BY <1>1, <1>2, <1>3 DEF Collects
<1> HIDE DEF g, p, n, v
<1>7. ASSUME NEW k \in 1..n
      PROVE  /\ FirstSets(b, k) \in Seq(G) /\ Entry(b, FirstSets(b, k)) \in Listed
             /\ GetSolutionSet(Sets[b][k]) \in G
  <2>1. DOMAIN FirstSets(b, k) = 1..k /\ k \in Nat
    BY <1>1 DEF FirstSets
  <2>2. GetSolutionSet(Sets[b][k]) \in G
    BY <1>1
  <2>3. \A j \in 1..k : GetSolutionSet(Sets[b][j]) \in G
    BY <1>1
  <2> HIDE DEF G
  <2>4. FirstSets(b, k) \in [1..k -> G]
    BY <2>3 DEF FirstSets
  <2>5. FirstSets(b, k) \in Seq(G)
    BY <2>1, <2>4, SequenceIs
  <2> QED
    BY <2>2, <2>5 DEF Listed, Entry, G
<1> DEFINE Done(m) == f[p + m + 1] = Append(f[p], Entry(b, FirstSets(b, m + 1)))
           T == {m \in 0..(n - 1) : Done(m)}
<1>8. 0 \in T
  <2>1. p + 1 \in 1..Len(w) /\ 1 \in 1..n /\ w[p + 1] = <<b, Sets[b][1]>> /\ (p + 1) - 1 = p
    BY <1>1, <1>2
  <2>2. ~(p + 1 > 1 /\ w[p][1] = w[p + 1][1])
    <3>1. CASE u = << >>
      BY <1>1, <3>1 DEF p
    <3>2. CASE u[Len(u)][1] # b /\ p # 0
      <4>1. p \in 1..p /\ w[p] = u[p]
        BY <1>1, <1>2, <3>2
      <4> QED
        BY <2>1, <3>2, <4>1 DEF p
    <3>3. CASE p = 0
      BY <3>3
    <3> QED
      BY <3>1, <3>2, <3>3
  <2>3. f[p + 1] = Append(f[p], Entry(b, <<GetSolutionSet(Sets[b][1])>>))
    <3>1. f[p + 1] = Append(f[p], Entry(w[p + 1][1], <<GetSolutionSet(w[p + 1][2])>>))
      BY <1>3, <2>1, <2>2 DEF Collects
    <3> QED
      BY <2>1, <3>1
  <2>4. FirstSets(b, 1) = <<GetSolutionSet(Sets[b][1])>>
    BY DEF FirstSets
  <2>5. p + 0 + 1 = p + 1 /\ 0 + 1 = 1 /\ 0 \in 0..(n - 1)
    BY <1>1
  <2> QED
    BY <2>3, <2>4, <2>5
<1>9. ASSUME NEW m \in 0..(n - 1), m < n - 1, m \in T PROVE m + 1 \in T
  <2> DEFINE i == p + m + 2
  <2>1. /\ i \in 1..Len(w) /\ i > 1 /\ i - 1 = p + (m + 1) /\ i = p + (m + 2)
        /\ m + 1 \in 1..n /\ m + 2 \in 1..n /\ p + m + 1 = i - 1 /\ p + (m + 1) + 1 = i
        /\ m + 1 \in 0..(n - 1) /\ m + 1 \in Nat /\ m + 1 < n /\ (m + 1) + 1 = m + 2
    BY <1>1, <1>2, <1>9
  <2> HIDE DEF i
  <2>2. w[i - 1][1] = b /\ w[i][1] = b /\ w[i][2] = Sets[b][m + 2]
    BY <1>2, <2>1
  <2>3. f[i] = Extended(f[i - 1], GetSolutionSet(Sets[b][m + 2]))
    BY <1>3, <2>1, <2>2 DEF Collects
  <2>4. f[i - 1] = Append(f[p], Entry(b, FirstSets(b, m + 1)))
    BY <1>9, <2>1
  <2>5. FirstSets(b, m + 2) = Append(FirstSets(b, m + 1), GetSolutionSet(Sets[b][m + 2]))
    <3>1. m + 1 < Len(Sets[b])
      BY <2>1 DEF n
    <3> QED
      BY <2>1, <3>1, FirstSetsGrow
  <2>6. Entry(b, FirstSets(b, m + 1)) \in Listed
    BY <1>7, <2>1
  <2> DEFINE sets == FirstSets(b, m + 1)
             set == GetSolutionSet(Sets[b][m + 2])
  <2> HIDE DEF sets, set
  <2>7. Same(Extended(Append(f[p], Entry(b, sets)), set), Append(f[p], Entry(b, Append(sets, set))))
    BY <1>6, <2>6, ExtendLast DEF sets
  <2>8. f[i] = Append(f[p], Entry(b, FirstSets(b, m + 2)))
    BY <2>3, <2>4, <2>5, <2>7 DEF Same, sets, set
  <2> QED
    BY <2>1, <2>8
<1>10. n - 1 \in T
  <2>1. n - 1 \in Nat /\ n - 1 \in 0..(n - 1)
    BY <1>1
  <2> HIDE DEF T
  <2>2. 0..(n - 1) \subseteq T
    BY <1>8, <1>9, <2>1, UpTo
  <2> QED
    BY <2>1, <2>2
<1>11. f[p + n] = Append(f[p], Entry(b, FirstSets(b, n)))
  <2>1. p + (n - 1) + 1 = p + n /\ (n - 1) + 1 = n
    BY <1>1
  <2> QED
    BY <1>10, <2>1
<1>12. BlockEntry(b) = Entry(b, FirstSets(b, n)) /\ n \in 1..n
  BY <1>1 DEF BlockEntry, n
<1> QED
  BY <1>4, <1>5, <1>6, <1>7, <1>11, <1>12
\* A sequence is its first m elements and the last.
LEMMA AppendNext ==
    ASSUME NEW S, NEW m \in Nat, NEW f \in [1..(m + 1) -> S]
    PROVE  /\ [i \in 1..m |-> f[i]] \in Seq(S)
           /\ Append([i \in 1..m |-> f[i]], f[m + 1]) = f
<1> DEFINE s == [i \in 1..m |-> f[i]]
           u == Append(s, f[m + 1])
<1>1. f \in Seq(S) /\ Len(f) = m + 1
  BY SequenceIs
<1>2. s \in [1..m -> S] /\ f[m + 1] \in S /\ \A i \in 1..m : s[i] = f[i]
  OBVIOUS
<1> HIDE DEF s
<1>3. s \in Seq(S) /\ Len(s) = m
  BY <1>2, SequenceIs
<1>4. u \in Seq(S) /\ Len(u) = m + 1 /\ \A i \in 1..m : u[i] = s[i]
  BY <1>2, <1>3, AppendProperties
<1>5. u[m + 1] = f[m + 1]
  BY <1>2, <1>3, AppendProperties
<1> HIDE DEF u
<1>6. \A i \in 1..Len(u) : u[i] = f[i]
  BY <1>2, <1>4, <1>5
<1>7. u = f
  BY <1>1, <1>4, <1>6, SeqEqual
<1> QED
  BY <1>3, <1>7 DEF u, s

\* Blocks that the listings can read.
Full == {b \in Blocks : Sets[b] # << >>}

RowsTo(seq, m) == FlattenSeq([i \in 1..m |-> BlockRows(seq[i])])

EntriesTo(seq, m) == [i \in 1..m |-> BlockEntry(seq[i])]

\* The loop makes one entry of each block.
LEMMA CollectBlocks ==
    ASSUME NEW n \in Nat, NEW seq \in [1..n -> Full],
           \A i, j \in 1..n : seq[i] = seq[j] => i = j
    PROVE  CollectedFrom(RowsTo(seq, n)) = EntriesTo(seq, n)
<1> DEFINE rows(m) == RowsTo(seq, m)
           Ends(m) == IF m = 0 THEN rows(m) = << >> ELSE rows(m)[Len(rows(m))][1] = seq[m]
           Done(m) == /\ rows(m) \in Seq(Row) /\ Ends(m)
                      /\ CollectedFrom(rows(m)) = EntriesTo(seq, m)
           T == {m \in 0..n : Done(m)}
<1>1. 0 \in T
  <2>1. [i \in 1..0 |-> BlockRows(seq[i])] \in [1..0 -> {}]
    OBVIOUS
  <2>2. rows(0) = << >>
    BY <2>1, FlattenNone DEF RowsTo
  <2>3. EntriesTo(seq, 0) = << >>
    BY DEF EntriesTo
  <2>4. << >> \in Seq(Row) /\ Len(<< >>) = 0
    OBVIOUS
  <2>5. PICK f : Collects(f, << >>)
    BY <2>4, CollectsExist
  <2>6. CollectedFrom(<< >>) = f[Len(<< >>)]
    BY <2>4, <2>5, CollectedIs
  <2>7. CollectedFrom(<< >>) = << >>
    BY <2>4, <2>5, <2>6 DEF Collects
  <2>8. Ends(0)
    BY <2>2
  <2>10. 0 \in 0..n
    OBVIOUS
  <2>9. rows(0) \in Seq(Row) /\ CollectedFrom(rows(0)) = EntriesTo(seq, 0) /\ 0 \in 0..n
    BY <2>2, <2>3, <2>4, <2>7, <2>10, Zenon
  <2> HIDE DEF rows, Ends
  <2> QED
    BY <2>8, <2>9
<1>2. ASSUME NEW m \in 0..n, m < n, m \in T PROVE m + 1 \in T
  <2> DEFINE b == seq[m + 1]
             u == rows(m)
             w == rows(m + 1)
             v == BlockRows(b)
             gs == [i \in 1..(m + 1) |-> BlockRows(seq[i])]
  <2>1. /\ m \in Nat /\ m + 1 \in 0..n /\ m + 1 \in 1..n /\ m + 1 # 0
        /\ b \in Blocks /\ Sets[b] # << >>
    BY <1>2 DEF Full
  <2>2. gs \in [1..(m + 1) -> Seq(Row)]
    <3>1. ASSUME NEW i \in 1..(m + 1) PROVE BlockRows(seq[i]) \in Seq(Row)
      <4>1. i \in 1..n
        BY <1>2
      <4>2. seq[i] \in Blocks
        BY <4>1 DEF Full
      <4> QED
        BY <4>2, BlockRowsAre
    <3> QED
      BY <3>1
  <2>3. Same(w, u \o v)
    <3>1. [i \in 1..m |-> gs[i]] = [i \in 1..m |-> BlockRows(seq[i])] /\ gs[m + 1] = v
      BY <2>1
    <3>2. w = FlattenSeq(gs) /\ u = FlattenSeq([i \in 1..m |-> gs[i]])
      BY <3>1 DEF RowsTo
    <3> HIDE DEF gs, u, v, w
    <3>3. FlattenSeq(gs) = FlattenSeq([i \in 1..m |-> gs[i]]) \o gs[m + 1]
      BY <2>1, <2>2, FlattenStep
    <3> QED
      BY <3>1, <3>2, <3>3 DEF Same
  <2>4. u \in Seq(Row) /\ Ends(m) /\ CollectedFrom(u) = EntriesTo(seq, m)
    BY <1>2
  <2>5. u = << >> \/ u[Len(u)][1] # b
    <3>1. CASE m = 0
      BY <2>4, <3>1
    <3>2. CASE m # 0
      <4>1. m \in 1..n /\ m # m + 1
        BY <2>1, <3>2
      <4>2. seq[m] # b
        BY <2>1, <4>1
      <4> QED
        BY <2>4, <3>2, <4>2
    <3> QED
      BY <3>1, <3>2
  <2> HIDE DEF b, u, v, w, gs
  <2>6. /\ CollectedFrom(u) \in Seq(Listed) /\ BlockEntry(b) \in Listed
        /\ CollectedFrom(w) = Append(CollectedFrom(u), BlockEntry(b))
    BY <2>1, <2>3, <2>4, <2>5, CollectBlock DEF v
  <2>7. Append(EntriesTo(seq, m), BlockEntry(b)) = EntriesTo(seq, m + 1)
    <3> DEFINE f == EntriesTo(seq, m + 1)
               S == {BlockEntry(seq[i]) : i \in 1..(m + 1)}
    <3>1. f \in [1..(m + 1) -> S]
      BY DEF EntriesTo
    <3>2. [i \in 1..m |-> f[i]] = EntriesTo(seq, m) /\ f[m + 1] = BlockEntry(b)
      BY <2>1 DEF EntriesTo, b
    <3> HIDE DEF f, S
    <3>3. Append([i \in 1..m |-> f[i]], f[m + 1]) = f
      BY <2>1, <3>1, AppendNext
    <3> QED
      BY <3>2, <3>3 DEF f
  <2>8. w \in Seq(Row) /\ w[Len(w)][1] = b
    <3>1. /\ v \in Seq(Row) /\ Len(v) = Len(Sets[b]) /\ Len(Sets[b]) \in Nat /\ Len(Sets[b]) # 0
          /\ \A k \in 1..Len(Sets[b]) : v[k] = <<b, Sets[b][k]>>
      <4>1. Len(Sets[b]) # 0
        BY <2>1, SetsAre, EmptySeq
      <4> QED
        BY <2>1, <4>1, BlockRowsAre DEF v
    <3>2. Len(u) \in Nat
      BY <2>4, LenProperties
    <3>3. /\ w \in Seq(Row) /\ Len(w) = Len(u) + Len(v)
          /\ \A i \in 1..Len(u) + Len(v) : w[i] = IF i <= Len(u) THEN u[i] ELSE v[i - Len(u)]
      <4>1. u \in Seq(Row) /\ v \in Seq(Row)
        BY <2>4, <3>1
      <4> QED
        BY <2>3, <4>1, ConcatProperties DEF Same
    <3>4. Len(w) \in 1..Len(u) + Len(v) /\ ~(Len(w) <= Len(u)) /\ Len(w) - Len(u) = Len(v)
      BY <3>1, <3>2, <3>3
    <3>5. w[Len(w)] = v[Len(v)]
      BY <3>3, <3>4
    <3>6. v[Len(v)] = <<b, Sets[b][Len(v)]>>
      BY <3>1
    <3> QED
      BY <3>3, <3>5, <3>6
  <2>9. Ends(m + 1)
    BY <2>1, <2>8 DEF b, w
  <2>10. CollectedFrom(w) = EntriesTo(seq, m + 1)
    BY <2>4, <2>6, <2>7
  <2>11. rows(m + 1) \in Seq(Row) /\ CollectedFrom(rows(m + 1)) = EntriesTo(seq, m + 1)
    BY <2>8, <2>10 DEF w
  <2> HIDE DEF Ends, rows
  <2> QED
    BY <2>1, <2>9, <2>11
<1>3. n \in T
  <2> HIDE DEF T
  <2>1. n \in 0..n
    OBVIOUS
  <2> QED
    BY <1>1, <1>2, <2>1, UpTo
<1> QED
  BY <1>3

\* The order of a set of stored blocks.
LEMMA StoredInOrder ==
    ASSUME StoreInv, NEW bs \in SUBSET block
    PROVE  /\ IsFiniteSet(bs) /\ Cardinality(bs) \in Nat
           /\ InOrder(bs, BlockOrder) \in [1..Cardinality(bs) -> bs]
           /\ DOMAIN InOrder(bs, BlockOrder) = 1..Cardinality(bs)
           /\ \A b \in bs : \E i \in 1..Cardinality(bs) : InOrder(bs, BlockOrder)[i] = b
           /\ \A i, j \in 1..Cardinality(bs) :
                 i < j <=> <<InOrder(bs, BlockOrder)[i], InOrder(bs, BlockOrder)[j]>> \in BlockOrder
           /\ \A i, j \in 1..Cardinality(bs) :
                 InOrder(bs, BlockOrder)[i] = InOrder(bs, BlockOrder)[j] => i = j
<1> DEFINE n == Cardinality(bs)
           seq == InOrder(bs, BlockOrder)
<1>1. IsFiniteSet(bs) /\ bs \in SUBSET Blocks
  BY FS_Subset DEF StoreInv, RowsInv
<1>2. Orders(BlockOrder, bs)
  BY <1>1, BlocksAreOrdered
<1>3. n \in Nat /\ Lists(seq, bs, BlockOrder)
  BY <1>1, <1>2, InOrderLists
<1> HIDE DEF n, seq
<1>4. /\ seq \in [1..n -> bs] /\ \A b \in bs : \E i \in 1..n : seq[i] = b
      /\ \A i, j \in 1..n : i < j <=> <<seq[i], seq[j]>> \in BlockOrder
  BY <1>3 DEF Lists, n
<1>5. ASSUME NEW i \in 1..n, NEW j \in 1..n, seq[i] = seq[j] PROVE i = j
  <2>1. seq[i] \in bs
    BY <1>4
  <2>2. <<seq[i], seq[i]>> \notin BlockOrder
    BY <1>2, <2>1 DEF Orders
  <2>3. ~(i < j) /\ ~(j < i)
    BY <1>4, <1>5, <2>2
  <2> QED
    BY <1>3, <2>3
<1> QED
  BY <1>1, <1>3, <1>4, <1>5 DEF n, seq

\* What the joins give for one block.
LEMMA StoredRows ==
    ASSUME StoreInv, NEW b \in block
    PROVE  /\ b \in Blocks /\ RowsOf(b) \in Seq(Row)
           /\ Sets[b] = << >> => <<b, NoSet>> \in Range(RowsOf(b))
           /\ Sets[b] # << >> => /\ RowsOf(b) = BlockRows(b) /\ GetBlock(b) = BlockEntry(b)
                                 /\ \A x \in Range(RowsOf(b)) : x[2] # NoSet
<1>1. b \in Blocks /\ b \in block
  BY DEF StoreInv, RowsInv
<1>2. CASE Sets[b] = << >>
  <2>1. RowsOf(b) = <<<<b, NoSet>>>>
    BY <1>1, <1>2, RowsOfNone
  <2>2. <<b, NoSet>> \in Row
    BY <1>1 DEF Row
  <2>3. RowsOf(b) \in Seq(Row) /\ <<b, NoSet>> \in Range(RowsOf(b))
    BY <2>1, <2>2 DEF Range
  <2> QED
    BY <1>1, <1>2, <2>3
<1>3. CASE Sets[b] # << >>
  <2>1. RowsOf(b) = BlockRows(b) /\ GetBlock(b) = BlockEntry(b)
    BY <1>1, <1>3, RowsOfBlock, BlockIs DEF BlockRows, BlockEntry, Entry, FirstSets
  <2>2. BlockRows(b) \in Seq(Row)
    BY <1>1, BlockRowsAre
  <2>3. \A x \in Range(BlockRows(b)) : x[2] # NoSet
    <3>1. \A k \in 1..Len(Sets[b]) : BlockRows(b)[k][2] # NoSet
      BY <1>1, BlockRowsAre, StoreAssumption DEF StoreAssumption
    <3>2. DOMAIN BlockRows(b) = 1..Len(Sets[b])
      BY DEF BlockRows
    <3> QED
      BY <3>1, <3>2 DEF Range
  <2> QED
    BY <1>1, <1>3, <2>1, <2>2, <2>3
<1> QED
  BY <1>2, <1>3

\* What they give for several, in order of the blocks.
LEMMA OrderedRows ==
    ASSUME StoreInv, NEW bs \in SUBSET block, NEW n, n = Cardinality(bs),
           NEW seq, seq = InOrder(bs, BlockOrder)
    PROVE  /\ [i \in 1..n |-> RowsOf(seq[i])] \in [1..n -> Seq(Row)]
           /\ Ordered(bs) = FlattenSeq([i \in 1..n |-> RowsOf(seq[i])])
           /\ Ordered(bs) \in Seq(Row)
           /\ \A x : x \in Range(Ordered(bs)) <=> \E b \in bs : x \in Range(RowsOf(b))
<1> DEFINE groups == [i \in 1..n |-> RowsOf(seq[i])]
<1>1. /\ n \in Nat /\ seq \in [1..n -> bs] /\ DOMAIN seq = 1..n
      /\ \A b \in bs : \E i \in 1..n : seq[i] = b
  BY StoredInOrder
<1>2. \A b \in bs : RowsOf(b) \in Seq(Row)
  BY StoredRows
<1>3. groups \in [1..n -> Seq(Row)]
  BY <1>1, <1>2
<1>4. Ordered(bs) = FlattenSeq(groups)
  BY <1>1 DEF Ordered
<1>5. \A i \in 1..n : groups[i] = RowsOf(seq[i])
  OBVIOUS
<1> HIDE DEF groups
<1>6. /\ FlattenSeq(groups) \in Seq(Row)
      /\ \A x : x \in Range(FlattenSeq(groups)) <=> \E i \in 1..n : x \in Range(groups[i])
  BY <1>1, <1>3, FlattenRange
<1>7. ASSUME NEW x
      PROVE  x \in Range(Ordered(bs)) <=> \E b \in bs : x \in Range(RowsOf(b))
  BY <1>1, <1>4, <1>5, <1>6
<1> QED
  BY <1>3, <1>4, <1>6, <1>7 DEF groups

\* If all have solution sets, no row is NULL.
LEMMA OrderedFull ==
    ASSUME StoreInv, NEW bs \in SUBSET block, \A b \in bs : Sets[b] # << >>,
           NEW n, n = Cardinality(bs), NEW seq, seq = InOrder(bs, BlockOrder)
    PROVE  /\ seq \in [1..n -> Full] /\ Ordered(bs) = RowsTo(seq, n)
           /\ \A j \in DOMAIN Ordered(bs) : Ordered(bs)[j][2] # NoSet
<1>1. n \in Nat /\ seq \in [1..n -> bs]
  BY StoredInOrder
<1>2. \A b \in bs : b \in Blocks /\ RowsOf(b) = BlockRows(b) /\ \A x \in Range(RowsOf(b)) : x[2] # NoSet
  BY StoredRows
<1>3. ASSUME NEW j \in DOMAIN Ordered(bs) PROVE Ordered(bs)[j][2] # NoSet
  <2>1. Ordered(bs)[j] \in Range(Ordered(bs))
    BY DEF Range
  <2>2. \E b \in bs : Ordered(bs)[j] \in Range(RowsOf(b))
    BY <2>1, OrderedRows
  <2> QED
    BY <1>2, <2>2
<1>4. Ordered(bs) = RowsTo(seq, n)
  <2>1. Ordered(bs) = FlattenSeq([i \in 1..n |-> RowsOf(seq[i])])
    BY OrderedRows
  <2>2. \A i \in 1..n : RowsOf(seq[i]) = BlockRows(seq[i])
    BY <1>1, <1>2
  <2>3. [i \in 1..n |-> RowsOf(seq[i])] = [i \in 1..n |-> BlockRows(seq[i])]
    BY <2>2
  <2> QED
    BY <2>1, <2>3 DEF RowsTo
<1>5. seq \in [1..n -> Full]
  BY <1>1, <1>2 DEF Full
<1> QED
  BY <1>3, <1>4, <1>5

\* A listing of some blocks is what get_block returns for each of them.
LEMMA ListsBlocks ==
    ASSUME StoreInv, NEW bs \in SUBSET block
    PROVE  Collect(Ordered(bs)) = EachOf(bs)
<1> DEFINE n == Cardinality(bs)
           seq == InOrder(bs, BlockOrder)
<1>1. /\ n \in Nat /\ seq \in [1..n -> bs] /\ DOMAIN seq = 1..n
      /\ \A i, j \in 1..n : seq[i] = seq[j] => i = j
  BY StoredInOrder
<1>2. CASE \E b \in bs : Sets[b] = << >>
  <2>1. PICK b \in bs : Sets[b] = << >>
    BY <1>2
  <2>2. <<b, NoSet>> \in Range(RowsOf(b))
    BY <2>1, StoredRows
  <2>3. <<b, NoSet>> \in Range(Ordered(bs))
    BY <2>2, OrderedRows
  <2>4. \E j \in DOMAIN Ordered(bs) : Ordered(bs)[j][2] = NoSet
    BY <2>3 DEF Range
  <2>5. Collect(Ordered(bs)) = QueryError
    BY <2>4, CollectIs
  <2> QED
    BY <1>2, <2>5 DEF EachOf
<1>3. CASE \A b \in bs : Sets[b] # << >>
  <2>1. /\ seq \in [1..n -> Full] /\ Ordered(bs) = RowsTo(seq, n)
        /\ \A j \in DOMAIN Ordered(bs) : Ordered(bs)[j][2] # NoSet
    BY <1>3, OrderedFull
  <2>2. EachOf(bs) = [i \in 1..n |-> GetBlock(seq[i])]
    BY <1>1, <1>3 DEF EachOf
  <2> HIDE DEF n, seq
  <2>3. Collect(Ordered(bs)) = CollectedFrom(Ordered(bs))
    BY <2>1, CollectIs
  <2>4. CollectedFrom(RowsTo(seq, n)) = EntriesTo(seq, n)
    BY <1>1, <2>1, CollectBlocks
  <2>5. EntriesTo(seq, n) = [i \in 1..n |-> GetBlock(seq[i])]
    <3>1. \A i \in 1..n : BlockEntry(seq[i]) = GetBlock(seq[i])
      BY <1>1, <1>3, StoredRows
    <3> QED
      BY <3>1 DEF EntriesTo
  <2> QED
    BY <2>1, <2>2, <2>3, <2>4, <2>5
<1> QED
  BY <1>2, <1>3

\* list_blocks returns every block of its range once, as get_block does, also where
\* several blocks have one number.
THEOREM EachBlockIsListed == Spec => []ListsEachBlock
<1>1. StoreInv => ListsEachBlock
  <2> SUFFICES ASSUME StoreInv, NEW r \in Ranges
               PROVE  ListBlocks(r[1], r[2]) = EachOf(InRange(r[1], r[2]))
    BY DEF ListsEachBlock
  <2>1. InRange(r[1], r[2]) \in SUBSET block
    BY DEF InRange
  <2> QED
    BY <2>1, ListsBlocks DEF ListBlocks
<1> QED
  BY <1>1, Stored, PTL
-----------------------------------------------------------------------------
(* Failed and unchecked blocks.                                            *)

Sorted(s) == \A p, q \in 1..Len(s) : p < q => s[p][1] <= s[q][1]

\* Sequences of equal numbers, in order of the numbers, are sorted together.
LEMMA SortedConcat ==
    ASSUME NEW S, NEW u \in Seq(S), NEW v \in Seq(S), NEW w, Same(w, u \o v),
           NEW number \in Int, Sorted(u),
           \A x \in Range(u) : x[1] \in Int /\ x[1] <= number,
           \A x \in Range(v) : x[1] = number
    PROVE  Sorted(w)
<1>1. Len(u) \in Nat /\ Len(v) \in Nat
  BY LenProperties
<1>2. /\ w \in Seq(S) /\ Len(w) = Len(u) + Len(v)
      /\ \A i \in 1..Len(u) + Len(v) : w[i] = IF i <= Len(u) THEN u[i] ELSE v[i - Len(u)]
  BY ConcatProperties DEF Same
<1>3. \A i \in 1..Len(u) : u[i] \in Range(u)
  BY RangeEquality
<1>4. \A i \in 1..Len(v) : v[i] \in Range(v)
  BY RangeEquality
<1>5. ASSUME NEW p \in 1..Len(w), NEW q \in 1..Len(w), p < q PROVE w[p][1] <= w[q][1]
  <2>1. p \in 1..Len(u) + Len(v) /\ q \in 1..Len(u) + Len(v)
    BY <1>2
  <2>2. CASE q <= Len(u)
    <3>1. p \in 1..Len(u) /\ q \in 1..Len(u) /\ w[p] = u[p] /\ w[q] = u[q]
      BY <1>1, <1>2, <1>5, <2>1, <2>2
    <3> QED
      BY <1>5, <3>1 DEF Sorted
  <2>3. CASE p <= Len(u) /\ ~(q <= Len(u))
    <3>1. p \in 1..Len(u) /\ q - Len(u) \in 1..Len(v) /\ w[p] = u[p] /\ w[q] = v[q - Len(u)]
      BY <1>1, <1>2, <2>1, <2>3
    <3>2. u[p] \in Range(u) /\ v[q - Len(u)] \in Range(v)
      BY <1>3, <1>4, <3>1
    <3> QED
      BY <3>1, <3>2
  <2>4. CASE ~(p <= Len(u))
    <3>1. /\ p - Len(u) \in 1..Len(v) /\ q - Len(u) \in 1..Len(v)
          /\ w[p] = v[p - Len(u)] /\ w[q] = v[q - Len(u)]
      BY <1>1, <1>2, <1>5, <2>1, <2>4
    <3>2. v[p - Len(u)] \in Range(v) /\ v[q - Len(u)] \in Range(v)
      BY <1>4, <3>1
    <3> QED
      BY <3>1, <3>2
  <2> QED
    BY <2>2, <2>3, <2>4
<1> QED
  BY <1>5 DEF Sorted

\* ... any number of them.
LEMMA FlattenSorted ==
    ASSUME NEW S, NEW n \in Nat, NEW ss \in [1..n -> Seq(S)], NEW num \in [1..n -> Int],
           \A i \in 1..n : \A x \in Range(ss[i]) : x[1] = num[i],
           \A i, j \in 1..n : i < j => num[i] <= num[j]
    PROVE  Sorted(FlattenSeq(ss))
<1> DEFINE first(m) == [i \in 1..m |-> ss[i]]
           T == {m \in 0..n : Sorted(FlattenSeq(first(m)))}
<1>1. 0 \in T
  <2>1. first(0) \in [1..0 -> {}]
    OBVIOUS
  <2>2. FlattenSeq(first(0)) = << >>
    BY <2>1, FlattenNone
  <2>3. Sorted(<< >>)
    BY DEF Sorted
  <2>4. 0 \in 0..n
    OBVIOUS
  <2> HIDE DEF first
  <2>5. Sorted(FlattenSeq(first(0)))
    BY <2>2, <2>3, Zenon
  <2> QED
    BY <2>4, <2>5
<1>2. ASSUME NEW m \in 0..n, m < n, m \in T PROVE m + 1 \in T
  <2> DEFINE u == FlattenSeq(first(m))
             v == ss[m + 1]
             w == FlattenSeq(first(m + 1))
  <2>1. m \in Nat /\ m + 1 \in 0..n /\ m + 1 \in 1..n /\ m + 1 \in 1..(m + 1)
    BY <1>2
  <2>2. first(m) \in [1..m -> Seq(S)] /\ first(m + 1) \in [1..(m + 1) -> Seq(S)]
    BY <1>2
  <2>3. [i \in 1..m |-> first(m + 1)[i]] = first(m) /\ first(m + 1)[m + 1] = ss[m + 1]
    BY <2>1
  <2>4. \A i \in 1..m : first(m)[i] = ss[i] /\ i \in 1..n /\ i < m + 1
    BY <2>1
  <2> HIDE DEF first
  <2>5. Same(w, u \o v)
    BY <2>1, <2>2, <2>3, FlattenStep DEF Same
  <2>6. u \in Seq(S) /\ \A x : x \in Range(u) <=> \E i \in 1..m : x \in Range(first(m)[i])
    BY <2>1, <2>2, FlattenRange
  <2>7. v \in Seq(S) /\ num[m + 1] \in Int /\ \A x \in Range(v) : x[1] = num[m + 1]
    BY <2>1
  <2> HIDE DEF u, v, w
  <2>8. ASSUME NEW x \in Range(u) PROVE x[1] \in Int /\ x[1] <= num[m + 1]
    <3>1. PICK i \in 1..m : x \in Range(first(m)[i])
      BY <2>6
    <3>2. x[1] = num[i] /\ i \in 1..n /\ i < m + 1
      BY <2>4, <3>1
    <3> QED
      BY <2>1, <3>2
  <2>9. Sorted(u)
    BY <1>2 DEF u
  <2> DEFINE number == num[m + 1]
  <2>11. /\ u \in Seq(S) /\ v \in Seq(S) /\ number \in Int
         /\ \A x \in Range(v) : x[1] = number
         /\ \A x \in Range(u) : x[1] \in Int /\ x[1] <= number
    BY <2>6, <2>7, <2>8
  <2> HIDE DEF number
  <2>10. Sorted(w)
    BY <2>5, <2>9, <2>11, SortedConcat
  <2> QED
    BY <2>1, <2>10 DEF w
<1>3. n \in T
  <2> HIDE DEF T
  <2>1. n \in 0..n
    OBVIOUS
  <2> QED
    BY <1>1, <1>2, <2>1, UpTo
<1>4. first(n) = ss
  OBVIOUS
<1> QED
  BY <1>3, <1>4

\* Failures in order of number, and some for each block that has any.
Reported(failures, bs) ==
    /\ Sorted(failures) /\ DOMAIN failures = 1..Len(failures)
    /\ \A b \in bs : (\E s \in SolutionSets : <<b, s>> \in failed) =>
          \E i \in DOMAIN failures : failures[i][1] = Number[b]

\* list_failed_blocks reports them, block by block.
LEMMA FailuresAre ==
    ASSUME StoreInv, NEW lo, NEW hi
    PROVE  Reported(ListFailedBlocks(lo, hi), InRange(lo, hi))
<1> DEFINE bs == InRange(lo, hi)
           n == Cardinality(bs)
           seq == InOrder(bs, BlockOrder)
           of(b) == {s \in SolutionSets : <<b, s>> \in failed}
           sets(b) == InOrder(of(b), SetOrder)
           groups == [i \in 1..n |->
                        [j \in DOMAIN sets(seq[i]) |-> <<Number[seq[i]], sets(seq[i])[j]>>]]
           num == [i \in 1..n |-> Number[seq[i]]]
           S == Int \X SolutionSets
           failures == ListFailedBlocks(lo, hi)
<1>1. bs \in SUBSET block
  BY DEF InRange
<1>2. /\ n \in Nat /\ seq \in [1..n -> bs] /\ DOMAIN seq = 1..n
      /\ \A b \in bs : \E i \in 1..n : seq[i] = b
      /\ \A i, j \in 1..n : i < j <=> <<seq[i], seq[j]>> \in BlockOrder
  BY <1>1, StoredInOrder
<1>3. ASSUME NEW b \in bs
      PROVE  /\ Number[b] \in Int
             /\ DOMAIN sets(b) = 1..Cardinality(of(b)) /\ Cardinality(of(b)) \in Nat
             /\ sets(b) \in [1..Cardinality(of(b)) -> SolutionSets]
             /\ of(b) # {} => Cardinality(of(b)) # 0
  <2>1. Number[b] \in Int
    BY <1>1, StoreAssumption DEF StoreAssumption, StoreInv, RowsInv
  <2>2. IsFiniteSet(of(b))
    <3> DEFINE R == {r \in failed : r[1] = b}
    <3>1. IsFiniteSet(R)
      BY FS_Subset DEF StoreInv, ReferencesInv
    <3> DEFINE f == [s \in of(b) |-> <<b, s>>]
    <3>2. f \in Injection(of(b), R)
      BY DEF Injection, IsInjective
    <3> HIDE DEF f, R, of
    <3> QED
      BY <3>1, <3>2, FS_Injection
  <2>3. Orders(SetOrder, of(b))
    BY SetsAreOrdered
  <2>4. of(b) \in SUBSET SolutionSets
    OBVIOUS
  <2>5. Cardinality(of(b)) \in Nat /\ Lists(sets(b), of(b), SetOrder)
    <3> HIDE DEF of
    <3> QED
      BY <2>2, <2>3, InOrderLists
  <2>6. sets(b) \in [1..Cardinality(of(b)) -> of(b)]
    <3> HIDE DEF of
    <3> QED
      BY <2>5 DEF Lists
  <2> HIDE DEF sets, of
  <2>7. of(b) # {} => Cardinality(of(b)) # 0
    BY <2>2, FS_EmptySet
  <2> QED
    BY <2>1, <2>4, <2>5, <2>6, <2>7
<1>4. failures = FlattenSeq(groups)
  BY <1>2 DEF ListFailedBlocks
<1> HIDE DEF bs, n, seq, sets, failures
<1>5. ASSUME NEW i \in 1..n
      PROVE  groups[i] \in Seq(S) /\ \A x \in Range(groups[i]) : x[1] = num[i]
  <2> DEFINE m == Cardinality(of(seq[i]))
  <2>1. seq[i] \in bs
    BY <1>2
  <2>2. DOMAIN sets(seq[i]) = 1..m /\ m \in Nat /\ sets(seq[i]) \in [1..m -> SolutionSets]
    BY <1>3, <2>1
  <2>3. groups[i] = [j \in 1..m |-> <<Number[seq[i]], sets(seq[i])[j]>>]
    BY <2>2
  <2>4. Number[seq[i]] \in Int /\ num[i] = Number[seq[i]]
    BY <1>3, <2>1
  <2> HIDE DEF m, groups, of, num
  <2>5. groups[i] \in [1..m -> S]
    BY <2>2, <2>3, <2>4
  <2>6. groups[i] \in Seq(S)
    BY <2>2, <2>5, SequenceIs
  <2>7. \A x \in Range(groups[i]) : x[1] = num[i]
    BY <2>3, <2>4 DEF Range
  <2> QED
    BY <2>6, <2>7
<1>6. groups \in [1..n -> Seq(S)] /\ num \in [1..n -> Int]
  BY <1>2, <1>3, <1>5
<1>7. ASSUME NEW i \in 1..n, NEW j \in 1..n, i < j PROVE num[i] <= num[j]
  <2>1. <<seq[i], seq[j]>> \in BlockOrder /\ seq[i] \in bs /\ seq[j] \in bs
    BY <1>2, <1>7
  <2>2. Number[seq[i]] \in Int /\ Number[seq[j]] \in Int
    BY <1>3, <2>1
  <2> QED
    BY <2>1, <2>2 DEF BlockOrder
<1>8. ASSUME NEW b \in bs, of(b) # {} PROVE \E x \in Range(failures) : x[1] = Number[b]
  <2>1. PICK i \in 1..n : seq[i] = b
    BY <1>2
  <2> DEFINE card == Cardinality(of(b))
  <2>5. DOMAIN sets(b) = 1..card /\ card \in Nat /\ card # 0
    BY <1>3, <1>8
  <2> HIDE DEF card
  <2>2. 1 \in DOMAIN sets(b)
    BY <2>5
  <2>3. groups[i][1] = <<Number[b], sets(b)[1]>> /\ 1 \in DOMAIN groups[i]
    BY <2>1, <2>2
  <2> HIDE DEF groups
  <2>4. groups[i][1] \in Range(groups[i])
    BY <2>3 DEF Range
  <2>6. groups[i][1] \in Range(FlattenSeq(groups))
    BY <1>2, <1>6, <2>4, FlattenRange
  <2> QED
    BY <1>4, <2>3, <2>6
<1> HIDE DEF groups, num, S, of
<1>9. Sorted(FlattenSeq(groups)) /\ FlattenSeq(groups) \in Seq(S)
  BY <1>2, <1>5, <1>6, <1>7, FlattenRange, FlattenSorted
<1>10. DOMAIN failures = 1..Len(failures)
  BY <1>4, <1>9, LenProperties
<1>11. ASSUME NEW b \in bs, \E s \in SolutionSets : <<b, s>> \in failed
       PROVE  \E i \in DOMAIN failures : failures[i][1] = Number[b]
  <2>1. of(b) # {}
    BY <1>11 DEF of
  <2> QED
    BY <1>8, <2>1 DEF Range
<1> QED
  BY <1>4, <1>9, <1>10, <1>11 DEF bs, failures, Reported

\* A stored block with solution sets is unchecked or failed, never both and never
\* neither; failures are reported in order of number.
THEOREM BlocksFailOrAreUnchecked == Spec => []FailedOrUnchecked
<1>1. StoreInv => FailedOrUnchecked
  <2> SUFFICES ASSUME StoreInv, NEW r \in Ranges, NEW failures, NEW failedBlocks,
                      failures = ListFailedBlocks(r[1], r[2]),
                      failedBlocks = {b \in InRange(r[1], r[2]) :
                                        \E s \in SolutionSets : <<b, s>> \in failed}
               PROVE  /\ ListUncheckedBlocks(r[1], r[2])
                           = EachOf(InRange(r[1], r[2]) \ failedBlocks)
                      /\ \A b \in failedBlocks : \E i \in DOMAIN failures : failures[i][1] = Number[b]
                      /\ \A i, j \in DOMAIN failures : i < j => failures[i][1] <= failures[j][1]
    BY DEF FailedOrUnchecked
  <2> DEFINE bs == InRange(r[1], r[2])
             unchecked == {b \in bs : Unchecked(b)}
  <2>1. bs \in SUBSET block
    BY DEF InRange
  <2>2. unchecked = bs \ failedBlocks
    <3>1. failed \subseteq block \X SolutionSets
      BY DEF StoreInv, RowsInv, ReferencesInv
    <3>2. ASSUME NEW b \in bs PROVE Unchecked(b) <=> b \notin failedBlocks
      <4>1. b \in failedBlocks <=> \E s \in SolutionSets : <<b, s>> \in failed
        OBVIOUS
      <4>2. (\E s \in SolutionSets : <<b, s>> \in failed) <=> \E x \in failed : x[1] = b
        <5>1. ASSUME NEW x \in failed, x[1] = b PROVE \E s \in SolutionSets : <<b, s>> \in failed
          <6>1. x = <<x[1], x[2]>> /\ x[2] \in SolutionSets
            BY <3>1
          <6> QED
            BY <5>1, <6>1
        <5>2. ASSUME NEW s \in SolutionSets, <<b, s>> \in failed PROVE \E x \in failed : x[1] = b
          <6>1. <<b, s>>[1] = b
            OBVIOUS
          <6> QED
            BY <5>2, <6>1
        <5> QED
          BY <5>1, <5>2
      <4> QED
        BY <4>1, <4>2 DEF Unchecked
    <3> HIDE DEF bs
    <3> QED
      BY <3>2
  <2>3. unchecked \in SUBSET block
    BY <2>1
  <2> HIDE DEF bs, unchecked
  <2>4. ListUncheckedBlocks(r[1], r[2]) = EachOf(bs \ failedBlocks)
    BY <2>2, <2>3, ListsBlocks DEF ListUncheckedBlocks, bs, unchecked
  <2>5. Reported(failures, InRange(r[1], r[2]))
    BY FailuresAre
  <2> QED
    BY <2>4, <2>5 DEF Reported, Sorted, bs
<1> QED
  BY <1>1, Stored, PTL

-----------------------------------------------------------------------------
(* A block above all others.                                               *)

\* A finite set is listed in one way.
LEMMA ListsUnique ==
    ASSUME NEW S, NEW before, Orders(before, S), NEW n \in Nat, n = Cardinality(S),
           NEW s, NEW t, Lists(s, S, before), Lists(t, S, before)
    PROVE  \A k \in 1..n : s[k] = t[k]
<1> DEFINE T == {m \in 0..n : \A k \in 1..m : s[k] = t[k]}
<1>1. /\ s \in [1..n -> S] /\ \A x \in S : \E k \in 1..n : s[k] = x
      /\ \A i, j \in 1..n : i < j <=> <<s[i], s[j]>> \in before
      /\ t \in [1..n -> S] /\ \A x \in S : \E k \in 1..n : t[k] = x
      /\ \A i, j \in 1..n : i < j <=> <<t[i], t[j]>> \in before
  BY DEF Lists
<1>2. 0 \in T
  OBVIOUS
<1>3. ASSUME NEW m \in 0..n, m < n, m \in T PROVE m + 1 \in T
  <2>1. m + 1 \in 1..n /\ m + 1 \in 0..n /\ \A k \in 1..m : s[k] = t[k]
    BY <1>3
  <2> DEFINE x == s[m + 1]
             y == t[m + 1]
  <2>2. x \in S /\ y \in S
    BY <1>1, <2>1
  <2>3. PICK i \in 1..n : t[i] = x
    BY <1>1, <2>2
  <2>4. PICK j \in 1..n : s[j] = y
    BY <1>1, <2>2
  <2>5. x = y
    <3>1. ASSUME x # y PROVE FALSE
      <4>1. <<x, x>> \notin before /\ <<y, y>> \notin before
        BY <2>2 DEF Orders
      <4>2. ~(i < m + 1)
        <5>1. ASSUME i < m + 1 PROVE FALSE
          <6>1. i \in 1..m
            BY <2>1, <5>1
          <6>2. s[i] = x
            BY <2>1, <2>3, <6>1
          <6>3. <<x, x>> \in before
            BY <1>1, <2>1, <5>1, <6>2
          <6> QED
            BY <4>1, <6>3
        <5> QED
          BY <5>1
      <4>3. ~(j < m + 1)
        <5>1. ASSUME j < m + 1 PROVE FALSE
          <6>1. j \in 1..m
            BY <2>1, <5>1
          <6>2. t[j] = y
            BY <2>1, <2>4, <6>1
          <6>3. <<y, y>> \in before
            BY <1>1, <2>1, <5>1, <6>2
          <6> QED
            BY <4>1, <6>3
        <5> QED
          BY <5>1
      <4>4. m + 1 < i /\ m + 1 < j
        BY <2>1, <2>3, <2>4, <3>1, <4>2, <4>3
      <4>5. <<y, x>> \in before
        BY <1>1, <2>1, <2>3, <4>4
      <4>6. <<x, y>> \in before
        BY <1>1, <2>1, <2>4, <4>4
      <4> QED
        BY <2>2, <4>1, <4>5, <4>6 DEF Orders
    <3> QED
      BY <3>1
  <2>6. ASSUME NEW k \in 1..(m + 1) PROVE s[k] = t[k]
    <3>1. k \in 1..m \/ k = m + 1
      BY <2>1
    <3> QED
      BY <2>1, <2>5, <3>1
  <2> QED
    BY <2>1, <2>6
<1>4. n \in T
  <2> HIDE DEF T
  <2>1. n \in 0..n
    OBVIOUS
  <2> QED
    BY <1>2, <1>3, <2>1, UpTo
<1> QED
  BY <1>4

\* The last member of a set is listed last, behind the others.
LEMMA LastInOrder ==
    ASSUME NEW S, IsFiniteSet(S), NEW before, Orders(before, S),
           NEW b \in S, \A c \in S \ {b} : <<c, b>> \in before
    PROVE  \E m \in Nat :
              /\ Cardinality(S) = m + 1 /\ Cardinality(S \ {b}) = m
              /\ InOrder(S, before)[m + 1] = b
              /\ \A k \in 1..m : InOrder(S \ {b}, before)[k] = InOrder(S, before)[k]
<1> DEFINE R == S \ {b}
           m == Cardinality(R)
           s == InOrder(S, before)
           t == InOrder(R, before)
           u == [k \in 1..m |-> s[k]]
<1>1. IsFiniteSet(R) /\ Orders(before, R)
  BY FS_RemoveElement DEF Orders
<1>2. Cardinality(S) = m + 1 /\ m \in Nat
  <2>1. Cardinality(R) = Cardinality(S) - 1
    BY FS_RemoveElement
  <2>2. Cardinality(S) \in Nat /\ Cardinality(R) \in Nat
    BY <1>1, FS_CardinalityType
  <2> QED
    BY <2>1, <2>2
<1> HIDE DEF R
<1>3. Lists(s, S, before) /\ Lists(t, R, before)
  BY <1>1, InOrderLists
<1> HIDE DEF m, s, t
<1>4. /\ s \in [1..(m + 1) -> S] /\ \A x \in S : \E k \in 1..(m + 1) : s[k] = x
      /\ \A i, j \in 1..(m + 1) : i < j <=> <<s[i], s[j]>> \in before
  BY <1>2, <1>3 DEF Lists
<1>5. s[m + 1] = b
  <2>1. PICK k \in 1..(m + 1) : s[k] = b
    BY <1>4
  <2>2. m + 1 \in 1..(m + 1) /\ s[m + 1] \in S
    BY <1>2, <1>4
  <2>3. ASSUME s[m + 1] # b PROVE FALSE
    <3>1. k < m + 1
      BY <1>2, <2>1, <2>3
    <3>2. <<b, s[m + 1]>> \in before
      BY <1>4, <2>1, <2>2, <3>1
    <3>3. <<s[m + 1], b>> \in before
      BY <2>2, <2>3
    <3> QED
      BY <2>2, <3>2, <3>3 DEF Orders
  <2> QED
    BY <2>3
<1>6. Lists(u, R, before)
  <2>1. ASSUME NEW k \in 1..m PROVE s[k] \in R
    <3>1. k \in 1..(m + 1) /\ m + 1 \in 1..(m + 1) /\ k < m + 1
      BY <1>2
    <3>2. <<s[k], b>> \in before /\ s[k] \in S
      BY <1>4, <1>5, <3>1
    <3>3. s[k] # b
      BY <3>2 DEF Orders
    <3> QED
      BY <3>2, <3>3 DEF R
  <2>2. ASSUME NEW x \in R PROVE \E k \in 1..m : u[k] = x
    <3>1. PICK k \in 1..(m + 1) : s[k] = x
      BY <1>4 DEF R
    <3>2. k # m + 1
      BY <1>5, <3>1 DEF R
    <3>3. k \in 1..m
      BY <1>2, <3>2
    <3> QED
      BY <3>1, <3>3
  <2>3. ASSUME NEW i \in 1..m, NEW j \in 1..m PROVE i < j <=> <<u[i], u[j]>> \in before
    <3>1. i \in 1..(m + 1) /\ j \in 1..(m + 1)
      BY <1>2
    <3> QED
      BY <1>4, <3>1
  <2>4. u \in [1..m -> R]
    BY <2>1
  <2> QED
    BY <2>2, <2>3, <2>4 DEF Lists, m
<1>7. \A k \in 1..m : t[k] = u[k]
  <2> HIDE DEF u
  <2> QED
    BY <1>1, <1>2, <1>3, <1>6, ListsUnique DEF m
<1>8. \A k \in 1..m : t[k] = s[k]
  BY <1>7
<1> QED
  BY <1>2, <1>5, <1>8 DEF m, s, t, R

\* What a sequence is appended to is a prefix of the whole.
LEMMA PrefixOfConcat ==
    ASSUME NEW S, NEW u \in Seq(S), NEW v \in Seq(S), NEW w, Same(w, u \o v)
    PROVE  IsPrefix(u, w)
<1>1. Len(u) \in Nat /\ Len(v) \in Nat
  BY LenProperties
<1>2. /\ w \in Seq(S) /\ Len(w) = Len(u) + Len(v)
      /\ \A i \in 1..Len(u) + Len(v) : w[i] = IF i <= Len(u) THEN u[i] ELSE v[i - Len(u)]
  BY ConcatProperties DEF Same
<1>3. \A i \in 1..Len(u) : w[i] = u[i]
  BY <1>1, <1>2
<1>4. SubSeq(u, 1, Len(u)) = [i \in 1..Len(u) |-> u[i]] /\ SubSeq(w, 1, Len(u)) = [i \in 1..Len(u) |-> w[i]]
  BY <1>1, <1>2
<1>5. SubSeq(u, 1, Len(u)) = SubSeq(w, 1, Len(u))
  BY <1>3, <1>4
<1>6. Len(u) <= Len(w)
  BY <1>1, <1>2
<1> QED
  BY <1>5, <1>6 DEF IsPrefix

\* The rows of a block above all others come last.
LEMMA RowsBehind ==
    ASSUME StoreInv, NEW bs \in SUBSET block, NEW b \in bs,
           \A c \in bs \ {b} : Number[c] < Number[b]
    PROVE  IsPrefix(Ordered(bs \ {b}), Ordered(bs))
<1> DEFINE R == bs \ {b}
<1>1. IsFiniteSet(bs) /\ bs \in SUBSET Blocks /\ R \in SUBSET block
  BY StoredInOrder DEF StoreInv, RowsInv
<1>2. Orders(BlockOrder, bs)
  BY <1>1, BlocksAreOrdered
<1>3. \A c \in R : <<c, b>> \in BlockOrder
  BY <1>1 DEF BlockOrder
<1> DEFINE seq == InOrder(bs, BlockOrder)
           less == InOrder(R, BlockOrder)
<1>4. PICK m \in Nat :
         /\ Cardinality(bs) = m + 1 /\ Cardinality(R) = m
         /\ seq[m + 1] = b /\ \A k \in 1..m : less[k] = seq[k]
  BY <1>1, <1>2, <1>3, LastInOrder
<1> DEFINE groups == [i \in 1..(m + 1) |-> RowsOf(seq[i])]
           fewer == [i \in 1..m |-> RowsOf(less[i])]
<1> HIDE DEF seq, less, R
<1>5. /\ groups \in [1..(m + 1) -> Seq(Row)] /\ Ordered(bs) = FlattenSeq(groups)
      /\ Ordered(R) = FlattenSeq(fewer) /\ Ordered(R) \in Seq(Row)
  BY <1>1, <1>4, OrderedRows DEF seq, less
<1>6. [i \in 1..m |-> groups[i]] = fewer
  BY <1>4
<1>7. groups[m + 1] \in Seq(Row)
  BY <1>5
<1> HIDE DEF groups, fewer
<1>8. FlattenSeq(groups) = FlattenSeq([i \in 1..m |-> groups[i]]) \o groups[m + 1]
  BY <1>5, FlattenStep
<1>9. Same(Ordered(bs), Ordered(R) \o groups[m + 1])
  BY <1>5, <1>6, <1>8 DEF Same
<1>10. IsPrefix(Ordered(R), Ordered(bs))
  BY <1>5, <1>7, <1>9, PrefixOfConcat
<1> QED
  BY <1>10 DEF R

-----------------------------------------------------------------------------
(* Pages.                                                                  *)

\* The lesser of two numbers.
LEMMA MinIs ==
    ASSUME NEW a \in Int, NEW b \in Int
    PROVE  Min({a, b}) = IF a <= b THEN a ELSE b
<1> DEFINE m == IF a <= b THEN a ELSE b
<1>1. m \in {a, b} /\ \A y \in {a, b} : m <= y
  OBVIOUS
<1>2. ASSUME NEW x \in {a, b}, \A y \in {a, b} : x <= y PROVE x = m
  BY <1>1, <1>2
<1> QED
  BY <1>1, <1>2 DEF Min

\* The elements a + 1 .. c of a sequence.
Part(s, a, c) == [i \in 1..(c - a) |-> s[a + i]]

\* SubSeq takes a part.
LEMMA PartIs ==
    ASSUME NEW S, NEW s \in Seq(S), NEW a \in Nat, NEW c \in Nat, c <= Len(s)
    PROVE  Same(SubSeq(s, a + 1, c), Part(s, a, c)) /\ Part(s, a, c) \in Seq(S)
<1>1. SubSeq(s, a + 1, c) = [i \in 1..(1 + c - (a + 1)) |-> s[i + (a + 1) - 1]]
  OBVIOUS
<1>2. 1 + c - (a + 1) = c - a /\ \A i \in 1..(c - a) : i + (a + 1) - 1 = a + i
  OBVIOUS
<1>3. SubSeq(s, a + 1, c) = Part(s, a, c)
  BY <1>1, <1>2 DEF Part
<1>4. Part(s, a, c) \in Seq(S)
  <2>1. CASE a <= c
    <3>1. c - a \in Nat /\ \A i \in 1..(c - a) : a + i \in 1..Len(s)
      BY <2>1
    <3>2. Part(s, a, c) \in [1..(c - a) -> S]
      BY <3>1 DEF Part
    <3> QED
      BY <3>1, <3>2, SequenceIs
  <2>2. CASE ~(a <= c)
    <3>1. 1..(c - a) = 1..0
      BY <2>2
    <3>2. Part(s, a, c) \in [1..0 -> S]
      BY <3>1 DEF Part
    <3> QED
      BY <3>2, SequenceIs
  <2> QED
    BY <2>1, <2>2
<1> QED
  BY <1>3, <1>4 DEF Same

\* Neighbouring parts make one.
LEMMA PartsJoin ==
    ASSUME NEW S, NEW s \in Seq(S), NEW a \in Nat, NEW c \in Nat, a <= c, c <= Len(s)
    PROVE  Same(Part(s, 0, a) \o Part(s, a, c), Part(s, 0, c))
<1> DEFINE u == Part(s, 0, a)
           v == Part(s, a, c)
           w == Part(s, 0, c)
<1>1. u \in Seq(S) /\ v \in Seq(S) /\ w \in Seq(S)
  <2>1. 0 \in Nat /\ Len(s) \in Nat /\ a <= Len(s)
    BY LenProperties
  <2> HIDE DEF u, v, w
  <2>2. u \in Seq(S)
    BY <2>1, PartIs DEF u
  <2>3. v \in Seq(S)
    BY PartIs DEF v
  <2>4. w \in Seq(S)
    BY <2>1, PartIs DEF w
  <2> QED
    BY <2>2, <2>3, <2>4
<1>2. /\ a - 0 = a /\ c - 0 = c /\ c - a \in Nat
      /\ \A i \in 1..a : u[i] = s[i]
      /\ \A i \in 1..(c - a) : v[i] = s[a + i]
      /\ \A i \in 1..c : w[i] = s[i]
      /\ DOMAIN u = 1..a /\ DOMAIN v = 1..(c - a) /\ DOMAIN w = 1..c
  BY DEF Part
<1> HIDE DEF u, v, w
<1>3. Len(u) = a /\ Len(v) = c - a /\ Len(w) = c
  BY <1>1, <1>2
<1>4. /\ u \o v \in Seq(S) /\ Len(u \o v) = Len(u) + Len(v)
      /\ \A i \in 1..Len(u) + Len(v) : (u \o v)[i] = IF i <= Len(u) THEN u[i] ELSE v[i - Len(u)]
  BY <1>1, ConcatProperties
<1>5. Len(u) + Len(v) = c
  BY <1>2, <1>3
<1>6. ASSUME NEW i \in 1..c PROVE (u \o v)[i] = w[i]
  <2>1. CASE i <= a
    <3>1. i \in 1..a /\ i \in 1..Len(u) + Len(v)
      BY <1>5, <2>1
    <3> QED
      BY <1>2, <1>3, <1>4, <3>1
  <2>2. CASE ~(i <= a)
    <3>1. i - a \in 1..(c - a) /\ i \in 1..Len(u) + Len(v) /\ a + (i - a) = i
      BY <1>5, <2>2
    <3> QED
      BY <1>2, <1>3, <1>4, <2>2, <3>1
  <2> QED
    BY <2>1, <2>2
<1>7. u \o v = w
  BY <1>1, <1>3, <1>4, <1>5, <1>6, SeqEqual
<1> QED
  BY <1>7 DEF Same, u, v, w

Shorter(a, b) == IF a <= b THEN a ELSE b

\* A page is the part from its offset to its end or that of the rows.
LEMMA PageIs ==
    ASSUME NEW S, NEW rows \in Seq(S), NEW size \in Nat \ {0}, NEW page \in Nat, NEW a, a = page * size
    PROVE  /\ a \in Nat /\ Page(rows, size, page) \in Seq(S)
           /\ Same(Page(rows, size, page), Part(rows, a, Shorter(a + size, Len(rows))))
<1>1. a \in Nat /\ (page + 1) * size = a + size /\ Len(rows) \in Nat
  OBVIOUS
<1>2. Min({a + size, Len(rows)}) = Shorter(a + size, Len(rows))
  BY <1>1, MinIs DEF Shorter
<1>3. Page(rows, size, page) = SubSeq(rows, a + 1, Shorter(a + size, Len(rows)))
  BY <1>1, <1>2 DEF Page
<1> DEFINE c == Shorter(a + size, Len(rows))
<1>4. c \in Nat /\ c <= Len(rows)
  BY <1>1 DEF Shorter
<1> HIDE DEF c
<1>5. Same(SubSeq(rows, a + 1, c), Part(rows, a, c)) /\ Part(rows, a, c) \in Seq(S)
  BY <1>1, <1>4, PartIs
<1> QED
  BY <1>1, <1>3, <1>5 DEF Same, c

\* The first m pages hold the first m * size rows.
LEMMA PagesJoin ==
    ASSUME NEW S, NEW rows \in Seq(S), NEW size \in Nat \ {0}, NEW m \in Nat
    PROVE  Same(FlattenSeq([p \in 1..m |-> Page(rows, size, p - 1)]),
                Part(rows, 0, Shorter(m * size, Len(rows))))
<1> DEFINE first(k) == [p \in 1..k |-> Page(rows, size, p - 1)]
           T == {k \in 0..m : Same(FlattenSeq(first(k)), Part(rows, 0, Shorter(k * size, Len(rows))))}
<1>1. Len(rows) \in Nat
  BY LenProperties
<1>2. 0 \in T
  <2>1. first(0) \in [1..0 -> {}]
    OBVIOUS
  <2>2. FlattenSeq(first(0)) = << >>
    BY <2>1, FlattenNone
  <2>3. 0 * size = 0 /\ Shorter(0, Len(rows)) = 0
    BY <1>1 DEF Shorter
  <2>4. Part(rows, 0, 0) = << >>
    BY DEF Part
  <2> HIDE DEF first
  <2>5. Same(FlattenSeq(first(0)), Part(rows, 0, Shorter(0 * size, Len(rows))))
    BY <2>2, <2>3, <2>4 DEF Same
  <2>6. 0 \in 0..m
    OBVIOUS
  <2> QED
    BY <2>5, <2>6
<1>3. ASSUME NEW k \in 0..m, k < m, k \in T PROVE k + 1 \in T
  <2> DEFINE n == Len(rows)
             a == k * size
             ss == first(k + 1)
  <2>1. k \in Nat /\ k + 1 \in 0..m /\ a \in Nat /\ (k + 1) * size = a + size /\ n \in Nat
    BY <1>1, <1>3
  <2>2. ASSUME NEW p \in 1..(k + 1) PROVE Page(rows, size, p - 1) \in Seq(S)
    <3>1. p - 1 \in Nat
      OBVIOUS
    <3> QED
      BY <3>1, PageIs
  <2>3. ss \in [1..(k + 1) -> Seq(S)]
    BY <2>2
  <2>4. [p \in 1..k |-> ss[p]] = first(k) /\ ss[k + 1] = Page(rows, size, k)
    BY <2>1
  <2>5. Same(FlattenSeq(first(k)), Part(rows, 0, Shorter(a, n)))
    BY <1>3
  <2> HIDE DEF first, a, n
  <2>6. FlattenSeq(ss) = FlattenSeq([p \in 1..k |-> ss[p]]) \o ss[k + 1]
    <3> HIDE DEF ss
    <3> QED
      BY <2>1, <2>3, FlattenStep
  <2>7. Same(ss[k + 1], Part(rows, a, Shorter(a + size, n)))
    BY <2>1, <2>4, PageIs DEF a, n
  <2> HIDE DEF ss
  <2>8. FlattenSeq(ss) = Part(rows, 0, Shorter(a, n)) \o Part(rows, a, Shorter(a + size, n))
    BY <2>4, <2>5, <2>6, <2>7 DEF Same
  <2>9. CASE a <= n
    <3>1. Shorter(a, n) = a /\ Shorter(a + size, n) \in Nat
          /\ a <= Shorter(a + size, n) /\ Shorter(a + size, n) <= n
      BY <2>1, <2>9 DEF Shorter
    <3>2. Same(Part(rows, 0, a) \o Part(rows, a, Shorter(a + size, n)), Part(rows, 0, Shorter(a + size, n)))
      BY <2>1, <3>1, PartsJoin DEF n
    <3>3. Same(FlattenSeq(ss), Part(rows, 0, Shorter(a + size, n)))
      BY <2>8, <3>1, <3>2 DEF Same
    <3> QED
      BY <2>1, <3>3 DEF ss, a, n
  <2>10. CASE ~(a <= n)
    <3>1. Shorter(a, n) = n /\ Shorter(a + size, n) = n /\ 1..(n - a) = 1..0
      BY <2>1, <2>10 DEF Shorter
    <3>2. Part(rows, a, n) = << >>
      BY <3>1 DEF Part
    <3>3. Part(rows, 0, n) \in Seq(S)
      BY <2>1, PartIs DEF n
    <3>4. Part(rows, 0, n) \o << >> = Part(rows, 0, n)
      BY <3>3
    <3>5. Same(FlattenSeq(ss), Part(rows, 0, Shorter(a + size, n)))
      BY <2>8, <3>1, <3>2, <3>4 DEF Same
    <3> QED
      BY <2>1, <3>5 DEF ss, a, n
  <2> QED
    BY <2>9, <2>10
<1>4. m \in T
  <2> HIDE DEF T
  <2>1. m \in 0..m
    OBVIOUS
  <2> QED
    BY <1>2, <1>3, <2>1, UpTo
<1> QED
  BY <1>4

\* Pages enough hold all rows.
LEMMA PagesHoldAll ==
    ASSUME NEW S, NEW rows \in Seq(S), NEW size \in Nat \ {0}, NEW m \in Nat, Len(rows) <= m
    PROVE  Same(FlattenSeq([p \in 1..m |-> Page(rows, size, p - 1)]), rows)
<1>1. Len(rows) \in Nat /\ rows \in [1..Len(rows) -> S]
  BY LenProperties
<1> DEFINE k == m * size
<1>2. m <= k
  OBVIOUS
<1>3. k \in Nat
  OBVIOUS
<1> DEFINE n == Len(rows)
<1> HIDE DEF k
<1>6. n \in Nat /\ n <= k
  BY <1>1, <1>2, <1>3
<1> HIDE DEF n
<1>7. Shorter(k, n) = n
  BY <1>3, <1>6 DEF Shorter
<1>4. Shorter(k, Len(rows)) = Len(rows)
  BY <1>7 DEF n
<1>5. Part(rows, 0, Len(rows)) = rows
  BY <1>1 DEF Part
<1> QED
  BY <1>4, <1>5, PagesJoin DEF Same, k

-----------------------------------------------------------------------------
(* Listings, set by set.                                                   *)

Headers == {Header(b) : b \in Blocks}
Gotten == {GetSolutionSet(s) : s \in SolutionSets \cup {NoSet}}
Pair == Headers \X Gotten

Pairs(e) == [j \in DOMAIN e.sets |-> <<e.header, e.sets[j]>>]

\* The type of a listing's entry.
LEMMA ListedIs == Listed = [header : Headers, sets : Seq(Gotten)]
BY DEF Listed, Headers, Gotten

\* The solution sets of an entry, each with the header.
LEMMA PairsAre ==
    ASSUME NEW e \in Listed
    PROVE  Pairs(e) \in Seq(Pair)
<1>1. e.header \in Headers /\ e.sets \in Seq(Gotten)
  BY ListedIs
<1>2. Len(e.sets) \in Nat /\ DOMAIN e.sets = 1..Len(e.sets) /\ \A j \in 1..Len(e.sets) : e.sets[j] \in Gotten
  BY <1>1
<1>3. Pairs(e) \in [1..Len(e.sets) -> Pair]
  BY <1>1, <1>2 DEF Pairs, Pair
<1> QED
  BY <1>2, <1>3, SequenceIs

\* Another set of the entry is shown after the others.
LEMMA PairsGrow ==
    ASSUME NEW b \in Blocks, NEW sets \in Seq(Gotten), NEW set \in Gotten
    PROVE  Same(Pairs(Entry(b, Append(sets, set))), Append(Pairs(Entry(b, sets)), <<Header(b), set>>))
<1> DEFINE n == Len(sets)
           more == Append(sets, set)
           h == Header(b)
           u == [j \in 1..n |-> <<h, sets[j]>>]
           v == [j \in 1..(n + 1) |-> <<h, more[j]>>]
           w == Append(u, <<h, set>>)
           S == {h} \X Gotten
<1>1. n \in Nat /\ DOMAIN sets = 1..n /\ \A j \in 1..n : sets[j] \in Gotten
  BY LenProperties
<1>2. /\ more \in Seq(Gotten) /\ Len(more) = n + 1 /\ DOMAIN more = 1..(n + 1)
      /\ \A j \in 1..n : more[j] = sets[j] /\ more[n + 1] = set
  BY AppendProperties
<1>3. more[n + 1] = set
  BY AppendProperties
<1>4. Pairs(Entry(b, sets)) = u /\ Pairs(Entry(b, more)) = v
  BY <1>1, <1>2 DEF Pairs, Entry
<1> HIDE DEF more, h, n
<1>5. \A j \in 1..(n + 1) : more[j] \in Gotten
  BY <1>1, <1>2, <1>3
<1>6. u \in [1..n -> S] /\ v \in [1..(n + 1) -> S] /\ <<h, set>> \in S
  BY <1>1, <1>5
<1>7. \A j \in 1..n : u[j] = v[j]
  BY <1>1, <1>2
<1>8. v[n + 1] = <<h, set>>
  BY <1>1, <1>3
<1>9. [j \in 1..n |-> v[j]] = u
  BY <1>6, <1>7
<1> HIDE DEF u, v, S
<1>10. Append([j \in 1..n |-> v[j]], v[n + 1]) = v
  BY <1>1, <1>6, AppendNext
<1> QED
  BY <1>4, <1>8, <1>9, <1>10 DEF Same, more, h

\* Another entry of the listing is shown after the others.
LEMMA SetBySetAppend ==
    ASSUME NEW blocks \in Seq(Listed), NEW e \in Listed
    PROVE  /\ SetBySet(blocks) \in Seq(Pair)
           /\ Same(SetBySet(Append(blocks, e)), SetBySet(blocks) \o Pairs(e))
<1> DEFINE n == Len(blocks)
           more == Append(blocks, e)
           ss == [i \in 1..(n + 1) |-> Pairs(more[i])]
           tt == [i \in 1..n |-> Pairs(blocks[i])]
<1>1. n \in Nat /\ DOMAIN blocks = 1..n /\ \A i \in 1..n : blocks[i] \in Listed
  BY LenProperties
<1>2. /\ Len(more) = n + 1 /\ DOMAIN more = 1..(n + 1)
      /\ \A i \in 1..n : more[i] = blocks[i]
      /\ more[n + 1] = e
  BY AppendProperties
<1>3. SetBySet(blocks) = FlattenSeq(tt)
  BY <1>1 DEF SetBySet, Pairs
<1> HIDE DEF n, more
<1>4. SetBySet(more) = FlattenSeq(ss)
  BY <1>2 DEF SetBySet, Pairs
<1>5. \A i \in 1..(n + 1) : more[i] \in Listed
  BY <1>1, <1>2
<1>6. ss \in [1..(n + 1) -> Seq(Pair)] /\ tt \in [1..n -> Seq(Pair)]
  BY <1>1, <1>5, PairsAre
<1>7. [i \in 1..n |-> ss[i]] = tt /\ ss[n + 1] = Pairs(e)
  BY <1>1, <1>2
<1> HIDE DEF ss, tt
<1>8. FlattenSeq(ss) = FlattenSeq([i \in 1..n |-> ss[i]]) \o ss[n + 1]
  BY <1>1, <1>6, FlattenStep
<1>9. FlattenSeq(tt) \in Seq(Pair)
  BY <1>1, <1>6, FlattenRange
<1> QED
  BY <1>3, <1>4, <1>7, <1>8, <1>9 DEF Same, more

\* What a listing of the rows shows, row by row.
Show(row) == <<Header(row[1]), GetSolutionSet(row[2])>>

Shown(rows) == [k \in 1..Len(rows) |-> Show(rows[k])]

\* What a row shows.
LEMMA ShowIs ==
    ASSUME NEW row \in Row
    PROVE  /\ row[1] \in Blocks /\ Header(row[1]) \in Headers
           /\ GetSolutionSet(row[2]) \in Gotten /\ Show(row) \in Pair
BY RowIs DEF Show, Pair, Headers, Gotten

\* A row that starts a block.
LEMMA ShowFirst ==
    ASSUME NEW blocks \in Seq(Listed), NEW row \in Row, NEW e, e = Entry(row[1], <<GetSolutionSet(row[2])>>)
    PROVE  /\ e \in Listed
           /\ Same(SetBySet(Append(blocks, e)), Append(SetBySet(blocks), Show(row)))
<1> DEFINE set == GetSolutionSet(row[2])
           h == Header(row[1])
<1>1. row[1] \in Blocks /\ h \in Headers /\ set \in Gotten /\ Show(row) \in Pair
  BY ShowIs
<1>2. <<set>> \in Seq(Gotten) /\ e = [header |-> h, sets |-> <<set>>]
  BY <1>1 DEF Entry
<1>4. Show(row) = <<h, set>>
  BY DEF Show
<1> HIDE DEF set, h
<1>3. e \in Listed
  <2> DEFINE ss == <<set>>
  <2>1. ss \in Seq(Gotten) /\ e = [header |-> h, sets |-> ss]
    BY <1>2
  <2> HIDE DEF ss
  <2> QED
    BY <1>1, <2>1, ListedIs
<1>5. Pairs(e) = <<Show(row)>>
  BY <1>2, <1>4 DEF Pairs
<1>6. SetBySet(blocks) \in Seq(Pair) /\ Same(SetBySet(Append(blocks, e)), SetBySet(blocks) \o <<Show(row)>>)
  BY <1>3, <1>5, SetBySetAppend
<1>7. SetBySet(blocks) \o <<Show(row)>> = Append(SetBySet(blocks), Show(row))
  BY <1>1, <1>6, AppendIsConcat
<1> QED
  BY <1>3, <1>6, <1>7 DEF Same

\* A row of the block of the row before.
LEMMA ShowNext ==
    ASSUME NEW blocks \in Seq(Listed), NEW row \in Row, NEW sets \in Seq(Gotten),
           NEW e, e = Entry(row[1], sets),
           NEW f, f = Entry(row[1], Append(sets, GetSolutionSet(row[2])))
    PROVE  /\ e \in Listed /\ f \in Listed
           /\ Same(SetBySet(Append(blocks, f)), Append(SetBySet(Append(blocks, e)), Show(row)))
<1> DEFINE set == GetSolutionSet(row[2])
           x == SetBySet(blocks)
<1>1. row[1] \in Blocks /\ Header(row[1]) \in Headers /\ set \in Gotten /\ Show(row) \in Pair
  BY ShowIs
<1>2. Append(sets, set) \in Seq(Gotten)
  BY <1>1
<1>3. e \in Listed /\ f \in Listed
  BY <1>1, <1>2, ListedIs DEF Entry
<1>4. Same(Pairs(f), Append(Pairs(e), Show(row)))
  BY <1>1, PairsGrow DEF Show
<1>5. x \in Seq(Pair) /\ Pairs(e) \in Seq(Pair)
  BY <1>3, SetBySetAppend, PairsAre
<1>6. Same(SetBySet(Append(blocks, e)), x \o Pairs(e)) /\ Same(SetBySet(Append(blocks, f)), x \o Pairs(f))
  BY <1>3, SetBySetAppend
<1> HIDE DEF set, x
<1>7. Same(Append(x \o Pairs(e), Show(row)), x \o Append(Pairs(e), Show(row)))
  BY <1>1, <1>5, AppendMoves
<1> QED
  BY <1>3, <1>4, <1>6, <1>7 DEF Same

\* What the loop shows after n rows are the first n rows.
LEMMA ListingShows ==
    ASSUME NEW rows \in Seq(Row)
    PROVE  Same(SetBySet(CollectedFrom(rows)), Shown(rows))
<1> DEFINE len == Len(rows)
           to(n) == [k \in 1..n |-> Show(rows[k])]
<1>1. len \in Nat /\ \A k \in 1..len : rows[k] \in Row
  BY LenProperties
<1>2. PICK f : Collects(f, rows)
  BY CollectsExist
<1>3. /\ f \in [0..len -> Seq(Listed)] /\ f[0] = << >>
      /\ \A n \in 1..len :
            f[n] = IF n > 1 /\ rows[n - 1][1] = rows[n][1]
                   THEN Extended(f[n - 1], GetSolutionSet(rows[n][2]))
                   ELSE Append(f[n - 1], Entry(rows[n][1], <<GetSolutionSet(rows[n][2])>>))
  BY <1>2 DEF Collects
<1> DEFINE Ends(n) == \E blocks \in Seq(Listed), sets \in Seq(Gotten) :
                         f[n] = Append(blocks, Entry(rows[n][1], sets))
           T == {n \in 0..len : (n > 0 => Ends(n)) /\ Same(SetBySet(f[n]), to(n))}
<1>4. 0 \in T
  <2>1. SetBySet(<< >>) = << >>
    <3> DEFINE ss == [i \in DOMAIN << >> |->
                        [j \in DOMAIN << >>[i].sets |-> << << >>[i].header, << >>[i].sets[j]>>]]
    <3>1. ss \in [1..0 -> {}]
      OBVIOUS
    <3>2. SetBySet(<< >>) = FlattenSeq(ss)
      BY DEF SetBySet
    <3> HIDE DEF ss
    <3> QED
      BY <3>1, <3>2, FlattenNone
  <2>2. to(0) = << >> /\ 0 \in 0..len /\ ~(0 > 0)
    BY <1>1
  <2> HIDE DEF to, Ends
  <2>3. Same(SetBySet(f[0]), to(0))
    BY <1>3, <2>1, <2>2, Zenon DEF Same
  <2> QED
    BY <2>2, <2>3
<1>5. ASSUME NEW m \in 0..len, m < len, m \in T PROVE m + 1 \in T
  <2> DEFINE row == rows[m + 1]
             set == GetSolutionSet(row[2])
  <2>1. m \in Nat /\ m + 1 \in 0..len /\ m + 1 \in 1..len /\ m + 1 > 0 /\ (m + 1) - 1 = m /\ row \in Row
    BY <1>1, <1>5
  <2>2. f[m] \in Seq(Listed) /\ Same(SetBySet(f[m]), to(m))
    BY <1>3, <1>5
  <2>3. Append(to(m), Show(row)) = to(m + 1)
    <3> DEFINE g == to(m + 1)
               S == {Show(rows[k]) : k \in 1..(m + 1)}
    <3>1. g \in [1..(m + 1) -> S] /\ g[m + 1] = Show(row)
      BY <2>1
    <3>2. [k \in 1..m |-> g[k]] = to(m)
      BY <2>1
    <3> HIDE DEF g, S
    <3>3. Append([k \in 1..m |-> g[k]], g[m + 1]) = g
      BY <2>1, <3>1, AppendNext
    <3> QED
      BY <3>1, <3>2, <3>3 DEF g
  <2>4. set \in Gotten
    BY <2>1, ShowIs
  <2> HIDE DEF to
  <2>5. CASE m + 1 > 1 /\ rows[m][1] = row[1]
    <3>1. PICK blocks \in Seq(Listed), sets \in Seq(Gotten) : f[m] = Append(blocks, Entry(rows[m][1], sets))
      BY <1>5, <2>1, <2>5
    <3> DEFINE e == Entry(row[1], sets)
               h == Entry(row[1], Append(sets, set))
    <3>2. f[m] = Append(blocks, e)
      BY <2>5, <3>1
    <3>3. f[m + 1] = Extended(f[m], set)
      BY <1>3, <2>1, <2>5
    <3>4. /\ e \in Listed /\ h \in Listed
          /\ Same(SetBySet(Append(blocks, h)), Append(SetBySet(Append(blocks, e)), Show(row)))
      BY <2>1, ShowNext
    <3>5. Same(Extended(Append(blocks, e), set), Append(blocks, h))
      BY <3>4, ExtendLast
    <3>6. f[m + 1] = Append(blocks, h)
      BY <3>2, <3>3, <3>5 DEF Same
    <3>7. Append(sets, set) \in Seq(Gotten)
      BY <2>4
    <3>8. Ends(m + 1)
      BY <3>6, <3>7
    <3> HIDE DEF e, h, Ends
    <3>9. Same(SetBySet(f[m + 1]), to(m + 1))
      BY <2>2, <2>3, <3>2, <3>4, <3>6 DEF Same
    <3> QED
      BY <2>1, <3>8, <3>9
  <2>6. CASE ~(m + 1 > 1 /\ rows[m][1] = row[1])
    <3> DEFINE e == Entry(row[1], <<set>>)
    <3>1. f[m + 1] = Append(f[m], e)
      BY <1>3, <2>1, <2>6
    <3>2. Same(SetBySet(Append(f[m], e)), Append(SetBySet(f[m]), Show(row)))
      BY <2>1, <2>2, ShowFirst
    <3>3. <<set>> \in Seq(Gotten)
      BY <2>4
    <3>4. Ends(m + 1)
      BY <2>2, <3>1, <3>3
    <3> HIDE DEF e, Ends
    <3>5. Same(SetBySet(f[m + 1]), to(m + 1))
      BY <2>2, <2>3, <3>1, <3>2 DEF Same
    <3> QED
      BY <2>1, <3>4, <3>5
  <2> QED
    BY <2>5, <2>6
<1>6. len \in T
  <2> HIDE DEF T
  <2>1. len \in 0..len
    BY <1>1
  <2> QED
    BY <1>1, <1>4, <1>5, <2>1, UpTo
<1>7. CollectedFrom(rows) = f[len]
  BY <1>2, CollectedIs
<1>8. Same(SetBySet(f[len]), to(len))
  BY <1>6
<1> HIDE DEF T
<1> QED
  BY <1>7, <1>8 DEF Same, Shown

\* Rows show as many solution sets as they are.
LEMMA ShownIs ==
    ASSUME NEW rows \in Seq(Row)
    PROVE  Shown(rows) \in Seq(Pair) /\ Len(Shown(rows)) = Len(rows)
<1>1. Len(rows) \in Nat /\ \A k \in 1..Len(rows) : rows[k] \in Row
  BY LenProperties
<1>2. Shown(rows) \in [1..Len(rows) -> Pair]
  BY <1>1, ShowIs DEF Shown
<1> QED
  BY <1>1, <1>2, SequenceIs

\* A page shows its part of what all rows show.
LEMMA PageShows ==
    ASSUME NEW rows \in Seq(Row), NEW size \in Nat \ {0}, NEW page \in Nat
    PROVE  Same(Shown(Page(rows, size, page)), Page(Shown(rows), size, page))
<1> DEFINE a == page * size
           n == Len(rows)
           c == Shorter(a + size, n)
           all == Shown(rows)
<1>1. n \in Nat /\ all \in Seq(Pair) /\ Len(all) = n /\ DOMAIN all = 1..n
  <2>1. all \in Seq(Pair) /\ Len(all) = n
    BY ShownIs
  <2> QED
    BY <2>1, LenProperties
<1>2. /\ a \in Nat /\ Page(rows, size, page) \in Seq(Row)
      /\ Same(Page(rows, size, page), Part(rows, a, c))
  BY PageIs
<1>3. Same(Page(all, size, page), Part(all, a, c))
  BY <1>1, PageIs
<1>4. c \in Int /\ c <= n
  BY <1>1, <1>2 DEF Shorter
<1>5. \A k \in 1..n : all[k] = Show(rows[k])
  BY DEF Shown
<1> HIDE DEF a, c, all
<1> DEFINE part == Part(rows, a, c)
<1>6. part \in Seq(Row) /\ DOMAIN part = 1..(c - a) /\ \A i \in 1..(c - a) : part[i] = rows[a + i]
  BY <1>2 DEF Same, Part
<1>7. 1..Len(part) = 1..(c - a)
  BY <1>6
<1>8. \A i \in 1..(c - a) : a + i \in 1..n
  BY <1>1, <1>2, <1>4
<1> HIDE DEF part
<1>9. Shown(part) = Part(all, a, c)
  BY <1>5, <1>6, <1>7, <1>8 DEF Shown, Part
<1> QED
  BY <1>2, <1>3, <1>9 DEF Same, part, all

-----------------------------------------------------------------------------
(* There are no more rows than insertions.                                 *)

\* The mappings of a block to its sets.
Mappings(b) == {<<b, Sets[b][i], i>> : i \in DOMAIN Sets[b]}

Counted == IsFiniteSet(blockSet) /\ Cardinality(blockSet) <= inserts

\* A block has as many mappings as solution sets.
LEMMA MappingsAre ==
    ASSUME NEW b \in Blocks
    PROVE  IsFiniteSet(Mappings(b)) /\ Cardinality(Mappings(b)) = Len(Sets[b])
<1> DEFINE n == Len(Sets[b])
           f == [i \in 1..n |-> <<b, Sets[b][i], i>>]
<1>1. n \in Nat /\ DOMAIN Sets[b] = 1..n
  BY SetsAre
<1>2. f \in [1..n -> Mappings(b)] /\ \A x \in Mappings(b) : \E i \in 1..n : f[i] = x
  BY <1>1 DEF Mappings
<1>3. \A i, j \in 1..n : f[i] = f[j] => i = j
  OBVIOUS
<1> HIDE DEF f, n
<1>4. f \in Injection(1..n, Mappings(b)) /\ f \in Surjection(1..n, Mappings(b))
  BY <1>2, <1>3 DEF Injection, Surjection, IsInjective
<1>5. IsFiniteSet(1..n) /\ Cardinality(1..n) = n
  BY <1>1, FS_Interval
<1> QED
  BY <1>4, <1>5, FS_Surjection DEF n

\* Nothing is mapped at first.
LEMMA InitCounts == Init => Counted
BY FS_EmptySet DEF Init, Counted

\* insert_block adds at most as many mappings as it counts insertions.
LEMMA InsertCounts ==
    ASSUME StoreInv, Counted, NEW b \in Blocks, InsertBlockRows(b)
    PROVE  Counted'
<1>1. blockSet' = blockSet \cup Mappings(b) /\ inserts' = inserts + Len(Sets[b])
  BY DEF InsertBlockRows, Mappings
<1>2. IsFiniteSet(Mappings(b)) /\ Cardinality(Mappings(b)) = Len(Sets[b])
  BY MappingsAre
<1>3. /\ IsFiniteSet(blockSet \cup Mappings(b))
      /\ Cardinality(blockSet \cup Mappings(b))
            = Cardinality(blockSet) + Cardinality(Mappings(b)) - Cardinality(blockSet \cap Mappings(b))
  BY <1>2, FS_Union DEF Counted
<1>4. IsFiniteSet(blockSet \cap Mappings(b))
  BY FS_Intersection DEF Counted
<1>5. /\ Cardinality(blockSet) \in Nat /\ Cardinality(Mappings(b)) \in Nat
      /\ Cardinality(blockSet \cap Mappings(b)) \in Nat
  BY <1>2, <1>4, FS_CardinalityType DEF Counted
<1>6. inserts \in Nat /\ Cardinality(blockSet) <= inserts
  BY DEF StoreInv, RowsInv, Counted
<1>7. Cardinality(blockSet \cup Mappings(b)) <= inserts + Len(Sets[b])
  BY <1>2, <1>3, <1>5, <1>6
<1> QED
  BY <1>1, <1>3, <1>7 DEF Counted

\* No other transaction adds one.
LEMMA StepCounts == StoreInv /\ Counted /\ [Next]_vars => Counted'
<1> SUFFICES ASSUME StoreInv, Counted, [Next]_vars PROVE Counted'
  OBVIOUS
<1>1. ASSUME UNCHANGED setVars PROVE Counted'
  BY <1>1 DEF setVars, Counted
<1>2. ASSUME NEW b \in Blocks, InsertBlock(b) \/ InsertAndFinalize(b) PROVE Counted'
  BY <1>2, InsertCounts DEF InsertBlock, InsertAndFinalize
<1>3. ASSUME NEW b \in Blocks,
             \/ FinalizeBlock(b) \/ UpdateValidationProgress(b)
             \/ \E s \in Range(Sets[b]) : InsertFailedBlock(b, s)
      PROVE  Counted'
  BY <1>1, <1>3 DEF FinalizeBlock, UpdateValidationProgress, InsertFailedBlock
<1>4. ASSUME NEW w \in StateWrites, UpdateState(w[1], w[2], w[3]) \/ DeleteState(w[1], w[2])
      PROVE  Counted'
  BY <1>1, <1>4 DEF UpdateState, DeleteState
<1>5. CASE UNCHANGED vars
  BY <1>1, <1>5 DEF vars
<1> QED
  BY <1>2, <1>3, <1>4, <1>5 DEF Next

\* At most one mapping is stored for each insertion of a solution set, so that the
\* listing of all blocks is no longer than the insertions.
LEMMA RowsCounted == Spec => []Counted
<1>1. Init => Counted
  BY InitCounts
<1>2. StoreInv /\ Counted /\ [Next]_vars => Counted'
  BY StepCounts
<1> QED
  BY <1>1, <1>2, Stored, PTL DEF Spec

MappingsTo(seq, m) == UNION {Mappings(seq[i]) : i \in 1..m}

\* The rows of blocks are as many as their mappings.
LEMMA RowsAreMappings ==
    ASSUME NEW n \in Nat, NEW seq \in [1..n -> Blocks], \A i, j \in 1..n : seq[i] = seq[j] => i = j
    PROVE  IsFiniteSet(MappingsTo(seq, n)) /\ Len(RowsTo(seq, n)) = Cardinality(MappingsTo(seq, n))
<1> DEFINE Done(m) == /\ RowsTo(seq, m) \in Seq(Row) /\ IsFiniteSet(MappingsTo(seq, m))
                      /\ Len(RowsTo(seq, m)) = Cardinality(MappingsTo(seq, m))
           T == {m \in 0..n : Done(m)}
<1>1. 0 \in T
  <2>1. [i \in 1..0 |-> BlockRows(seq[i])] \in [1..0 -> {}]
    OBVIOUS
  <2>2. RowsTo(seq, 0) = << >>
    BY <2>1, FlattenNone DEF RowsTo
  <2>3. MappingsTo(seq, 0) = {}
    BY DEF MappingsTo
  <2>4. IsFiniteSet({}) /\ Cardinality({}) = 0 /\ << >> \in Seq(Row) /\ Len(<< >>) = 0
    BY FS_EmptySet
  <2>5. Done(0)
    BY <2>2, <2>3, <2>4, Zenon
  <2>6. 0 \in 0..n
    OBVIOUS
  <2> HIDE DEF Done
  <2> QED
    BY <2>5, <2>6
<1>2. ASSUME NEW m \in 0..n, m < n, m \in T PROVE m + 1 \in T
  <2> DEFINE b == seq[m + 1]
             gs == [i \in 1..(m + 1) |-> BlockRows(seq[i])]
             M == MappingsTo(seq, m)
  <2>1. /\ m \in Nat /\ m + 1 \in 0..n /\ m + 1 \in 1..n /\ b \in Blocks
        /\ \A i \in 1..m : i \in 1..n /\ i # m + 1
    BY <1>2
  <2>2. gs \in [1..(m + 1) -> Seq(Row)]
    <3>1. ASSUME NEW i \in 1..(m + 1) PROVE BlockRows(seq[i]) \in Seq(Row)
      <4>1. seq[i] \in Blocks
        BY <1>2
      <4> QED
        BY <4>1, BlockRowsAre
    <3> QED
      BY <3>1
  <2>3. [i \in 1..m |-> gs[i]] = [i \in 1..m |-> BlockRows(seq[i])] /\ gs[m + 1] = BlockRows(b)
    BY <2>1
  <2>4. RowsTo(seq, m + 1) = FlattenSeq(gs) /\ RowsTo(seq, m) = FlattenSeq([i \in 1..m |-> gs[i]])
    BY <2>3 DEF RowsTo
  <2> HIDE DEF gs
  <2>5. FlattenSeq(gs) = FlattenSeq([i \in 1..m |-> gs[i]]) \o gs[m + 1]
    BY <2>1, <2>2, FlattenStep
  <2>6. /\ RowsTo(seq, m) \in Seq(Row) /\ IsFiniteSet(M) /\ Len(RowsTo(seq, m)) = Cardinality(M)
    BY <1>2
  <2>7. BlockRows(b) \in Seq(Row) /\ Len(BlockRows(b)) = Len(Sets[b])
    BY <2>1, BlockRowsAre
  <2>8. /\ RowsTo(seq, m + 1) \in Seq(Row)
        /\ Len(RowsTo(seq, m + 1)) = Len(RowsTo(seq, m)) + Len(Sets[b])
    <3> DEFINE u == RowsTo(seq, m)
               v == BlockRows(b)
    <3>1. RowsTo(seq, m + 1) = u \o v
      BY <2>3, <2>4, <2>5
    <3>2. u \in Seq(Row) /\ v \in Seq(Row) /\ Len(v) = Len(Sets[b])
      BY <2>6, <2>7
    <3>4. u \in Seq(Row) /\ v \in Seq(Row)
      BY <3>2
    <3> HIDE DEF u, v
    <3>3. u \o v \in Seq(Row) /\ Len(u \o v) = Len(u) + Len(v)
      BY <3>4, ConcatProperties
    <3> QED
      BY <3>1, <3>2, <3>3 DEF u
  <2>9. MappingsTo(seq, m + 1) = M \cup Mappings(b)
    <3>1. 1..(m + 1) = (1..m) \cup {m + 1}
      BY <2>1
    <3> QED
      BY <3>1 DEF MappingsTo
  <2>10. M \cap Mappings(b) = {}
    <3>1. ASSUME NEW i \in 1..m, NEW x \in Mappings(seq[i]), x \in Mappings(b) PROVE FALSE
      <4>1. x[1] = seq[i] /\ x[1] = b
        BY <3>1 DEF Mappings
      <4>2. seq[i] = seq[m + 1]
        BY <4>1
      <4> QED
        BY <2>1, <4>2
    <3> QED
      BY <3>1 DEF MappingsTo
  <2>11. IsFiniteSet(Mappings(b)) /\ Cardinality(Mappings(b)) = Len(Sets[b])
    BY <2>1, MappingsAre
  <2> HIDE DEF M, b
  <2>12. /\ IsFiniteSet(M \cup Mappings(b))
         /\ Cardinality(M \cup Mappings(b))
              = Cardinality(M) + Cardinality(Mappings(b)) - Cardinality(M \cap Mappings(b))
    BY <2>6, <2>11, FS_Union
  <2>13. Cardinality(M \cap Mappings(b)) = 0 /\ Cardinality(M) \in Nat /\ Cardinality(Mappings(b)) \in Nat
    BY <2>6, <2>10, <2>11, FS_EmptySet, FS_CardinalityType
  <2>14. Cardinality(M \cup Mappings(b)) = Len(RowsTo(seq, m)) + Len(Sets[b])
    BY <2>6, <2>11, <2>12, <2>13
  <2>15. Done(m + 1)
    BY <2>8, <2>9, <2>12, <2>14
  <2> HIDE DEF Done
  <2> QED
    BY <2>1, <2>15
<1>3. n \in T
  <2> HIDE DEF T
  <2>1. n \in 0..n
    OBVIOUS
  <2> QED
    BY <1>1, <1>2, <2>1, UpTo
<1> QED
  BY <1>3

\* A listing is no longer than MaxInserts.
LEMMA RowsFit ==
    ASSUME StoreInv, Counted, NEW bs \in SUBSET block, \A b \in bs : Sets[b] # << >>
    PROVE  Len(Ordered(bs)) <= MaxInserts
<1> DEFINE n == Cardinality(bs)
           seq == InOrder(bs, BlockOrder)
<1>1. n \in Nat /\ seq \in [1..n -> bs] /\ \A i, j \in 1..n : seq[i] = seq[j] => i = j
  BY StoredInOrder
<1>2. Ordered(bs) = RowsTo(seq, n)
  BY OrderedFull
<1>3. bs \in SUBSET Blocks
  BY DEF StoreInv, RowsInv
<1> HIDE DEF n, seq
<1>4. seq \in [1..n -> Blocks]
  BY <1>1, <1>3
<1>5. IsFiniteSet(MappingsTo(seq, n)) /\ Len(RowsTo(seq, n)) = Cardinality(MappingsTo(seq, n))
  BY <1>1, <1>4, RowsAreMappings
<1>6. MappingsTo(seq, n) \in SUBSET blockSet
  <2>1. ASSUME NEW i \in 1..n, NEW x \in Mappings(seq[i]) PROVE x \in blockSet
    <3>1. seq[i] \in block
      BY <1>1
    <3>2. PICK j \in DOMAIN Sets[seq[i]] : x = <<seq[i], Sets[seq[i]][j], j>>
      BY DEF Mappings
    <3> QED
      BY <3>1, <3>2, BlockSetIs
  <2> QED
    BY <2>1 DEF MappingsTo
<1>7. Cardinality(MappingsTo(seq, n)) <= Cardinality(blockSet)
  BY <1>6, FS_Subset DEF Counted
<1>8. /\ Cardinality(MappingsTo(seq, n)) \in Nat /\ Cardinality(blockSet) \in Nat
      /\ inserts \in 0..MaxInserts /\ MaxInserts \in Nat /\ Cardinality(blockSet) <= inserts
  BY <1>5, FS_CardinalityType, StoreAssumption DEF StoreAssumption, StoreInv, RowsInv, Counted
<1> QED
  BY <1>2, <1>5, <1>7, <1>8

\* A page is listed without an error if every block has solution sets.
LEMMA PageListed ==
    ASSUME NEW rows \in Seq(Row), \A j \in DOMAIN rows : rows[j][2] # NoSet,
           NEW size \in Nat \ {0}, NEW page \in Nat
    PROVE  Same(SetBySet(Collect(Page(rows, size, page))), Page(Shown(rows), size, page))
<1> DEFINE part == Page(rows, size, page)
           a == page * size
           c == Shorter(a + size, Len(rows))
<1>1. a \in Nat /\ part \in Seq(Row) /\ Same(part, Part(rows, a, c))
  BY PageIs
<1>2. Len(rows) \in Nat /\ DOMAIN rows = 1..Len(rows)
  BY LenProperties
<1>3. c \in Int /\ c <= Len(rows)
  BY <1>1, <1>2 DEF Shorter
<1>4. Same(Shown(part), Page(Shown(rows), size, page))
  BY PageShows
<1> HIDE DEF part, a, c
<1>5. ASSUME NEW j \in DOMAIN part PROVE part[j][2] # NoSet
  <2>1. part = [i \in 1..(c - a) |-> rows[a + i]]
    BY <1>1 DEF Same, Part
  <2>2. j \in 1..(c - a) /\ part[j] = rows[a + j]
    BY <2>1
  <2>3. a + j \in DOMAIN rows
    BY <1>1, <1>2, <1>3, <2>2
  <2> QED
    BY <2>2, <2>3
<1>6. Collect(part) = CollectedFrom(part)
  BY <1>5, CollectIs
<1>7. Same(SetBySet(CollectedFrom(part)), Shown(part))
  BY <1>1, ListingShows
<1> QED
  BY <1>4, <1>6, <1>7 DEF Same, part

\* The pages of the listing of some blocks are the listing.
LEMMA PagesList ==
    ASSUME StoreInv, Counted, NEW bs \in SUBSET block, \A b \in bs : Sets[b] # << >>,
           NEW size \in Nat \ {0}
    PROVE  FlattenSeq([p \in 1..MaxInserts |-> SetBySet(Collect(Page(Ordered(bs), size, p - 1)))])
              = SetBySet(EachOf(bs))
<1> DEFINE rows == Ordered(bs)
           all == Shown(rows)
<1>1. /\ rows \in Seq(Row) /\ \A j \in DOMAIN rows : rows[j][2] # NoSet
  BY OrderedRows, OrderedFull
<1>2. Len(rows) <= MaxInserts /\ MaxInserts \in Nat
  BY RowsFit, StoreAssumption DEF StoreAssumption
<1>3. Collect(rows) = EachOf(bs)
  BY ListsBlocks
<1> HIDE DEF rows
<1>4. all \in Seq(Pair) /\ Len(all) = Len(rows)
  BY <1>1, ShownIs
<1>5. Same(SetBySet(EachOf(bs)), all)
  <2>1. Collect(rows) = CollectedFrom(rows)
    BY <1>1, CollectIs
  <2>2. Same(SetBySet(CollectedFrom(rows)), Shown(rows))
    BY <1>1, ListingShows
  <2> QED
    BY <1>3, <2>1, <2>2
<1>6. ASSUME NEW p \in 1..MaxInserts
      PROVE  SetBySet(Collect(Page(rows, size, p - 1))) = Page(all, size, p - 1)
  <2>1. p - 1 \in Nat
    BY <1>2
  <2>2. Same(SetBySet(Collect(Page(rows, size, p - 1))), Page(Shown(rows), size, p - 1))
    BY <1>1, <2>1, PageListed
  <2> QED
    BY <2>2 DEF Same
<1> HIDE DEF all
<1>7. [p \in 1..MaxInserts |-> SetBySet(Collect(Page(rows, size, p - 1)))]
         = [p \in 1..MaxInserts |-> Page(all, size, p - 1)]
  BY <1>6
<1>8. Same(FlattenSeq([p \in 1..MaxInserts |-> Page(all, size, p - 1)]), all)
  BY <1>2, <1>4, PagesHoldAll
<1> QED
  BY <1>5, <1>7, <1>8 DEF Same, rows

\* Pages of list_blocks_by_time, put one after the other, hold every solution set
\* of every block of the range once and in order, whatever the page size; a block
\* above all others only adds rows at the end.
THEOREM PagesMakeTheListing == Spec => []PagesAddUp
<1>1. StoreInv /\ Counted => PagesAddUp
  <2> SUFFICES ASSUME StoreInv, Counted, NEW t \in TimeRanges, NEW bs, bs = WithinSeconds(t[1], t[2])
               PROVE  /\ (\A b \in bs : Sets[b] # << >>) =>
                            \A size \in PageSizes :
                               FlattenSeq([p \in 1..MaxInserts |->
                                              SetBySet(ListBlocksByTime(t[1], t[2], size, p - 1))])
                                  = SetBySet(EachOf(bs))
                      /\ \A b \in bs :
                            (\A c \in bs \ {b} : Number[c] < Number[b]) =>
                                IsPrefix(Ordered(bs \ {b}), Ordered(bs))
    BY DEF PagesAddUp
  <2>1. bs \in SUBSET block
    BY DEF WithinSeconds
  <2>2. {b \in block : InTime(b, t[1], t[2])} = bs
    <3>1. ASSUME NEW b \in block PROVE InTime(b, t[1], t[2]) <=> b \in bs
      <4>1. Time[b][1] \in Int /\ Time[b][2] \in Int
        BY StoreAssumption DEF StoreAssumption, StoreInv, RowsInv
      <4>2. t[1][1] \in Int /\ t[1][2] \in Int /\ t[2][1] \in Int /\ t[2][2] \in Int
        BY StoreAssumption DEF StoreAssumption
      <4> QED
        BY <4>1, <4>2 DEF InTime, WithinSeconds
    <3> QED
      BY <2>1, <3>1
  <2>3. ASSUME \A b \in bs : Sets[b] # << >>, NEW size \in PageSizes
        PROVE  FlattenSeq([p \in 1..MaxInserts |-> SetBySet(ListBlocksByTime(t[1], t[2], size, p - 1))])
                  = SetBySet(EachOf(bs))
    <3>1. size \in Nat \ {0}
      BY StoreAssumption DEF StoreAssumption
    <3>2. \A p : ListBlocksByTime(t[1], t[2], size, p) = Collect(Page(Ordered(bs), size, p))
      BY <2>2 DEF ListBlocksByTime
    <3> QED
      BY <2>1, <2>3, <3>1, <3>2, PagesList
  <2>4. ASSUME NEW b \in bs, \A c \in bs \ {b} : Number[c] < Number[b]
        PROVE  IsPrefix(Ordered(bs \ {b}), Ordered(bs))
    BY <2>1, <2>4, RowsBehind
  <2> QED
    BY <2>3, <2>4
<1> QED
  BY <1>1, Stored, RowsCounted, PTL
=============================================================================
