-------------------------- MODULE StateQueryProofs --------------------------
(***************************************************************************)
(* Theorems about the queries of module StateQuery, for any solution sets, *)
(* keys and lengths of the chain: that finalizing a block changes no read  *)
(* below it, and that the backward searches of the queries, the cascade of *)
(* a dry run and the key ranges find what a replay of the chain leaves.    *)
(***************************************************************************)
EXTENDS StateQuery, FiniteSetTheorems, WellFoundedInduction, TLAPS

-----------------------------------------------------------------------------
(* The last row of a search.                                               *)

\* A bounded set of numbers has a largest one.
LEMMA LargestExists ==
    ASSUME NEW N \in Nat, NEW T \in SUBSET (0..N), T # {}
    PROVE  \E m \in T : \A t \in T : t <= m
<1> DEFINE U == {N - t : t \in T}
<1>1. U \subseteq Nat /\ U # {}
  <2>1. \A t \in T : N - t \in Nat
    OBVIOUS
  <2>2. PICK t \in T : TRUE
    OBVIOUS
  <2>3. N - t \in U
    BY <2>2
  <2> QED
    BY <2>1, <2>3
<1>2. PICK u \in U : \A v \in U : ~(<<v, u>> \in OpToRel(<, Nat))
  BY <1>1, WFMin, NatLessThanWellFounded, Zenon
<1>3. \A v \in U : ~(v < u)
  <2> SUFFICES ASSUME NEW v \in U PROVE ~(v < u)
    OBVIOUS
  <2>1. u \in Nat /\ v \in Nat
    BY <1>1
  <2>2. ~(<<v, u>> \in OpToRel(<, Nat))
    BY <1>2
  <2> QED
    BY <2>1, <2>2 DEF OpToRel
<1>4. PICK m \in T : u = N - m
  OBVIOUS
<1>5. \A t \in T : t <= m
  <2> SUFFICES ASSUME NEW t \in T PROVE t <= m
    OBVIOUS
  <2>1. N - t \in U
    OBVIOUS
  <2>2. ~(N - t < N - m)
    BY <1>3, <1>4, <2>1
  <2>3. t \in Int /\ m \in Int /\ N \in Int
    OBVIOUS
  <2> QED
    BY <2>2, <2>3
<1> QED
  BY <1>5

\* The rows below a bound have a last one, in the order of the queries.
LEMMA LastExists ==
    ASSUME NEW N \in Nat, NEW rows \in SUBSET ((0..N) \X (1..MaxSets)), rows # {}
    PROVE  \E p \in rows : \A q \in rows : q = p \/ Before(q, p)
<1>1. MaxSets \in Nat
  BY StateQueryAssumption DEF StateQueryAssumption
<1> DEFINE numbers == {p[1] : p \in rows}
<1>2. numbers \in SUBSET (0..N) /\ numbers # {}
  OBVIOUS
<1>3. PICK n \in numbers : \A m \in numbers : m <= n
  BY <1>2, LargestExists
<1> DEFINE sets == {p[2] : p \in {q \in rows : q[1] = n}}
<1>4. sets \in SUBSET (0..MaxSets) /\ sets # {}
  BY <1>1
<1>5. PICK i \in sets : \A j \in sets : j <= i
  BY <1>1, <1>4, LargestExists
<1>6. PICK p \in rows : p[1] = n /\ p[2] = i
  OBVIOUS
<1>7. ASSUME NEW q \in rows PROVE q = p \/ Before(q, p)
  <2>1. q[1] \in Nat /\ q[2] \in Nat /\ p[1] \in Nat /\ p[2] \in Nat
        /\ q = <<q[1], q[2]>> /\ p = <<p[1], p[2]>>
    BY <1>1
  <2>2. q[1] <= p[1]
    BY <1>3, <1>6
  <2>3. q[1] = p[1] => q[2] <= p[2]
    BY <1>5, <1>6
  <2> QED
    BY <2>1, <2>2, <2>3 DEF Before
<1> QED
  BY <1>7

\* Equal rows of two databases that agree about them have one last value.
LEMMA LastValueDepends ==
    ASSUME NEW d, NEW e, NEW k, NEW N \in Nat,
           NEW rows \in SUBSET ((0..N) \X (1..MaxSets)),
           \A p \in rows : d[p[1]] = e[p[1]]
    PROVE  LastValue(d, k, rows) = LastValue(e, k, rows)
<1>1. CASE rows = {}
  BY <1>1 DEF LastValue
<1>2. CASE rows # {}
  <2> DEFINE last == CHOOSE p \in rows : \A q \in rows : q = p \/ Before(q, p)
  <2>1. last \in rows
    BY <1>2, LastExists
  <2>2. d[last[1]][last[2]][k] = e[last[1]][last[2]][k]
    BY <2>1
  <2> QED
    BY <1>2, <2>2 DEF LastValue
<1> QED
  BY <1>1, <1>2

-----------------------------------------------------------------------------
\* The finalized blocks have the numbers from 0 on.
IsChain(db) == \E h \in 0..MaxBlocks : db \in [0..(h - 1) -> Blocks]

\* The number after the latest one.
LEMMA HeightIs ==
    ASSUME NEW h \in 0..MaxBlocks, DOMAIN chain = 0..(h - 1)
    PROVE  Height = h
<1>1. MaxBlocks \in Nat
  BY StateQueryAssumption DEF StateQueryAssumption
<1> QED
  BY <1>1, FS_Interval DEF Height

\* FinalizeBlock appends a block.
LEMMA FinalizeAppends ==
    ASSUME IsChain(chain), FinalizeBlock
    PROVE  /\ IsChain(chain')
           /\ DOMAIN chain \subseteq DOMAIN chain'
           /\ \A n \in DOMAIN chain : chain'[n] = chain[n]
           /\ \A n \in DOMAIN chain' \ DOMAIN chain : \A m \in DOMAIN chain : m < n
<1>1. PICK h \in 0..MaxBlocks : chain \in [0..(h - 1) -> Blocks]
  BY DEF IsChain
<1>2. MaxBlocks \in Nat /\ h \in Nat /\ Height = h
  BY <1>1, HeightIs, StateQueryAssumption DEF StateQueryAssumption
<1>3. h < MaxBlocks
  BY <1>2 DEF FinalizeBlock
<1>4. PICK b \in Blocks : chain' = [n \in 0..h |-> IF n = h THEN b ELSE chain[n]]
  BY <1>2 DEF FinalizeBlock
<1>5. chain' \in [0..h -> Blocks]
  BY <1>1, <1>2, <1>4
<1>6. h + 1 \in 0..MaxBlocks /\ (h + 1) - 1 = h
  BY <1>2, <1>3
<1>7. IsChain(chain')
  BY <1>5, <1>6 DEF IsChain
<1> QED
  BY <1>1, <1>2, <1>4, <1>7

\* Rows up to a block of the chain are the same in a chain that has grown.
LEMMA RowsStay ==
    ASSUME IsChain(chain), FinalizeBlock, NEW k
    PROVE  /\ Rows(chain, k) \subseteq Rows(chain', k)
           /\ \A p \in Rows(chain', k), n \in DOMAIN chain :
                 p[1] <= n => p \in Rows(chain, k) /\ chain'[p[1]] = chain[p[1]]
<1>1. /\ DOMAIN chain \subseteq DOMAIN chain'
      /\ \A n \in DOMAIN chain : chain'[n] = chain[n]
      /\ \A n \in DOMAIN chain' \ DOMAIN chain : \A m \in DOMAIN chain : m < n
      /\ IsChain(chain')
  BY FinalizeAppends
<1>2. Rows(chain, k) \subseteq Rows(chain', k)
  BY <1>1 DEF Rows
<1>3. DOMAIN chain \subseteq Nat /\ DOMAIN chain' \subseteq Nat
  BY <1>1 DEF IsChain
<1>4. ASSUME NEW p \in Rows(chain', k), NEW n \in DOMAIN chain, p[1] <= n
      PROVE  p \in Rows(chain, k) /\ chain'[p[1]] = chain[p[1]]
  <2>1. p[1] \in DOMAIN chain'
    BY DEF Rows
  <2>2. p[1] \in DOMAIN chain
    BY <1>1, <1>3, <1>4, <2>1
  <2> QED
    BY <1>1, <2>2 DEF Rows
<1> QED
  BY <1>2, <1>4

\* A search that stops at a block of the chain, or before, finds the same in a
\* chain that has grown.
LEMMA SearchIsStable ==
    ASSUME IsChain(chain), FinalizeBlock, NEW k, NEW n \in DOMAIN chain,
           NEW before \in SUBSET Rows(chain, k), NEW after \in SUBSET Rows(chain', k),
           \A p \in before \cup after : p[1] <= n,
           before = Rows(chain, k) \cap after
    PROVE  LastValue(chain', k, after) = LastValue(chain, k, before)
<1>1. after = before
  BY RowsStay
<1>2. n \in Nat /\ DOMAIN chain \subseteq Nat
  BY DEF IsChain
<1>3. before \in SUBSET ((0..n) \X (1..MaxSets))
  <2> SUFFICES ASSUME NEW p \in before PROVE p \in (0..n) \X (1..MaxSets)
    OBVIOUS
  <2>1. p \in (DOMAIN chain) \X (1..MaxSets) /\ p[1] <= n
    BY DEF Rows
  <2> QED
    BY <1>2, <2>1
<1>4. \A p \in before : chain'[p[1]] = chain[p[1]]
  BY <1>1, RowsStay
<1>5. LastValue(chain', k, before) = LastValue(chain, k, before)
  BY <1>2, <1>3, <1>4, LastValueDepends
<1> QED
  BY <1>1, <1>5

\* So do the two searches of a validation.
LEMMA QueriesAreStable ==
    ASSUME IsChain(chain), FinalizeBlock, NEW k, NEW n \in DOMAIN chain, NEW i \in Nat
    PROVE  /\ InclusiveSolutionSet(chain', k, n, i) = InclusiveSolutionSet(chain, k, n, i)
           /\ ExclusiveBlock(chain', k, n) = ExclusiveBlock(chain, k, n)
<1>1. n \in Nat /\ DOMAIN chain \subseteq Nat /\ DOMAIN chain' \subseteq Nat
  BY FinalizeAppends DEF IsChain
<1>2. Rows(chain, k) \subseteq Rows(chain', k)
  BY RowsStay
<1>3. \A p \in Rows(chain', k) : p[1] \in Nat
  BY <1>1 DEF Rows
<1>4. InclusiveSolutionSet(chain', k, n, i) = InclusiveSolutionSet(chain, k, n, i)
  <2> DEFINE below(rows) == {p \in rows : ~Before(<<n, i>>, p)}
  <2>1. \A p \in below(Rows(chain, k)) \cup below(Rows(chain', k)) : p[1] <= n
    BY <1>1, <1>2, <1>3 DEF Before
  <2>2. below(Rows(chain, k)) = Rows(chain, k) \cap below(Rows(chain', k))
    BY <1>2
  <2>3. LastValue(chain', k, below(Rows(chain', k))) = LastValue(chain, k, below(Rows(chain, k)))
    BY <2>1, <2>2, SearchIsStable
  <2> QED
    BY <2>3 DEF InclusiveSolutionSet
<1>5. ExclusiveBlock(chain', k, n) = ExclusiveBlock(chain, k, n)
  <2> DEFINE below(rows) == {p \in rows : p[1] <= n - 1}
  <2>1. \A p \in below(Rows(chain, k)) \cup below(Rows(chain', k)) : p[1] <= n
    BY <1>1, <1>2, <1>3
  <2>2. below(Rows(chain, k)) = Rows(chain, k) \cap below(Rows(chain', k))
    BY <1>2
  <2>3. LastValue(chain', k, below(Rows(chain', k))) = LastValue(chain, k, below(Rows(chain, k)))
    BY <2>1, <2>2, SearchIsStable
  <2> QED
    BY <2>3 DEF ExclusiveBlock, InclusiveBlock
<1> QED
  BY <1>4, <1>5

\* And with them every read.
LEMMA ReadsAreStable ==
    ASSUME IsChain(chain), FinalizeBlock
    PROVE  ReadsStable
<1> SUFFICES ASSUME NEW n \in DOMAIN chain, NEW i \in DOMAIN chain[n], NEW k \in Keys,
                    NEW pre \in BOOLEAN
             PROVE  QueryState(chain', k, n, i, pre) = QueryState(chain, k, n, i, pre)
  BY DEF ReadsStable
<1>1. i \in Nat /\ i >= 1
  <2>1. chain[n] \in Blocks
    BY DEF IsChain
  <2>2. PICK m \in 1..MaxSets : chain[n] \in [1..m -> SolutionSets]
    BY <2>1 DEF Blocks
  <2>3. MaxSets \in Nat
    BY StateQueryAssumption DEF StateQueryAssumption
  <2> QED
    BY <2>2, <2>3
<1>2. i - 1 \in Nat
  BY <1>1
<1>3. ExclusiveSolutionSet(chain', k, n, i) = ExclusiveSolutionSet(chain, k, n, i)
  BY <1>2, QueriesAreStable DEF ExclusiveSolutionSet
<1> QED
  BY <1>1, <1>3, QueriesAreStable DEF QueryState

\* A block is a sequence of at most MaxSets solution sets, and has a first one.
LEMMA BlockIsSeq ==
    ASSUME NEW b \in Blocks
    PROVE  /\ Len(b) \in 1..MaxSets /\ DOMAIN b = 1..Len(b)
           /\ \A i \in DOMAIN b : b[i] \in SolutionSets
           /\ 1 \in DOMAIN b
<1>1. PICK m \in 1..MaxSets : b \in [1..m -> SolutionSets]
  BY DEF Blocks
<1>2. MaxSets \in Nat
  BY StateQueryAssumption DEF StateQueryAssumption
<1>3. Len(b) = m /\ DOMAIN b = 1..m
  BY <1>1, <1>2
<1> QED
  BY <1>1, <1>2, <1>3


-----------------------------------------------------------------------------
(* The recursions of the reference.                                        *)

\* Induction on the numbers up to n, for a set of them.
LEMMA UpTo ==
    ASSUME NEW n \in Nat, NEW T, 0 \in T,
           \A i \in 0..n : i < n /\ i \in T => i + 1 \in T
    PROVE  0..n \subseteq T
<1> DEFINE U == (0..n) \ T
<1>1. SUFFICES ASSUME U # {} PROVE FALSE
  OBVIOUS
<1>2. U \subseteq Nat
  OBVIOUS
<1>3. PICK u \in U : \A v \in U : ~(<<v, u>> \in OpToRel(<, Nat))
  BY <1>1, <1>2, WFMin, NatLessThanWellFounded, Zenon
<1>4. u \in Nat /\ u # 0 /\ u <= n /\ u \notin T
  OBVIOUS
<1>5. u - 1 \in 0..n /\ u - 1 \in Nat /\ u - 1 < u /\ u - 1 < n /\ (u - 1) + 1 = u
  BY <1>4
<1>6. <<u - 1, u>> \in OpToRel(<, Nat)
  BY <1>4, <1>5 DEF OpToRel
<1>7. u - 1 \in T
  BY <1>3, <1>5, <1>6
<1> QED
  BY <1>4, <1>5, <1>7

\* f is the state after each of the first n sets.
Replays(f, state, b, n) ==
    f = [j \in 0..n |-> IF j = 0 THEN state ELSE Apply(f[j - 1], b[j])]

\* There is such a function.
LEMMA ReplayExists ==
    ASSUME NEW state, NEW b, NEW n \in Nat
    PROVE  \E f : Replays(f, state, b, n)
<1> DEFINE T == {i \in 0..n : \E f : Replays(f, state, b, i)}
<1>1. 0 \in T
  <2>1. Replays([j \in 0..0 |-> state], state, b, 0)
    BY DEF Replays
  <2> QED
    BY <2>1
<1>2. ASSUME NEW i \in 0..n, i < n, i \in T PROVE i + 1 \in T
  <2>1. PICK f : Replays(f, state, b, i)
    BY <1>2
  <2>2. Replays([j \in 0..(i + 1) |-> IF j = i + 1 THEN Apply(f[i], b[i + 1]) ELSE f[j]],
                state, b, i + 1)
    <3> HIDE DEF T
    <3> QED
      BY <2>1 DEF Replays
  <2>3. i + 1 \in 0..n
    BY <1>2
  <2> QED
    BY <2>2, <2>3
<1>3. n \in T
  <2> HIDE DEF T
  <2> QED
    BY <1>1, <1>2, UpTo
<1> QED
  BY <1>3

\* It defines Replay.
LEMMA ReplayIs ==
    ASSUME NEW state, NEW b, NEW n \in Nat
    PROVE  \E f : Replays(f, state, b, n) /\ Replay(state, b, n) = f[n]
<1>1. Replays(CHOOSE f : Replays(f, state, b, n), state, b, n)
  BY ReplayExists
<1>2. Replay(state, b, n) = (CHOOSE f : Replays(f, state, b, n))[n]
  BY DEF Replay, Replays
<1> QED
  BY <1>1, <1>2

\* Replaying no set changes nothing, replaying one more set applies it.
LEMMA ReplaySteps ==
    ASSUME NEW state, NEW b
    PROVE  /\ Replay(state, b, 0) = state
           /\ \A i \in Nat : Replay(state, b, i + 1) = Apply(Replay(state, b, i), b[i + 1])
<1>1. Replay(state, b, 0) = state
  BY ReplayIs DEF Replays
<1>2. ASSUME NEW i \in Nat
      PROVE  Replay(state, b, i + 1) = Apply(Replay(state, b, i), b[i + 1])
  <2>1. PICK f : Replays(f, state, b, i) /\ Replay(state, b, i) = f[i]
    BY ReplayIs
  <2>2. PICK g : Replays(g, state, b, i + 1) /\ Replay(state, b, i + 1) = g[i + 1]
    BY ReplayIs
  <2> DEFINE T == {j \in 0..i : f[j] = g[j]}
  <2>3. 0 \in T
    BY <2>1, <2>2 DEF Replays
  <2>4. ASSUME NEW j \in 0..i, j < i, j \in T PROVE j + 1 \in T
    BY <2>1, <2>2, <2>4 DEF Replays
  <2>5. i \in T
    <3> HIDE DEF T
    <3> QED
      BY <2>3, <2>4, UpTo
  <2>6. g[i + 1] = Apply(g[i], b[i + 1])
    BY <2>2 DEF Replays
  <2> QED
    BY <2>1, <2>2, <2>5, <2>6
<1> QED
  BY <1>1, <1>2

\* f is the state that each of the first n blocks of a database leaves.
Leaves(f, db, n) ==
    f = [m \in 0..n |-> IF m = 0 THEN Blank ELSE Replay(f[m - 1], db[m - 1], Len(db[m - 1]))]

\* There is such a function.
LEMMA LeavesExists ==
    ASSUME NEW db, NEW n \in Nat
    PROVE  \E f : Leaves(f, db, n)
<1> DEFINE T == {i \in 0..n : \E f : Leaves(f, db, i)}
<1>1. 0 \in T
  <2>1. Leaves([m \in 0..0 |-> Blank], db, 0)
    BY DEF Leaves
  <2> QED
    BY <2>1
<1>2. ASSUME NEW i \in 0..n, i < n, i \in T PROVE i + 1 \in T
  <2>1. PICK f : Leaves(f, db, i)
    BY <1>2
  <2>2. Leaves([m \in 0..(i + 1) |-> IF m = i + 1 THEN Replay(f[i], db[i], Len(db[i])) ELSE f[m]],
               db, i + 1)
    <3> HIDE DEF T
    <3> QED
      BY <2>1 DEF Leaves
  <2>3. i + 1 \in 0..n
    BY <1>2
  <2> QED
    BY <2>2, <2>3
<1>3. n \in T
  <2> HIDE DEF T
  <2> QED
    BY <1>1, <1>2, UpTo
<1> QED
  BY <1>3

\* It defines StateBelow.
LEMMA BelowIs ==
    ASSUME NEW db, NEW n \in Nat
    PROVE  \E f : Leaves(f, db, n) /\ StateBelow(db, n) = f[n]
<1>1. Leaves(CHOOSE f : Leaves(f, db, n), db, n)
  BY LeavesExists
<1>2. StateBelow(db, n) = (CHOOSE f : Leaves(f, db, n))[n]
  BY DEF StateBelow, Leaves
<1> QED
  BY <1>1, <1>2

\* No block leaves the blank state, each one is replayed on what those below it
\* leave.
LEMMA BelowSteps ==
    ASSUME NEW db
    PROVE  /\ StateBelow(db, 0) = Blank
           /\ \A i \in Nat :
                 StateBelow(db, i + 1) = Replay(StateBelow(db, i), db[i], Len(db[i]))
<1>1. StateBelow(db, 0) = Blank
  BY BelowIs DEF Leaves
<1>2. ASSUME NEW i \in Nat
      PROVE  StateBelow(db, i + 1) = Replay(StateBelow(db, i), db[i], Len(db[i]))
  <2>1. PICK f : Leaves(f, db, i) /\ StateBelow(db, i) = f[i]
    BY BelowIs
  <2>2. PICK g : Leaves(g, db, i + 1) /\ StateBelow(db, i + 1) = g[i + 1]
    BY BelowIs
  <2> DEFINE T == {m \in 0..i : f[m] = g[m]}
  <2>3. 0 \in T
    BY <2>1, <2>2 DEF Leaves
  <2>4. ASSUME NEW m \in 0..i, m < i, m \in T PROVE m + 1 \in T
    BY <2>1, <2>2, <2>4 DEF Leaves
  <2>5. i \in T
    <3> HIDE DEF T
    <3> QED
      BY <2>3, <2>4, UpTo
  <2>6. g[i + 1] = Replay(g[i], db[i], Len(db[i]))
    BY <2>2 DEF Leaves
  <2> QED
    BY <2>1, <2>2, <2>5, <2>6
<1> QED
  BY <1>1, <1>2

\* What they leave depends on those blocks alone.
LEMMA BelowDepends ==
    ASSUME NEW d, NEW e, NEW n \in Nat, \A m \in 0..(n - 1) : d[m] = e[m]
    PROVE  StateBelow(d, n) = StateBelow(e, n)
<1> DEFINE T == {m \in 0..n : StateBelow(d, m) = StateBelow(e, m)}
<1>1. 0 \in T
  BY BelowSteps
<1>2. ASSUME NEW m \in 0..n, m < n, m \in T PROVE m + 1 \in T
  <2>1. m \in Nat /\ m \in 0..(n - 1) /\ m + 1 \in 0..n
    BY <1>2
  <2>2. d[m] = e[m] /\ StateBelow(d, m) = StateBelow(e, m)
    BY <1>2, <2>1
  <2>3. StateBelow(d, m + 1) = StateBelow(e, m + 1)
    BY <2>1, <2>2, BelowSteps
  <2> QED
    BY <2>1, <2>3
<1>3. 0..n \subseteq T
  <2> HIDE DEF T
  <2> QED
    BY <1>1, <1>2, UpTo
<1> QED
  BY <1>3

-----------------------------------------------------------------------------
(* A search finds what the replay leaves.                                  *)

\* A database of finitely many blocks, by their numbers.
IsDatabase(db) ==
    \E N \in Nat : DOMAIN db \subseteq 0..N /\ \A n \in DOMAIN db : db[n] \in Blocks

\* Its rows are bounded, those up to any place have a last one.
LEMMA RowsBounded ==
    ASSUME NEW db, IsDatabase(db), NEW k
    PROVE  /\ \E N \in Nat : Rows(db, k) \subseteq (0..N) \X (1..MaxSets)
           /\ \A p \in Rows(db, k) : /\ p[1] \in Nat /\ p[2] \in Nat \ {0}
                                     /\ p = <<p[1], p[2]>>
                                     /\ p[2] <= Len(db[p[1]])
<1>1. PICK N \in Nat : DOMAIN db \subseteq 0..N /\ \A n \in DOMAIN db : db[n] \in Blocks
  BY DEF IsDatabase
<1>2. MaxSets \in Nat
  BY StateQueryAssumption DEF StateQueryAssumption
<1>3. ASSUME NEW p \in Rows(db, k)
      PROVE  /\ p \in (0..N) \X (1..MaxSets)
             /\ p[1] \in Nat /\ p[2] \in Nat \ {0} /\ p = <<p[1], p[2]>>
             /\ p[2] <= Len(db[p[1]])
  <2>1. p \in (0..N) \X (1..MaxSets)
    BY <1>1 DEF Rows
  <2>2. p[1] \in DOMAIN db /\ p[2] \in DOMAIN db[p[1]]
    BY DEF Rows
  <2>3. p[2] <= Len(db[p[1]])
    BY <1>1, <2>2, BlockIsSeq
  <2> QED
    BY <1>2, <2>1, <2>3
<1> QED
  BY <1>3

\* A search whose last row is p finds the value in p.
LEMMA LastRowFound ==
    ASSUME NEW db, NEW k, NEW rows, NEW p \in rows,
           \A q \in rows : /\ q = p \/ Before(q, p)
                           /\ q[1] \in Nat /\ q[2] \in Nat
    PROVE  LastValue(db, k, rows) = db[p[1]][p[2]][k]
<1> DEFINE last == CHOOSE q \in rows : \A r \in rows : r = q \/ Before(r, q)
<1>1. last \in rows /\ \A r \in rows : r = last \/ Before(r, last)
  OBVIOUS
<1>2. last = p
  <2> HIDE DEF last
  <2>1. last = p \/ Before(last, p)
    BY <1>1
  <2>2. p = last \/ Before(p, last)
    BY <1>1
  <2> QED
    BY <1>1, <2>1, <2>2 DEF Before
<1> QED
  BY <1>2 DEF LastValue

\* One more set of a block: its value of k, if it has one, is found.
LEMMA SearchOneMore ==
    ASSUME NEW db, IsDatabase(db), NEW k, NEW n \in DOMAIN db, NEW i \in Nat,
           i + 1 \in DOMAIN db[n]
    PROVE  InclusiveSolutionSet(db, k, n, i + 1) =
              IF k \in DOMAIN db[n][i + 1] THEN db[n][i + 1][k]
              ELSE InclusiveSolutionSet(db, k, n, i)
<1> DEFINE upTo(j) == {p \in Rows(db, k) : ~Before(<<n, j>>, p)}
<1>1. n \in Nat /\ i + 1 \in 1..MaxSets
  <2>1. n \in Nat /\ db[n] \in Blocks
    BY DEF IsDatabase
  <2>2. MaxSets \in Nat
    BY StateQueryAssumption DEF StateQueryAssumption
  <2> QED
    BY <2>1, <2>2, BlockIsSeq
<1>2. \A p \in Rows(db, k) : p[1] \in Nat /\ p[2] \in Nat /\ p = <<p[1], p[2]>>
  BY RowsBounded
<1>3. CASE k \in DOMAIN db[n][i + 1]
  <2> DEFINE p == <<n, i + 1>>
  <2>1. p \in upTo(i + 1)
    BY <1>1, <1>3 DEF Rows, Before
  <2>2. \A q \in upTo(i + 1) : /\ q = p \/ Before(q, p)
                               /\ q[1] \in Nat /\ q[2] \in Nat
    BY <1>1, <1>2 DEF Before
  <2>3. LastValue(db, k, upTo(i + 1)) = db[p[1]][p[2]][k]
    <3> HIDE DEF upTo, p
    <3> QED
      BY <2>1, <2>2, LastRowFound
  <2> QED
    BY <1>3, <2>3 DEF InclusiveSolutionSet
<1>4. CASE k \notin DOMAIN db[n][i + 1]
  <2>1. <<n, i + 1>> \notin Rows(db, k)
    BY <1>4 DEF Rows
  <2>2. upTo(i + 1) = upTo(i)
    <3> SUFFICES ASSUME NEW p \in Rows(db, k)
                 PROVE  Before(<<n, i + 1>>, p) <=> Before(<<n, i>>, p)
      OBVIOUS
    <3>1. p # <<n, i + 1>>
      BY <2>1
    <3>2. ~(p[1] = n /\ p[2] = i + 1)
      BY <1>2, <3>1
    <3> QED
      BY <1>1, <1>2, <3>2 DEF Before
  <2> QED
    BY <1>4, <2>2 DEF InclusiveSolutionSet
<1> QED
  BY <1>3, <1>4

\* If the search before the first set of a block finds a state, then the search
\* up to set i finds that state with the first i sets applied to it.
LEMMA SearchReplays ==
    ASSUME NEW db, IsDatabase(db), NEW n \in DOMAIN db, NEW k \in Keys, NEW state,
           InclusiveSolutionSet(db, k, n, 0) = state[k]
    PROVE  \A i \in 0..Len(db[n]) :
              InclusiveSolutionSet(db, k, n, i) = Replay(state, db[n], i)[k]
<1> DEFINE m == Len(db[n])
           T == {i \in 0..m : InclusiveSolutionSet(db, k, n, i) = Replay(state, db[n], i)[k]}
<1>1. m \in Nat /\ DOMAIN db[n] = 1..m
  <2>1. db[n] \in Blocks
    BY DEF IsDatabase
  <2>2. MaxSets \in Nat
    BY StateQueryAssumption DEF StateQueryAssumption
  <2> QED
    BY <2>1, <2>2, BlockIsSeq
<1> HIDE DEF m
<1>2. 0 \in T
  BY <1>1, ReplaySteps
<1>3. ASSUME NEW i \in 0..m, i < m, i \in T PROVE i + 1 \in T
  <2>1. i \in Nat /\ i + 1 \in 0..m /\ i + 1 \in DOMAIN db[n]
    BY <1>1, <1>3
  <2>2. Replay(state, db[n], i + 1) = Apply(Replay(state, db[n], i), db[n][i + 1])
    BY <2>1, ReplaySteps
  <2>3. Replay(state, db[n], i + 1)[k] =
           IF k \in DOMAIN db[n][i + 1] THEN db[n][i + 1][k] ELSE Replay(state, db[n], i)[k]
    BY <2>2 DEF Apply
  <2>4. InclusiveSolutionSet(db, k, n, i) = Replay(state, db[n], i)[k]
    BY <1>3
  <2>5. InclusiveSolutionSet(db, k, n, i + 1) = Replay(state, db[n], i + 1)[k]
    BY <2>1, <2>3, <2>4, SearchOneMore
  <2> QED
    BY <2>1, <2>5
<1>4. 0..m \subseteq T
  <2> HIDE DEF T
  <2> QED
    BY <1>1, <1>2, <1>3, UpTo
<1> QED
  BY <1>4 DEF m

\* The searches by block are searches by solution set.
LEMMA SearchesAgree ==
    ASSUME NEW db, IsDatabase(db), NEW k, NEW n \in Nat
    PROVE  /\ InclusiveBlock(db, k, n) = InclusiveSolutionSet(db, k, n, MaxSets)
           /\ ExclusiveBlock(db, k, n) = InclusiveSolutionSet(db, k, n, 0)
           /\ \A i \in Nat \ {0} :
                 ExclusiveSolutionSet(db, k, n, i) = InclusiveSolutionSet(db, k, n, i - 1)
<1>1. \A p \in Rows(db, k) : /\ p[1] \in Nat /\ p[2] \in 1..MaxSets /\ p[2] \in Nat \ {0}
                             /\ p = <<p[1], p[2]>>
  BY RowsBounded DEF Rows
<1>2. MaxSets \in Nat
  BY StateQueryAssumption DEF StateQueryAssumption
<1>3. \A p \in Rows(db, k) : (p[1] <= n) <=> ~Before(<<n, MaxSets>>, p)
  BY <1>1, <1>2 DEF Before
<1>4. {p \in Rows(db, k) : p[1] <= n} = {p \in Rows(db, k) : ~Before(<<n, MaxSets>>, p)}
  BY <1>3
<1>5. InclusiveBlock(db, k, n) = InclusiveSolutionSet(db, k, n, MaxSets)
  BY <1>4 DEF InclusiveBlock, InclusiveSolutionSet
<1>6. \A p \in Rows(db, k) : (p[1] <= n - 1) <=> ~Before(<<n, 0>>, p)
  BY <1>1 DEF Before
<1>7. {p \in Rows(db, k) : p[1] <= n - 1} = {p \in Rows(db, k) : ~Before(<<n, 0>>, p)}
  BY <1>6
<1>8. ExclusiveBlock(db, k, n) = InclusiveSolutionSet(db, k, n, 0)
  BY <1>7 DEF ExclusiveBlock, InclusiveBlock, InclusiveSolutionSet
<1> QED
  BY <1>5, <1>8 DEF ExclusiveSolutionSet

\* A search from behind the last set of a block finds what one before the next
\* block does.
LEMMA SearchPastBlock ==
    ASSUME NEW db, IsDatabase(db), NEW k, NEW n \in DOMAIN db, NEW i \in Nat,
           Len(db[n]) <= i
    PROVE  /\ InclusiveSolutionSet(db, k, n, i) = InclusiveSolutionSet(db, k, n, Len(db[n]))
           /\ InclusiveSolutionSet(db, k, n, i) = InclusiveSolutionSet(db, k, n + 1, 0)
<1> DEFINE l == Len(db[n])
<1>1. \A p \in Rows(db, k) : /\ p[1] \in Nat /\ p[2] \in Nat \ {0} /\ p[2] <= Len(db[p[1]])
                             /\ p = <<p[1], p[2]>>
  BY RowsBounded
<1>2. n \in Nat /\ l \in Nat
  <2>1. n \in Nat /\ db[n] \in Blocks /\ MaxSets \in Nat
    BY StateQueryAssumption DEF IsDatabase, StateQueryAssumption
  <2> QED
    BY <2>1, BlockIsSeq
<1>3. l <= i /\ \A p \in Rows(db, k) : p[1] = n => p[2] <= l
  BY <1>1
<1> HIDE DEF l
<1>4. \A p \in Rows(db, k) : /\ ~Before(<<n, i>>, p) <=> ~Before(<<n, l>>, p)
                             /\ ~Before(<<n, i>>, p) <=> ~Before(<<n + 1, 0>>, p)
  BY <1>1, <1>2, <1>3 DEF Before
<1>5. /\ {p \in Rows(db, k) : ~Before(<<n, i>>, p)} = {p \in Rows(db, k) : ~Before(<<n, l>>, p)}
      /\ {p \in Rows(db, k) : ~Before(<<n, i>>, p)}
            = {p \in Rows(db, k) : ~Before(<<n + 1, 0>>, p)}
  BY <1>4
<1> QED
  BY <1>5 DEF l, InclusiveSolutionSet

\* A search from beyond the last block finds what one behind it does.
LEMMA SearchPastTip ==
    ASSUME NEW db, IsDatabase(db), NEW k, NEW m \in Nat, \A j \in DOMAIN db : j < m,
           NEW n \in Nat, NEW i \in Nat, m <= n
    PROVE  InclusiveSolutionSet(db, k, n, i) = InclusiveSolutionSet(db, k, m, 0)
<1>1. \A p \in Rows(db, k) : /\ p[1] \in Nat /\ p[2] \in Nat \ {0}
                             /\ p = <<p[1], p[2]>> /\ p[1] < m
  BY RowsBounded DEF Rows
<1>2. \A p \in Rows(db, k) : ~Before(<<n, i>>, p) /\ ~Before(<<m, 0>>, p)
  BY <1>1 DEF Before
<1>3. {p \in Rows(db, k) : ~Before(<<n, i>>, p)} = {p \in Rows(db, k) : ~Before(<<m, 0>>, p)}
  BY <1>2
<1> QED
  BY <1>3 DEF InclusiveSolutionSet

\* The chain is a database.
LEMMA ChainIsDatabase ==
    ASSUME NEW h \in Nat, chain \in [0..(h - 1) -> Blocks]
    PROVE  IsDatabase(chain)
<1>1. DOMAIN chain \subseteq 0..h /\ \A n \in DOMAIN chain : chain[n] \in Blocks
  OBVIOUS
<1> QED
  BY <1>1 DEF IsDatabase

\* Before the first set of a block of the chain, or behind the chain, a search
\* finds what the blocks below leave.
LEMMA SearchFindsBelow ==
    ASSUME NEW h \in Nat, chain \in [0..(h - 1) -> Blocks], NEW k \in Keys
    PROVE  \A n \in 0..h : InclusiveSolutionSet(chain, k, n, 0) = StateBelow(chain, n)[k]
<1>1. IsDatabase(chain)
  BY ChainIsDatabase
<1> DEFINE T == {n \in 0..h : InclusiveSolutionSet(chain, k, n, 0) = StateBelow(chain, n)[k]}
<1>2. 0 \in T
  <2>1. \A p \in Rows(chain, k) : p[1] \in Nat /\ p[2] \in Nat \ {0}
    BY <1>1, RowsBounded
  <2>2. {p \in Rows(chain, k) : ~Before(<<0, 0>>, p)} = {}
    BY <2>1 DEF Before
  <2>3. InclusiveSolutionSet(chain, k, 0, 0) = Unset
    BY <2>2 DEF InclusiveSolutionSet, LastValue
  <2>4. StateBelow(chain, 0)[k] = Unset
    BY BelowSteps DEF Blank
  <2> QED
    BY <2>3, <2>4
<1>3. ASSUME NEW n \in 0..h, n < h, n \in T PROVE n + 1 \in T
  <2>1. n \in Nat /\ n \in DOMAIN chain /\ n + 1 \in 0..h /\ chain[n] \in Blocks
    BY <1>3
  <2>2. Len(chain[n]) \in Nat
    <3>1. MaxSets \in Nat
      BY StateQueryAssumption DEF StateQueryAssumption
    <3> QED
      BY <2>1, <3>1, BlockIsSeq
  <2>3. InclusiveSolutionSet(chain, k, n, 0) = StateBelow(chain, n)[k]
    BY <1>3
  <2>4. InclusiveSolutionSet(chain, k, n, Len(chain[n]))
           = Replay(StateBelow(chain, n), chain[n], Len(chain[n]))[k]
    BY <1>1, <2>1, <2>2, <2>3, SearchReplays
  <2>5. InclusiveSolutionSet(chain, k, n, Len(chain[n])) = InclusiveSolutionSet(chain, k, n + 1, 0)
    BY <1>1, <2>1, <2>2, SearchPastBlock
  <2>6. InclusiveSolutionSet(chain, k, n + 1, 0) = StateBelow(chain, n + 1)[k]
    BY <2>1, <2>4, <2>5, BelowSteps
  <2> QED
    BY <2>1, <2>6
<1>4. 0..h \subseteq T
  <2> HIDE DEF T
  <2> QED
    BY <1>2, <1>3, UpTo
<1> QED
  BY <1>4

\* Anywhere, a search finds what the chain leaves up to there.
LEMMA SearchFindsReplay ==
    ASSUME NEW h \in 0..MaxBlocks, chain \in [0..(h - 1) -> Blocks], NEW k \in Keys,
           NEW n \in Nat, NEW i \in Nat
    PROVE  InclusiveSolutionSet(chain, k, n, i) = StateAfter(n, i)[k]
<1>1. h \in Nat /\ Height = h /\ MaxSets \in Nat
  BY HeightIs, StateQueryAssumption DEF StateQueryAssumption
<1>2. IsDatabase(chain)
  BY <1>1, ChainIsDatabase
<1>3. CASE n < h
  <2>1. n \in 0..h /\ n \in DOMAIN chain /\ chain[n] \in Blocks
    BY <1>1, <1>3
  <2>2. Len(chain[n]) \in Nat
    BY <1>1, <2>1, BlockIsSeq
  <2>3. InclusiveSolutionSet(chain, k, n, 0) = StateBelow(chain, n)[k]
    BY <1>1, <2>1, SearchFindsBelow
  <2>4. \A j \in 0..Len(chain[n]) :
           InclusiveSolutionSet(chain, k, n, j) = StateUpTo(n, chain[n], j)[k]
    BY <1>2, <2>1, <2>3, SearchReplays DEF StateUpTo
  <2>5. CASE i < Len(chain[n])
    BY <1>1, <1>3, <2>2, <2>4, <2>5 DEF StateAfter
  <2>6. CASE ~(i < Len(chain[n]))
    <3>1. \A l \in Nat : l \in 0..l /\ (i < l \/ l <= i)
      OBVIOUS
    <3>2. Len(chain[n]) \in 0..Len(chain[n]) /\ Len(chain[n]) <= i
      BY <2>2, <2>6, <3>1, Zenon
    <3>3. InclusiveSolutionSet(chain, k, n, i) = InclusiveSolutionSet(chain, k, n, Len(chain[n]))
      BY <1>2, <2>1, <3>2, SearchPastBlock
    <3> QED
      BY <1>1, <1>3, <2>4, <2>6, <3>2, <3>3 DEF StateAfter
  <2> QED
    BY <2>5, <2>6
<1>4. CASE ~(n < h)
  <2>1. h <= n /\ \A j \in DOMAIN chain : j < h
    BY <1>1, <1>4
  <2>2. InclusiveSolutionSet(chain, k, n, i) = InclusiveSolutionSet(chain, k, h, 0)
    BY <1>1, <1>2, <2>1, SearchPastTip
  <2>3. InclusiveSolutionSet(chain, k, h, 0) = StateBelow(chain, h)[k]
    BY <1>1, SearchFindsBelow
  <2> QED
    BY <1>1, <1>4, <2>2, <2>3 DEF StateAfter
<1> QED
  BY <1>3, <1>4

\* Which query the parameters of the endpoint select.
LEMMA ApiSelects ==
    ASSUME NEW k, NEW n, NEW i
    PROVE  /\ ApiQueryState(k, << >>) = LatestFinalizedBlock(k)
           /\ ApiQueryState(k, [block_inclusive |-> n]) = InclusiveBlock(chain, k, n)
           /\ ApiQueryState(k, [block_exclusive |-> n]) = ExclusiveBlock(chain, k, n)
           /\ ApiQueryState(k, [block_inclusive |-> n, solution_inclusive |-> i])
                 = InclusiveSolutionSet(chain, k, n, i)
           /\ ApiQueryState(k, [block_inclusive |-> n, solution_exclusive |-> i])
                 = ExclusiveSolutionSet(chain, k, n, i)
<1>1. ApiQueryState(k, << >>) = LatestFinalizedBlock(k)
  <2>1. DOMAIN << >> = {}
    OBVIOUS
  <2> QED
    BY <2>1 DEF ApiQueryState
<1>2. ApiQueryState(k, [block_inclusive |-> n]) = InclusiveBlock(chain, k, n)
  BY DEF ApiQueryState
<1>3. ApiQueryState(k, [block_exclusive |-> n]) = ExclusiveBlock(chain, k, n)
  BY DEF ApiQueryState
<1>4. ApiQueryState(k, [block_inclusive |-> n, solution_inclusive |-> i])
         = InclusiveSolutionSet(chain, k, n, i)
  BY DEF ApiQueryState
<1>5. ApiQueryState(k, [block_inclusive |-> n, solution_exclusive |-> i])
         = ExclusiveSolutionSet(chain, k, n, i)
  BY DEF ApiQueryState
<1> QED
  BY <1>1, <1>2, <1>3, <1>4, <1>5

\* The latest finalized block is the last one of the chain.
LEMMA LatestIsLast ==
    ASSUME NEW h \in Nat, chain \in [0..(h - 1) -> Blocks], NEW k \in Keys
    PROVE  LatestFinalizedBlock(k) = StateBelow(chain, h)[k]
<1>1. IsDatabase(chain)
  BY ChainIsDatabase
<1>2. CASE h = 0
  <2>1. DOMAIN chain = {}
    BY <1>2
  <2> QED
    BY <1>2, <2>1, BelowSteps DEF LatestFinalizedBlock, Blank
<1>3. CASE h # 0
  <2>1. h - 1 \in DOMAIN chain /\ \A n \in DOMAIN chain : h - 1 >= n
    BY <1>3
  <2>2. Max(DOMAIN chain) = h - 1
    <3>1. DOMAIN chain \subseteq Nat
      OBVIOUS
    <3>2. Max(DOMAIN chain) \in DOMAIN chain /\ Max(DOMAIN chain) >= h - 1
      BY <2>1 DEF Max
    <3> QED
      BY <2>1, <3>1, <3>2
  <2>3. InclusiveBlock(chain, k, h - 1) = ExclusiveBlock(chain, k, h)
    BY DEF ExclusiveBlock
  <2>4. ExclusiveBlock(chain, k, h) = InclusiveSolutionSet(chain, k, h, 0)
    BY <1>1, SearchesAgree
  <2>5. InclusiveSolutionSet(chain, k, h, 0) = StateBelow(chain, h)[k]
    BY SearchFindsBelow
  <2> QED
    BY <2>1, <2>2, <2>3, <2>4, <2>5 DEF LatestFinalizedBlock
<1> QED
  BY <1>2, <1>3

\* For chains of any length: what the endpoint answers is what a replay leaves.
LEMMA QueriesReplayed ==
    ASSUME TypeOK
    PROVE  QueriesReplay
<1>1. PICK h \in 0..MaxBlocks : chain \in [0..(h - 1) -> Blocks]
  BY DEF TypeOK
<1>2. h \in Nat /\ Height = h /\ MaxSets \in Nat /\ MaxBlocks \in Nat
  BY <1>1, HeightIs, StateQueryAssumption DEF StateQueryAssumption
<1>3. IsDatabase(chain)
  BY <1>1, <1>2, ChainIsDatabase
<1> SUFFICES ASSUME NEW k \in Keys
    PROVE /\ ApiQueryState(k, << >>) = StateBelow(chain, Height)[k]
          /\ \A n \in Numbers :
              /\ ApiQueryState(k, [block_inclusive |-> n]) = StateAfter(n, MaxSets)[k]
              /\ ApiQueryState(k, [block_exclusive |-> n]) = StateAfter(n, 0)[k]
              /\ \A i \in 1..(MaxSets + 1) :
                    /\ ApiQueryState(k, [block_inclusive |-> n, solution_inclusive |-> i])
                          = StateAfter(n, i)[k]
                    /\ ApiQueryState(k, [block_inclusive |-> n, solution_exclusive |-> i])
                          = StateAfter(n, i - 1)[k]
  BY DEF QueriesReplay
<1>4. ApiQueryState(k, << >>) = StateBelow(chain, Height)[k]
  BY <1>1, <1>2, ApiSelects, LatestIsLast
<1>5. ASSUME NEW n \in Numbers
      PROVE  /\ ApiQueryState(k, [block_inclusive |-> n]) = StateAfter(n, MaxSets)[k]
             /\ ApiQueryState(k, [block_exclusive |-> n]) = StateAfter(n, 0)[k]
  <2>1. n \in Nat /\ 0 \in Nat
    BY <1>2 DEF Numbers
  <2>2. InclusiveBlock(chain, k, n) = StateAfter(n, MaxSets)[k]
    BY <1>1, <1>2, <1>3, <2>1, SearchesAgree, SearchFindsReplay
  <2>3. ExclusiveBlock(chain, k, n) = StateAfter(n, 0)[k]
    BY <1>1, <1>2, <1>3, <2>1, SearchesAgree, SearchFindsReplay
  <2> QED
    BY <2>2, <2>3, ApiSelects
<1>6. ASSUME NEW n \in Numbers, NEW i \in 1..(MaxSets + 1)
      PROVE  /\ ApiQueryState(k, [block_inclusive |-> n, solution_inclusive |-> i])
                   = StateAfter(n, i)[k]
             /\ ApiQueryState(k, [block_inclusive |-> n, solution_exclusive |-> i])
                   = StateAfter(n, i - 1)[k]
  <2>1. n \in Nat /\ i \in Nat \ {0} /\ i - 1 \in Nat
    BY <1>2 DEF Numbers
  <2>2. InclusiveSolutionSet(chain, k, n, i) = StateAfter(n, i)[k]
    BY <1>1, <2>1, SearchFindsReplay
  <2>3. ExclusiveSolutionSet(chain, k, n, i) = StateAfter(n, i - 1)[k]
    BY <1>1, <1>3, <2>1, SearchesAgree, SearchFindsReplay
  <2> QED
    BY <2>2, <2>3, ApiSelects
<1> QED
  BY <1>4, <1>5, <1>6

\* What the check of a set of a block of the chain reads: the state that the
\* chain leaves before the set, or after it.
LEMMA BlockReadsReplay ==
    ASSUME TypeOK, NEW k \in Keys, NEW n \in DOMAIN chain, NEW i \in DOMAIN chain[n]
    PROVE  /\ QueryState(chain, k, n, i, TRUE) = StateUpTo(n, chain[n], i - 1)[k]
           /\ QueryState(chain, k, n, i, FALSE) = StateUpTo(n, chain[n], i)[k]
<1>1. PICK h \in 0..MaxBlocks : chain \in [0..(h - 1) -> Blocks]
  BY DEF TypeOK
<1>2. h \in Nat /\ Height = h /\ MaxSets \in Nat
  BY <1>1, HeightIs, StateQueryAssumption DEF StateQueryAssumption
<1>3. IsDatabase(chain)
  BY <1>1, <1>2, ChainIsDatabase
<1>4. n \in Nat /\ n \in 0..h /\ chain[n] \in Blocks
  BY <1>1, <1>2
<1>5. PICK l \in Nat : Len(chain[n]) = l /\ DOMAIN chain[n] = 1..l
  BY <1>2, <1>4, BlockIsSeq
<1>6. i \in Nat \ {0} /\ i \in 0..l /\ i - 1 \in 0..l
  BY <1>5
<1>7. InclusiveSolutionSet(chain, k, n, 0) = StateBelow(chain, n)[k]
  BY <1>1, <1>2, <1>4, SearchFindsBelow
<1>8. \A j \in 0..l : InclusiveSolutionSet(chain, k, n, j) = StateUpTo(n, chain[n], j)[k]
  BY <1>3, <1>5, <1>7, SearchReplays DEF StateUpTo
<1>9. ExclusiveSolutionSet(chain, k, n, i) = InclusiveSolutionSet(chain, k, n, i - 1)
  BY <1>3, <1>4, <1>6, SearchesAgree
<1> QED
  BY <1>6, <1>8, <1>9 DEF QueryState

-----------------------------------------------------------------------------
(* The dry run.                                                            *)

\* A block changes a state where it changes the blank one, and nowhere else: no
\* solution set mutates a key to Unset.
LEMMA ReplayOverlays ==
    ASSUME NEW b \in Blocks, NEW k \in Keys, NEW state
    PROVE  \A i \in 0..Len(b) :
              Replay(state, b, i)[k] = IF Replay(Blank, b, i)[k] = Unset THEN state[k]
                                       ELSE Replay(Blank, b, i)[k]
<1>1. PICK l \in Nat : Len(b) = l /\ DOMAIN b = 1..l /\ \A i \in 1..l : b[i] \in SolutionSets
  <2>1. MaxSets \in Nat
    BY StateQueryAssumption DEF StateQueryAssumption
  <2> QED
    BY <2>1, BlockIsSeq
<1> DEFINE T == {i \in 0..l :
                   Replay(state, b, i)[k] = IF Replay(Blank, b, i)[k] = Unset THEN state[k]
                                            ELSE Replay(Blank, b, i)[k]}
<1>2. 0 \in T
  BY ReplaySteps DEF Blank
<1>3. ASSUME NEW i \in 0..l, i < l, i \in T PROVE i + 1 \in T
  <2>1. i \in Nat /\ i + 1 \in 0..l /\ b[i + 1] \in SolutionSets
    BY <1>1, <1>3
  <2>2. ASSUME NEW s
        PROVE  Replay(s, b, i + 1)[k] =
                  IF k \in DOMAIN b[i + 1] THEN b[i + 1][k] ELSE Replay(s, b, i)[k]
    <3>1. Replay(s, b, i + 1) = Apply(Replay(s, b, i), b[i + 1])
      BY <2>1, ReplaySteps
    <3> QED
      BY <3>1 DEF Apply
  <2>3. k \in DOMAIN b[i + 1] => b[i + 1][k] # Unset
    BY <2>1, StateQueryAssumption DEF StateQueryAssumption
  <2>4. Replay(state, b, i)[k] = IF Replay(Blank, b, i)[k] = Unset THEN state[k]
                                 ELSE Replay(Blank, b, i)[k]
    BY <1>3
  <2>5. Replay(state, b, i + 1)[k] = IF Replay(Blank, b, i + 1)[k] = Unset THEN state[k]
                                     ELSE Replay(Blank, b, i + 1)[k]
    BY <2>2, <2>3, <2>4
  <2> QED
    BY <2>1, <2>5
<1>4. 0..l \subseteq T
  <2> HIDE DEF T
  <2> QED
    BY <1>2, <1>3, UpTo
<1> QED
  BY <1>1, <1>4

\* The in-memory database of a dry run holds one block.
LEMMA MemoryReplays ==
    ASSUME NEW n \in Nat, NEW b \in Blocks, NEW k \in Keys
    PROVE  LET mem == [m \in {n} |-> b]
           IN  /\ IsDatabase(mem)
               /\ \A i \in 0..Len(b) :
                     InclusiveSolutionSet(mem, k, n, i) = Replay(Blank, b, i)[k]
<1> DEFINE mem == [m \in {n} |-> b]
<1>1. IsDatabase(mem)
  <2>1. DOMAIN mem \subseteq 0..n /\ \A m \in DOMAIN mem : mem[m] \in Blocks
    OBVIOUS
  <2> HIDE DEF mem
  <2> QED
    BY <2>1 DEF IsDatabase
<1>2. InclusiveSolutionSet(mem, k, n, 0) = Blank[k]
  <2>1. \A p \in Rows(mem, k) : p[2] \in Nat \ {0}
    BY <1>1, RowsBounded
  <2>2. \A p \in Rows(mem, k) : p[1] = n
    BY DEF Rows
  <2>3. {p \in Rows(mem, k) : ~Before(<<n, 0>>, p)} = {}
    BY <2>1, <2>2 DEF Before
  <2> QED
    BY <2>3 DEF InclusiveSolutionSet, LastValue, Blank
<1>3. n \in DOMAIN mem /\ mem[n] = b
  OBVIOUS
<1>4. \A i \in 0..Len(b) : InclusiveSolutionSet(mem, k, n, i) = Replay(Blank, b, i)[k]
  <2> HIDE DEF mem
  <2> QED
    BY <1>1, <1>2, <1>3, SearchReplays
<1> QED
  BY <1>1, <1>4

\* For chains and blocks of any length: what a dry run above the tip reads is
\* what the chain followed by its block leaves.
LEMMA DryRunReplayed ==
    ASSUME TypeOK
    PROVE  DryRunReplays
<1> SUFFICES ASSUME dry # NoRun, dry.number >= Height,
                    NEW i \in DOMAIN dry.block, NEW k \in Keys
             PROVE  /\ DryRead(k, i, TRUE) = StateUpTo(Height, dry.block, i - 1)[k]
                    /\ DryRead(k, i, FALSE) = StateUpTo(Height, dry.block, i)[k]
  BY DEF DryRunReplays
<1> DEFINE n == dry.number
           b == dry.block
           mem == [m \in {n} |-> b]
<1>1. PICK h \in 0..MaxBlocks : chain \in [0..(h - 1) -> Blocks]
  BY DEF TypeOK
<1>2. h \in Nat /\ Height = h /\ MaxSets \in Nat /\ MaxBlocks \in Nat
  BY <1>1, HeightIs, StateQueryAssumption DEF StateQueryAssumption
<1>3. n \in Nat /\ b \in Blocks /\ h <= n
  BY <1>2 DEF TypeOK, DryRuns, Numbers
<1>4. PICK l \in Nat : Len(b) = l /\ DOMAIN b = 1..l
  BY <1>2, <1>3, BlockIsSeq
<1>5. i \in Nat \ {0} /\ i \in 0..l /\ i - 1 \in 0..l /\ i - 1 \in Nat
  BY <1>4
<1>6. DryRead(k, i, TRUE) = Cascade(mem, k, n, i, TRUE)
      /\ DryRead(k, i, FALSE) = Cascade(mem, k, n, i, FALSE)
  BY DEF DryRead
<1> HIDE DEF mem
<1>7. /\ IsDatabase(mem)
      /\ \A j \in 0..l : InclusiveSolutionSet(mem, k, n, j) = Replay(Blank, b, j)[k]
  <2> HIDE DEF n, b
  <2> QED
    BY <1>3, <1>4, MemoryReplays DEF mem
<1> HIDE DEF n, b
<1>8. IsDatabase(chain)
  BY <1>1, <1>2, ChainIsDatabase
<1>9. \A j \in Nat : InclusiveSolutionSet(chain, k, n, j) = StateBelow(chain, h)[k]
  <2>1. \A j \in Nat : InclusiveSolutionSet(chain, k, n, j) = StateAfter(n, j)[k]
    BY <1>1, <1>3, SearchFindsReplay
  <2>2. \A j \in Nat : StateAfter(n, j) = StateBelow(chain, h)
    BY <1>2, <1>3 DEF StateAfter
  <2> QED
    BY <2>1, <2>2
<1>10. \A db : IsDatabase(db) =>
          /\ QueryState(db, k, n, i, TRUE) = InclusiveSolutionSet(db, k, n, i - 1)
          /\ QueryState(db, k, n, i, FALSE) = InclusiveSolutionSet(db, k, n, i)
  BY <1>3, <1>5, SearchesAgree DEF QueryState
<1>11. \A j \in 0..l :
          StateUpTo(h, b, j)[k] = IF Replay(Blank, b, j)[k] = Unset THEN StateBelow(chain, h)[k]
                                  ELSE Replay(Blank, b, j)[k]
  BY <1>3, <1>4, ReplayOverlays DEF StateUpTo
<1>12. Cascade(mem, k, n, i, TRUE) = StateUpTo(h, b, i - 1)[k]
  BY <1>5, <1>7, <1>8, <1>9, <1>10, <1>11 DEF Cascade
<1>13. Cascade(mem, k, n, i, FALSE) = StateUpTo(h, b, i)[k]
  BY <1>5, <1>7, <1>8, <1>9, <1>10, <1>11 DEF Cascade
<1> QED
  BY <1>2, <1>6, <1>12, <1>13 DEF b

-----------------------------------------------------------------------------
(* Key ranges.                                                             *)

\* A set of numbers has a smallest one.
LEMMA SmallestExists ==
    ASSUME NEW U \in SUBSET Nat, U # {}
    PROVE  \E n \in U : \A m \in U : n <= m
<1>1. PICK u \in U : \A v \in U : ~(<<v, u>> \in OpToRel(<, Nat))
  BY WFMin, NatLessThanWellFounded, Zenon
<1>2. ASSUME NEW v \in U PROVE u <= v
  <2>1. ~(<<v, u>> \in OpToRel(<, Nat)) /\ u \in Nat /\ v \in Nat
    BY <1>1
  <2> QED
    BY <2>1 DEF OpToRel
<1> QED
  BY <1>2

\* Two keys differ first at some word, and there one is less.
LEMMA LessTotal ==
    ASSUME NEW p \in Keys, NEW q \in Keys, p # q
    PROVE  Less(p, q) \/ Less(q, p)
<1>1. KeyLen \in Nat /\ MinWord \in Int /\ MaxWord \in Int
  BY StateQueryAssumption DEF StateQueryAssumption
<1>2. p \in [1..KeyLen -> Int] /\ q \in [1..KeyLen -> Int]
  BY <1>1 DEF Keys
<1> DEFINE U == {j \in 1..KeyLen : p[j] # q[j]}
<1>3. U \in SUBSET Nat /\ U # {}
  <2>1. ~(\A j \in 1..KeyLen : p[j] = q[j])
    <3>1. p = [j \in 1..KeyLen |-> p[j]] /\ q = [j \in 1..KeyLen |-> q[j]]
      BY <1>2
    <3> QED
      BY <3>1, Zenon
  <2> QED
    BY <1>1, <2>1
<1>4. PICK j \in U : \A m \in U : j <= m
  BY <1>3, SmallestExists
<1>5. \A m \in 1..(j - 1) : p[m] = q[m]
  <2> SUFFICES ASSUME NEW m \in 1..(j - 1) PROVE p[m] = q[m]
    OBVIOUS
  <2>1. m \in 1..KeyLen /\ m \notin U
    BY <1>1, <1>4
  <2> QED
    BY <2>1
<1>6. p[j] < q[j] \/ q[j] < p[j]
  BY <1>2
<1> QED
  BY <1>2, <1>5, <1>6 DEF Less

\* What next_key does.
LEMMA NextKeyIs ==
    ASSUME NEW k \in Keys
    PROVE  \/ NextKey(k) = NoKey /\ \A j \in 1..KeyLen : k[j] = MaxWord
           \/ /\ NextKey(k) \in Keys
              /\ \E m \in 1..KeyLen :
                    /\ k[m] < MaxWord /\ NextKey(k)[m] = k[m] + 1
                    /\ \A j \in 1..(m - 1) : NextKey(k)[j] = k[j]
                    /\ \A j \in (m + 1)..KeyLen : k[j] = MaxWord /\ NextKey(k)[j] = MinWord
<1>1. KeyLen \in Nat /\ MinWord \in Int /\ MaxWord \in Int /\ MinWord < MaxWord
  BY StateQueryAssumption DEF StateQueryAssumption
<1>2. DOMAIN k = 1..KeyLen /\ \A j \in 1..KeyLen : k[j] \in Int /\ MinWord <= k[j] /\ k[j] <= MaxWord
  BY <1>1 DEF Keys
<1> DEFINE low == {j \in DOMAIN k : k[j] # MaxWord}
<1>3. CASE low = {}
  BY <1>2, <1>3 DEF NextKey
<1>4. CASE low # {}
  <2> DEFINE m == Max(low)
  <2>1. m \in low /\ \A j \in low : m >= j
    <3>1. low \in SUBSET (0..KeyLen)
      BY <1>1, <1>2
    <3>2. \E x \in low : \A j \in low : j <= x
      <4> HIDE DEF low
      <4> QED
        BY <1>1, <1>4, <3>1, LargestExists
    <3>3. \A x, j \in 0..KeyLen : j <= x <=> x >= j
      BY <1>1
    <3>4. \E x \in low : \A j \in low : x >= j
      BY <3>1, <3>2, <3>3
    <3> HIDE DEF low
    <3> QED
      BY <3>4 DEF Max
  <2>2. NextKey(k) = [j \in 1..KeyLen |-> IF j < m THEN k[j]
                                          ELSE IF j = m THEN k[j] + 1 ELSE MinWord]
    BY <1>2, <1>4 DEF NextKey
  <2>3. /\ m \in 1..KeyLen /\ k[m] < MaxWord
        /\ \A j \in (m + 1)..KeyLen : k[j] = MaxWord
    <3>1. m \in 1..KeyLen /\ k[m] < MaxWord
      BY <1>1, <1>2, <2>1
    <3>2. ASSUME NEW j \in (m + 1)..KeyLen PROVE k[j] = MaxWord
      <4>1. j \in 1..KeyLen /\ ~(m >= j)
        BY <1>1, <3>1
      <4>2. j \notin low
        BY <2>1, <4>1
      <4> QED
        BY <1>2, <4>1, <4>2
    <3> QED
      BY <3>1, <3>2
  <2> HIDE DEF m, low
  <2>4. \A j \in 1..KeyLen : NextKey(k)[j] \in MinWord..MaxWord
    BY <1>1, <1>2, <2>2, <2>3
  <2>5. NextKey(k) \in Keys
    BY <2>2, <2>4 DEF Keys
  <2>6. /\ NextKey(k)[m] = k[m] + 1
        /\ \A j \in 1..(m - 1) : NextKey(k)[j] = k[j]
        /\ \A j \in (m + 1)..KeyLen : NextKey(k)[j] = MinWord
    BY <1>1, <2>2, <2>3
  <2> QED
    BY <2>3, <2>5, <2>6
<1> QED
  BY <1>3, <1>4

\* The key it returns follows the one it was given.
LEMMA NextKeyFollows ==
    ASSUME NEW k \in Keys, NextKey(k) # NoKey
    PROVE  NextKey(k) \in Keys /\ Follows(k, NextKey(k))
<1> DEFINE q == NextKey(k)
<1>1. KeyLen \in Nat /\ MinWord \in Int /\ MaxWord \in Int
  BY StateQueryAssumption DEF StateQueryAssumption
<1>2. q \in Keys
  BY NextKeyIs
<1>3. PICK m \in 1..KeyLen :
         /\ k[m] < MaxWord /\ q[m] = k[m] + 1
         /\ \A j \in 1..(m - 1) : q[j] = k[j]
         /\ \A j \in (m + 1)..KeyLen : k[j] = MaxWord /\ q[j] = MinWord
  BY NextKeyIs
<1> HIDE DEF q
<1>4. \A r \in Keys : /\ DOMAIN r = 1..KeyLen
                      /\ \A j \in 1..KeyLen : r[j] \in Int /\ MinWord <= r[j] /\ r[j] <= MaxWord
  BY <1>1 DEF Keys
<1>5. Less(k, q)
  <2>1. m \in DOMAIN k /\ k[m] < q[m]
    <3>1. DOMAIN k = 1..KeyLen /\ k[m] \in Int
      BY <1>4
    <3> QED
      BY <1>3, <3>1
  <2>2. \A j \in 1..(m - 1) : k[j] = q[j]
    BY <1>3
  <2> QED
    BY <2>1, <2>2 DEF Less
<1>6. ASSUME NEW r \in Keys, Less(k, r), Less(r, q) PROVE FALSE
  <2>1. PICK a \in 1..KeyLen : k[a] < r[a] /\ \A j \in 1..(a - 1) : k[j] = r[j]
    BY <1>4, <1>6 DEF Less
  <2>2. PICK c \in 1..KeyLen : r[c] < q[c] /\ \A j \in 1..(c - 1) : r[j] = q[j]
    BY <1>4, <1>6 DEF Less
  <2>3. a <= m
    <3> SUFFICES ASSUME a > m PROVE FALSE
      BY <1>1
    <3>1. a \in (m + 1)..KeyLen
      BY <1>1
    <3>2. k[a] = MaxWord /\ r[a] <= MaxWord
      BY <1>3, <1>4, <3>1
    <3> QED
      BY <1>1, <1>4, <2>1, <3>2
  <2>4. c >= a
    <3> SUFFICES ASSUME c < a PROVE FALSE
      BY <1>1
    <3>1. c \in 1..(a - 1) /\ c \in 1..(m - 1)
      BY <1>1, <2>3
    <3>2. k[c] = r[c] /\ q[c] = k[c]
      BY <1>3, <2>1, <3>1
    <3> QED
      BY <1>2, <1>4, <2>2, <3>2
  <2>5. CASE a < m
    <3>1. a \in 1..(m - 1) /\ q[a] = k[a]
      BY <1>1, <1>3, <2>5
    <3>2. c > a => r[a] = q[a]
      BY <1>1, <2>2
    <3>3. r[a] <= q[a]
      BY <1>1, <1>2, <1>4, <2>2, <2>4, <3>2
    <3> QED
      BY <1>2, <1>4, <2>1, <3>1, <3>3
  <2>6. CASE a = m
    <3>1. r[m] >= q[m]
      BY <1>2, <1>3, <1>4, <2>1, <2>6
    <3>2. c # m
      BY <1>2, <1>4, <2>2, <3>1
    <3>3. c \in (m + 1)..KeyLen
      BY <1>1, <2>4, <2>6, <3>2
    <3>4. q[c] = MinWord /\ r[c] >= MinWord
      BY <1>1, <1>3, <1>4, <3>3
    <3> QED
      BY <1>1, <1>4, <2>2, <3>4
  <2> QED
    BY <1>1, <2>3, <2>5, <2>6
<1> QED
  BY <1>2, <1>5, <1>6 DEF Follows, q

\* No other key follows, and none if it fails.
LEMMA FollowsIsNext ==
    ASSUME NEW k \in Keys, NEW q \in Keys, Follows(k, q)
    PROVE  NextKey(k) # NoKey /\ q = NextKey(k)
<1>1. KeyLen \in Nat /\ MinWord \in Int /\ MaxWord \in Int
  BY StateQueryAssumption DEF StateQueryAssumption
<1>2. Less(k, q)
  BY DEF Follows
<1>3. NextKey(k) # NoKey
  <2>1. \A r \in Keys : /\ DOMAIN r = 1..KeyLen
                        /\ \A j \in 1..KeyLen : r[j] \in Int /\ r[j] <= MaxWord
    BY <1>1 DEF Keys
  <2>2. PICK j \in 1..KeyLen : k[j] < q[j]
    BY <1>2, <2>1 DEF Less
  <2>3. k[j] # MaxWord
    BY <1>1, <2>1, <2>2
  <2>4. NoKey \notin Keys
    BY StateQueryAssumption DEF StateQueryAssumption, Keys
  <2> QED
    BY <2>3, <2>4, NextKeyIs
<1>4. NextKey(k) \in Keys /\ Follows(k, NextKey(k))
  BY <1>3, NextKeyFollows
<1>5. ~Less(q, NextKey(k)) /\ ~Less(NextKey(k), q)
  BY <1>2, <1>4 DEF Follows
<1> QED
  BY <1>3, <1>4, <1>5, LessTotal

\* f is the walk from k over n keys, which ends in NoKey behind the last key.
Walks(f, k, n) ==
    f = [j \in 1..n |-> IF j = 1 THEN k
                        ELSE IF f[j - 1] = NoKey THEN NoKey ELSE NextKey(f[j - 1])]

\* KeysFrom is this walk.
LEMMA KeysFromWalks ==
    ASSUME NEW k, NEW count \in Nat
    PROVE  Walks(KeysFrom(k, count), k, count + 1)
<1> DEFINE T == {i \in 0..count : \E f : Walks(f, k, i + 1)}
<1>1. 0 \in T
  <2>1. Walks([j \in 1..1 |-> k], k, 0 + 1)
    BY DEF Walks
  <2> QED
    BY <2>1
<1>2. ASSUME NEW i \in 0..count, i < count, i \in T PROVE i + 1 \in T
  <2>1. PICK f : Walks(f, k, i + 1)
    BY <1>2
  <2> DEFINE g == [j \in 1..(i + 1 + 1) |->
                     IF j = i + 1 + 1 THEN IF f[i + 1] = NoKey THEN NoKey ELSE NextKey(f[i + 1])
                     ELSE f[j]]
  <2>2. Walks(g, k, i + 1 + 1)
    <3> HIDE DEF T
    <3> QED
      BY <2>1 DEF Walks
  <2>3. i + 1 \in 0..count
    BY <1>2
  <2> HIDE DEF g
  <2> QED
    BY <2>2, <2>3
<1>3. count \in T
  <2> HIDE DEF T
  <2> QED
    BY <1>1, <1>2, UpTo
<1>4. Walks(CHOOSE f : Walks(f, k, count + 1), k, count + 1)
  BY <1>3
<1>5. KeysFrom(k, count) = CHOOSE f : Walks(f, k, count + 1)
  BY DEF KeysFrom, Walks
<1> QED
  BY <1>4, <1>5

\* A walk that has not ended is a path of keys that follow each other.
LEMMA WalkIsPath ==
    ASSUME NEW k \in Keys, NEW count \in Nat, NEW f, Walks(f, k, count + 1),
           f[count + 1] # NoKey
    PROVE  /\ f \in [1..(count + 1) -> Keys]
           /\ f[1] = k /\ \A j \in 1..count : Follows(f[j], f[j + 1])
<1> DEFINE T == {i \in 0..count : f[i + 1] # NoKey =>
                    /\ \A j \in 1..(i + 1) : f[j] \in Keys
                    /\ \A j \in 1..i : Follows(f[j], f[j + 1])}
<1>1. f[1] = k /\ DOMAIN f = 1..(count + 1)
  BY DEF Walks
<1>2. 0 \in T
  BY <1>1
<1>3. ASSUME NEW i \in 0..count, i < count, i \in T PROVE i + 1 \in T
  <2>1. i + 1 \in 0..count /\ i + 1 + 1 \in 1..(count + 1)
    BY <1>3
  <2>2. SUFFICES ASSUME f[i + 1 + 1] # NoKey
                 PROVE  /\ \A j \in 1..(i + 1 + 1) : f[j] \in Keys
                        /\ \A j \in 1..(i + 1) : Follows(f[j], f[j + 1])
    BY <2>1
  <2>3. f[i + 1] # NoKey /\ f[i + 1 + 1] = NextKey(f[i + 1])
    BY <1>3, <2>1, <2>2 DEF Walks
  <2>4. /\ \A j \in 1..(i + 1) : f[j] \in Keys
        /\ \A j \in 1..i : Follows(f[j], f[j + 1])
    BY <1>3, <2>3
  <2>5. f[i + 1 + 1] \in Keys /\ Follows(f[i + 1], f[i + 1 + 1])
    BY <2>2, <2>3, <2>4, NextKeyFollows
  <2> HIDE DEF T
  <2> QED
    BY <2>4, <2>5
<1>4. count \in T
  <2> HIDE DEF T
  <2> QED
    BY <1>2, <1>3, UpTo
<1>5. \A j \in 1..(count + 1) : f[j] \in Keys
  BY <1>4
<1>6. f \in [1..(count + 1) -> Keys]
  BY <1>5 DEF Walks
<1> QED
  BY <1>1, <1>4, <1>6

\* Every path of keys that follow each other is the walk.
LEMMA PathIsWalk ==
    ASSUME NEW k \in Keys, NEW count \in Nat, NEW f, Walks(f, k, count + 1),
           NEW path \in [1..(count + 1) -> Keys], path[1] = k,
           \A j \in 1..count : Follows(path[j], path[j + 1])
    PROVE  f[count + 1] # NoKey
<1> DEFINE T == {i \in 0..count : f[i + 1] = path[i + 1]}
<1>1. NoKey \notin Keys
  BY StateQueryAssumption DEF StateQueryAssumption, Keys
<1>2. 0 \in T
  BY DEF Walks
<1>3. ASSUME NEW i \in 0..count, i < count, i \in T PROVE i + 1 \in T
  <2>1. /\ i + 1 \in 0..count /\ i + 1 \in 1..count
        /\ i + 1 \in 1..(count + 1) /\ i + 1 + 1 \in 1..(count + 1)
    BY <1>3
  <2>2. path[i + 1] \in Keys /\ path[i + 1 + 1] \in Keys /\ Follows(path[i + 1], path[i + 1 + 1])
    BY <2>1
  <2>3. path[i + 1 + 1] = NextKey(path[i + 1])
    BY <2>2, FollowsIsNext
  <2>4. f[i + 1 + 1] = NextKey(f[i + 1])
    BY <1>1, <1>3, <2>1, <2>2 DEF Walks
  <2> QED
    BY <1>3, <2>1, <2>3, <2>4
<1>4. count \in T
  <2> HIDE DEF T
  <2> QED
    BY <1>2, <1>3, UpTo
<1>5. path[count + 1] \in Keys
  OBVIOUS
<1> QED
  BY <1>1, <1>4, <1>5

\* A range of any length reads consecutive keys.
LEMMA RangeReplayed ==
    ASSUME TypeOK, NEW n \in DOMAIN chain, NEW k \in Keys, NEW count \in Nat \ {0}
    PROVE  RangeReads(n, k, count)
<1> DEFINE keys == KeysFrom(k, count)
           state == StateUpTo(n, chain[n], 1)
           value(q) == IF state[q] = Unset THEN Empty ELSE state[q]
           paths == {path \in [1..(count + 1) -> Keys] :
                       path[1] = k /\ \A j \in 1..count : Follows(path[j], path[j + 1])}
<1>1. Walks(keys, k, count + 1)
  BY KeysFromWalks
<1>2. \A q \in Keys : QueryState(chain, q, n, 1, FALSE) = state[q]
  <2>1. 1 \in DOMAIN chain[n]
    <3>1. chain[n] \in Blocks
      BY DEF TypeOK
    <3> QED
      BY <3>1, BlockIsSeq
  <2> QED
    BY <2>1, BlockReadsReplay
<1>3. KeyRange(k, count, n, 1, FALSE) =
         IF keys[count + 1] = NoKey THEN NoKey
         ELSE [j \in 1..count |->
                 IF QueryState(chain, keys[j], n, 1, FALSE) = Unset THEN Empty
                 ELSE QueryState(chain, keys[j], n, 1, FALSE)]
  BY DEF KeyRange
<1>4. RangeReads(n, k, count) =
         IF paths = {} THEN KeyRange(k, count, n, 1, FALSE) = NoKey
         ELSE \E path \in paths :
                 KeyRange(k, count, n, 1, FALSE) = [j \in 1..count |-> value(path[j])]
  BY DEF RangeReads
<1> HIDE DEF keys, state
<1>5. CASE keys[count + 1] = NoKey
  <2>1. paths = {}
    BY <1>1, <1>5, PathIsWalk
  <2> QED
    BY <1>3, <1>4, <1>5, <2>1
<1>6. CASE keys[count + 1] # NoKey
  <2>1. keys \in paths
    BY <1>1, <1>6, WalkIsPath
  <2>2. \A j \in 1..count : keys[j] \in Keys
    BY <2>1
  <2>3. KeyRange(k, count, n, 1, FALSE) = [j \in 1..count |-> value(keys[j])]
    BY <1>2, <1>3, <1>6, <2>2
  <2> HIDE DEF paths, value
  <2> QED
    BY <1>4, <2>1, <2>3
<1> QED
  BY <1>5, <1>6

\* The ranges that the property is about.
LEMMA RangesReplayed ==
    ASSUME TypeOK
    PROVE  KeyRangeReads
<1>1. \A count \in 1..2 : count \in Nat \ {0}
  OBVIOUS
<1> QED
  BY <1>1, RangeReplayed DEF KeyRangeReads
=============================================================================
