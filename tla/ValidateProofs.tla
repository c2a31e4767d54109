--------------------------- MODULE ValidateProofs ---------------------------
(***************************************************************************)
(* Theorems about the validations of module Validate, for any solution     *)
(* sets, keys and lengths of the chain: typing; that the reads of a        *)
(* validation and of a dry run are those of a replay of the chain and do   *)
(* not change while blocks are finalized; and that a verdict is that of    *)
(* the replay, at the first set that is wrong.                             *)
(***************************************************************************)
EXTENDS Validate, StateQueryProofs

-----------------------------------------------------------------------------
(* One validation.                                                         *)

\* What is validated, and which of its sets, while a validation runs.
Underway ==
    pc # "idle" =>
        /\ target \in [number : Numbers, block : Blocks]
        /\ set \in DOMAIN target.block

ValidateInv == RunTypeOK /\ Underway

\* The predicates of a set are looked up one after the other.
LEMMA SolvesType ==
    ASSUME NEW s \in SolutionSets
    PROVE  Solves[s] \in Seq(DOMAIN Encoded)
BY ValidateAssumption DEF ValidateAssumption

\* Constants of several steps.
LEMMA Bounds ==
    /\ MaxSets \in Nat \ {0} /\ MaxBlocks \in Nat \ {0} /\ MaxGas \in Nat
    /\ 1 \in 1..MaxSets /\ 0 \in 0..MaxGas
    /\ \A s \in SolutionSets : GasOf[s] \in Nat /\ DOMAIN Expects[s] \subseteq Keys
    /\ \A v \in DOMAIN Nodes : Nodes[v] \subseteq DOMAIN Stored
BY StateQueryAssumption, ValidateAssumption DEF StateQueryAssumption, ValidateAssumption

\* The invariant holds initially.
LEMMA InitValidates == RunInit => ValidateInv
<1> SUFFICES ASSUME RunInit PROVE ValidateInv
  OBVIOUS
<1>1. TypeOK
  <2>1. 0 \in 0..MaxBlocks /\ chain \in [0..(0 - 1) -> Blocks]
    <3>1. chain = << >> /\ DOMAIN << >> = 0..(0 - 1)
      BY DEF RunInit, Init
    <3> QED
      BY <3>1, Bounds
  <2> QED
    BY <2>1 DEF TypeOK, RunInit, Init
<1>2. << >> \in Seq(DOMAIN Encoded)
  OBVIOUS
<1> QED
  BY <1>1, <1>2, Bounds DEF RunInit, ValidateInv, RunTypeOK, Underway

\* What a dry run is.
LEMMA DryRunTyped ==
    ASSUME ValidateInv, DryRunBlock \/ DryRunSolutionSet
    PROVE  dry' \in DryRuns
<1>1. PICK h \in 0..MaxBlocks : chain \in [0..(h - 1) -> Blocks]
  BY DEF ValidateInv, RunTypeOK, TypeOK
<1>2. h \in Nat /\ Height = h /\ Height \in Numbers /\ DOMAIN chain \subseteq Numbers
  BY <1>1, Bounds, HeightIs DEF Numbers
<1>3. CASE DryRunBlock
  BY <1>2, <1>3 DEF DryRunBlock, DryRuns
<1>4. CASE DryRunSolutionSet
  <2>1. PICK s \in SolutionSets :
           dry' = [number |-> IF DOMAIN chain = {} THEN 1 ELSE Max(DOMAIN chain),
                   block |-> <<s>>, height |-> Height, kind |-> "set"]
    BY <1>4 DEF DryRunSolutionSet
  <2>2. <<s>> \in Blocks
    <3>1. <<s>> \in [1..1 -> SolutionSets]
      OBVIOUS
    <3> QED
      BY <3>1, Bounds DEF Blocks
  <2>3. (IF DOMAIN chain = {} THEN 1 ELSE Max(DOMAIN chain)) \in Numbers
    <3>1. CASE DOMAIN chain = {}
      BY <3>1, Bounds DEF Numbers
    <3>2. CASE DOMAIN chain # {}
      <4>1. h - 1 \in DOMAIN chain /\ \A n \in DOMAIN chain : h - 1 >= n
        BY <1>1, <1>2, <3>2
      <4>2. Max(DOMAIN chain) \in DOMAIN chain
        BY <4>1 DEF Max
      <4> QED
        BY <1>2, <3>2, <4>2
    <3> QED
      BY <3>1, <3>2
  <2> QED
    BY <1>2, <2>1, <2>2, <2>3 DEF DryRuns
<1> QED
  BY <1>3, <1>4

\* A validation starts at the first set of its block.
LEMMA BeginValidates ==
    ASSUME ValidateInv, TypeOK', NEW n \in Numbers, NEW b \in Blocks, Begin(n, b)
    PROVE  ValidateInv'
<1>1. b[1] \in SolutionSets /\ 1 \in DOMAIN b
  BY BlockIsSeq
<1>2. solve' \in Seq(DOMAIN Encoded)
  BY <1>1, SolvesType DEF Begin
<1>3. target' \in [number : Numbers, block : Blocks] /\ target'.block = b
  BY DEF Begin
<1> QED
  BY <1>1, <1>2, <1>3, Bounds DEF Begin, ValidateInv, RunTypeOK, Underway

\* The two ways to start one.
LEMMA StartsValidate ==
    ASSUME ValidateInv, ValidateBlock \/ ValidateDryRun
    PROVE  ValidateInv'
<1>1. PICK h \in 0..MaxBlocks : chain \in [0..(h - 1) -> Blocks]
  BY DEF ValidateInv, RunTypeOK, TypeOK
<1>2. h \in Nat /\ Height = h /\ Height \in Numbers /\ DOMAIN chain \subseteq Numbers
  BY <1>1, Bounds, HeightIs DEF Numbers
<1>3. CASE ValidateBlock
  <2>1. PICK n \in DOMAIN chain : Begin(n, chain[n])
    BY <1>3 DEF ValidateBlock
  <2>2. n \in Numbers /\ chain[n] \in Blocks
    BY <1>1, <1>2
  <2>3. TypeOK'
    BY <1>3 DEF ValidateBlock, vars, ValidateInv, RunTypeOK, TypeOK
  <2> QED
    BY <2>1, <2>2, <2>3, BeginValidates
<1>4. CASE ValidateDryRun
  <2>1. dry' \in DryRuns
    BY <1>4, DryRunTyped DEF ValidateDryRun
  <2>2. chain' = chain
    BY <1>4 DEF ValidateDryRun, DryRunBlock, DryRunSolutionSet
  <2>3. TypeOK'
    BY <2>1, <2>2 DEF ValidateInv, RunTypeOK, TypeOK
  <2> QED
    BY <1>4, <2>1, <2>3, BeginValidates DEF ValidateDryRun, DryRuns
<1> QED
  BY <1>3, <1>4

\* The steps of a validation.
LEMMA StepsValidate ==
    ASSUME ValidateInv, ValidateStep
    PROVE  ValidateInv'
<1>1. TypeOK'
  BY DEF ValidateStep, QuerySolutionSetPredicates, PredicatesFetched, QueryPredicatesPrograms,
         ProgramsFetched, QueryError, CheckSetPredicates, StateReadError, AddGas, vars,
         ValidateInv, RunTypeOK, TypeOK
<1>2. /\ pc # "idle"
      /\ target \in [number : Numbers, block : Blocks] /\ set \in DOMAIN target.block
      /\ target.block[set] \in SolutionSets
  <2>1. pc # "idle"
    BY DEF ValidateStep, QuerySolutionSetPredicates, PredicatesFetched, QueryPredicatesPrograms,
           ProgramsFetched, QueryError, CheckSetPredicates, StateReadError, AddGas
  <2> QED
    BY <2>1, BlockIsSeq DEF ValidateInv, Underway
<1>3. ASSUME NEW result \in {"valid", "error", "read_error"} \cup Failures, End(result)
      PROVE  ValidateInv'
  BY <1>1, <1>2, <1>3 DEF End, run, ValidateInv, RunTypeOK, Underway
<1>4. CASE QuerySolutionSetPredicates
  <2> DEFINE p == Head(solve)
  <2>1. CASE QueryPredicate(p) # "found"
    <3>1. QueryPredicate(p) \in Failures
      BY <2>1 DEF QueryPredicate, Failures
    <3> QED
      BY <1>3, <1>4, <2>1, <3>1 DEF QuerySolutionSetPredicates
  <2>2. CASE QueryPredicate(p) = "found"
    <3>1. Tail(solve) \in Seq(DOMAIN Encoded)
      BY <1>4 DEF QuerySolutionSetPredicates, ValidateInv, RunTypeOK
    <3>2. Read(Encoded[p], FALSE) \in DOMAIN Nodes
      BY <2>2 DEF QueryPredicate
    <3>3. fetch' \subseteq DOMAIN Stored /\ solve' \in Seq(DOMAIN Encoded)
      BY <1>4, <2>2, <3>1, <3>2, Bounds DEF QuerySolutionSetPredicates, ValidateInv, RunTypeOK
    <3> QED
      BY <1>1, <1>2, <1>4, <2>2, <3>3
         DEF QuerySolutionSetPredicates, ValidateInv, RunTypeOK, Underway
  <2> QED
    BY <2>1, <2>2
<1>5. CASE PredicatesFetched
  BY <1>1, <1>2, <1>5 DEF PredicatesFetched, run, ValidateInv, RunTypeOK, Underway
<1>6. CASE QueryPredicatesPrograms
  <2>1. PICK g \in fetch :
           IF QueryProgram(g) # "found" THEN End(QueryProgram(g))
           ELSE /\ fetch' = fetch \ {g}
                /\ UNCHANGED <<pc, target, set, solve, reads, gas, outcome>>
    BY <1>6 DEF QueryPredicatesPrograms
  <2>2. QueryProgram(g) # "found" => QueryProgram(g) \in Failures
    BY DEF QueryProgram, Failures
  <2>3. CASE QueryProgram(g) # "found"
    BY <1>3, <2>1, <2>2, <2>3
  <2>4. CASE QueryProgram(g) = "found"
    BY <1>1, <1>2, <2>1, <2>4 DEF ValidateInv, RunTypeOK, Underway
  <2> QED
    BY <2>3, <2>4
<1>7. CASE ProgramsFetched
  <2>1. reads' \subseteq Keys
    BY <1>2, <1>7, Bounds DEF ProgramsFetched
  <2> QED
    BY <1>1, <1>2, <1>7, <2>1 DEF ProgramsFetched, ValidateInv, RunTypeOK, Underway
<1>8. CASE QueryError \/ StateReadError
  BY <1>3, <1>8 DEF QueryError, StateReadError
<1>9. CASE CheckSetPredicates
  <2>1. PICK k \in reads :
           IF Read(k, TRUE) # Expects[target.block[set]][k] THEN End("PredicatesError")
           ELSE /\ reads' = reads \ {k}
                /\ UNCHANGED <<pc, target, set, solve, fetch, gas, outcome>>
    BY <1>9 DEF CheckSetPredicates
  <2>2. CASE End("PredicatesError")
    BY <1>3, <2>2 DEF Failures
  <2>3. CASE /\ reads' = reads \ {k}
             /\ UNCHANGED <<pc, target, set, solve, fetch, gas, outcome>>
    BY <1>1, <1>2, <2>3 DEF ValidateInv, RunTypeOK, Underway
  <2> QED
    BY <2>1, <2>2, <2>3
<1>10. CASE AddGas
  <2> DEFINE sum == gas + GasOf[target.block[set]]
  <2>1. sum \in Nat /\ (sum <= MaxGas => sum \in 0..MaxGas)
    BY <1>2, Bounds DEF ValidateInv, RunTypeOK
  <2>2. CASE sum > MaxGas /\ End("GasOverflow")
    BY <1>3, <2>2 DEF Failures
  <2>3. CASE /\ sum <= MaxGas /\ gas' = sum /\ pc' = "done" /\ outcome' = "valid"
             /\ UNCHANGED run
    BY <1>1, <1>2, <2>1, <2>3 DEF run, ValidateInv, RunTypeOK, Underway
  <2>4. CASE /\ sum <= MaxGas /\ set < Len(target.block)
             /\ gas' = sum /\ pc' = "predicates"
             /\ set' = set + 1
             /\ solve' = Solves[target.block[set + 1]]
             /\ UNCHANGED <<target, fetch, reads, outcome>>
    <3>1. target.block \in Blocks
      BY <1>2
    <3>2. set + 1 \in DOMAIN target.block /\ set + 1 \in 1..MaxSets
      BY <1>2, <2>4, <3>1, BlockIsSeq, Bounds
    <3>3. solve' \in Seq(DOMAIN Encoded)
      BY <2>4, <3>1, <3>2, BlockIsSeq, SolvesType
    <3> QED
      BY <1>1, <1>2, <2>1, <2>4, <3>2, <3>3 DEF ValidateInv, RunTypeOK, Underway
  <2> QED
    BY <1>10, <2>2, <2>3, <2>4 DEF AddGas
<1> QED
  BY <1>4, <1>5, <1>6, <1>7, <1>8, <1>9, <1>10 DEF ValidateStep

\* The end of a validation, and blocks that are finalized meanwhile.
LEMMA OthersValidate ==
    ASSUME ValidateInv, Return \/ Finalize
    PROVE  ValidateInv'
<1>1. CASE Return
  <2>1. << >> \in Seq(DOMAIN Encoded)
    OBVIOUS
  <2> QED
    BY <1>1, <2>1, Bounds DEF Return, ValidateInv, RunTypeOK, TypeOK, Underway
<1>2. CASE Finalize
  <2>1. IsChain(chain) /\ FinalizeBlock /\ dry' = dry
    BY <1>2 DEF Finalize, FinalizeBlock, IsChain, ValidateInv, RunTypeOK, TypeOK
  <2>2. TypeOK'
    BY <2>1, FinalizeAppends DEF IsChain, ValidateInv, RunTypeOK, TypeOK
  <2> QED
    BY <1>2, <2>2 DEF Finalize, run, ValidateInv, RunTypeOK, Underway
<1> QED
  BY <1>1, <1>2

\* The invariant holds in every state.
LEMMA ValidateInvariant == RunSpec => []ValidateInv
<1>1. ValidateInv /\ [RunNext]_allVars => ValidateInv'
  <2> SUFFICES ASSUME ValidateInv, [RunNext]_allVars PROVE ValidateInv'
    OBVIOUS
  <2>1. CASE UNCHANGED allVars
    BY <2>1 DEF allVars, vars, run, ValidateInv, RunTypeOK, TypeOK, Underway
  <2>2. CASE RunNext
    BY <2>2, StartsValidate, StepsValidate, OthersValidate DEF RunNext
  <2> QED
    BY <2>1, <2>2
<1> QED
  BY <1>1, InitValidates, PTL DEF RunSpec

-----------------------------------------------------------------------------
\* Every variable keeps its type: the gas in particular stays within its width,
\* since validate_inner adds it with checked_add.
THEOREM ValidateTypeCorrect == RunSpec => []RunTypeOK
<1>1. ValidateInv => RunTypeOK
  BY DEF ValidateInv
<1> QED
  BY <1>1, ValidateInvariant, PTL

\* For chains of any length: whatever parameters the endpoint is given, it
\* answers what a replay of the chain leaves there, and key_range reads
\* consecutive keys.
THEOREM QueriesAreReplays == RunSpec => []ReadsReplay
<1>1. ValidateInv => ReadsReplay
  BY QueriesReplayed, RangesReplayed DEF ValidateInv, RunTypeOK, ReadsReplay
<1> QED
  BY <1>1, ValidateInvariant, PTL

\* A dry run above the tip reads the whole chain followed by its block.
THEOREM DryRunsAreReplays == RunSpec => []DryRunReadsReplay
<1>1. ValidateInv => DryRunReadsReplay
  BY DryRunReplayed DEF ValidateInv, RunTypeOK, DryRunReadsReplay
<1> QED
  BY <1>1, ValidateInvariant, PTL

\* For chains of any length, keys and sets: finalizing a block changes no read
\* that query_state makes for a solution set of a block below it, so that the
\* transactions of one validation read one state.
THEOREM ValidationReadsAreStable == RunSpec => ValidationReadsStable
<1>1. ASSUME ValidateInv, [RunNext]_allVars PROVE [pc = "idle" => ReadsStable]_chain
  <2>1. CASE FinalizeBlock
    <3>1. IsChain(chain)
      BY <1>1 DEF IsChain, ValidateInv, RunTypeOK, TypeOK
    <3>2. ReadsStable
      BY <2>1, <3>1, ReadsAreStable
    <3> QED
      BY <3>2
  <2>2. CASE ~FinalizeBlock
    BY <1>1, <2>2
       DEF RunNext, ValidateBlock, ValidateDryRun, DryRunBlock, DryRunSolutionSet, ValidateStep,
           QuerySolutionSetPredicates, PredicatesFetched, QueryPredicatesPrograms,
           ProgramsFetched, QueryError, CheckSetPredicates, StateReadError, AddGas, Return,
           Finalize, vars, allVars
  <2> QED
    BY <2>1, <2>2
<1> QED
  BY <1>1, ValidateInvariant, PTL DEF RunSpec, ValidationReadsStable

-----------------------------------------------------------------------------
(* The verdict.                                                            *)

\* A predicate, and a program, that the look-ups accept in state post.
PredicateOk(post, p) == post[Registered[p]] # Unset /\ post[Encoded[p]] \in DOMAIN Nodes
ProgramOk(post, g) == post[Stored[g]] \in Codes

\* The programs of predicate p in state post.
Programs(post, p) == Nodes[post[Encoded[p]]]

\* InOrder, for set i of block b on top of state base.
SetInOrder(base, b, i) ==
    LET post == Replay(base, b, i)
    IN  /\ \A j \in DOMAIN Solves[b[i]] :
              /\ PredicateOk(post, Solves[b[i]][j])
              /\ \A g \in Programs(post, Solves[b[i]][j]) : ProgramOk(post, g)
        /\ \A k \in DOMAIN Expects[b[i]] : Replay(base, b, i - 1)[k] = Expects[b[i]][k]
        /\ GasUpTo(b, i) <= MaxGas

\* The state below the target.
Base == StateBelow(chain, IF dry = NoRun THEN target.number ELSE Height)

\* The target is a block of the chain, or the block of the dry run.
TargetInv ==
    /\ pc \in {"idle", "check"} => fetch = {}
    /\ pc = "idle" => dry = NoRun
    /\ pc # "idle" /\ dry = NoRun => target.number \in DOMAIN chain
                                     /\ target.block = chain[target.number]
    /\ pc # "idle" /\ dry # NoRun => /\ target.number = dry.number /\ target.block = dry.block
                                     /\ dry.height <= Height

\* The sets below the one under way are in order, with the gas they spend.
SoFar(base) ==
    /\ \A i \in 1..(set - 1) : SetInOrder(base, target.block, i)
    /\ gas = GasUpTo(target.block, set - 1)

\* The first j predicates of the set are known, with their programs, the others
\* are still to look up.
LookingUp(post, list) ==
    \E j \in 0..Len(list) :
        /\ Len(solve) = Len(list) - j /\ \A l \in 1..Len(solve) : solve[l] = list[j + l]
        /\ \A l \in 1..j : PredicateOk(post, list[l])
        /\ fetch = UNION {Programs(post, list[l]) : l \in 1..j}

\* All of them are known, their programs are unless they are still to fetch.
Fetching(post, list) ==
    /\ \A l \in DOMAIN list :
          /\ PredicateOk(post, list[l])
          /\ \A g \in Programs(post, list[l]) : g \in fetch \/ ProgramOk(post, g)
    /\ \A g \in fetch : \E l \in DOMAIN list : g \in Programs(post, list[l])

\* The values that were read are the expected ones.
Checking(pre, expected) ==
    /\ reads \subseteq DOMAIN expected
    /\ \A k \in DOMAIN expected \ reads : pre[k] = expected[k]

\* The verdict, on top of state base.
Verdict(base) ==
    /\ outcome = "valid" => /\ \A i \in DOMAIN target.block : SetInOrder(base, target.block, i)
                            /\ gas = GasUpTo(target.block, Len(target.block))
    /\ outcome \in Failures => /\ \A i \in 1..(set - 1) : SetInOrder(base, target.block, i)
                               /\ ~SetInOrder(base, target.block, set)

\* What a validation has found out, on top of state base.
Progress(base) ==
    LET post == Replay(base, target.block, set)
        pre == Replay(base, target.block, set - 1)
        s == target.block[set]
    IN  /\ pc \in {"predicates", "programs", "check"} => SoFar(base)
        /\ pc = "predicates" => LookingUp(post, Solves[s])
        /\ pc \in {"programs", "check"} => Fetching(post, Solves[s])
        /\ pc = "check" => Checking(pre, Expects[s])
        /\ pc = "done" => Verdict(base)

VerdictInv ==
    /\ ValidateInv
    /\ TargetInv
    /\ pc # "idle" /\ Settled => Progress(Base)

\* f is the gas that each of the first n sets of b adds up to.
Spends(f, b, n) ==
    f = [j \in 0..n |-> IF j = 0 THEN 0 ELSE f[j - 1] + GasOf[b[j]]]

\* There is such a function.
LEMMA SpendsExists ==
    ASSUME NEW b, NEW n \in Nat
    PROVE  \E f : Spends(f, b, n)
<1> DEFINE T == {i \in 0..n : \E f : Spends(f, b, i)}
<1>1. 0 \in T
  <2>1. Spends([j \in 0..0 |-> 0], b, 0)
    BY DEF Spends
  <2> QED
    BY <2>1
<1>2. ASSUME NEW i \in 0..n, i < n, i \in T PROVE i + 1 \in T
  <2>1. PICK f : Spends(f, b, i)
    BY <1>2
  <2>2. Spends([j \in 0..(i + 1) |-> IF j = i + 1 THEN f[i] + GasOf[b[i + 1]] ELSE f[j]],
               b, i + 1)
    <3> HIDE DEF T
    <3> QED
      BY <2>1 DEF Spends
  <2>3. i + 1 \in 0..n
    BY <1>2
  <2> QED
    BY <2>2, <2>3
<1>3. n \in T
  <2> HIDE DEF T
  <2> QED
    BY <1>1, <1>2, UpTo
<1> QED
  BY <1>3

\* It defines GasUpTo.
LEMMA GasIs ==
    ASSUME NEW b, NEW n \in Nat
    PROVE  \E f : Spends(f, b, n) /\ GasUpTo(b, n) = f[n]
<1>1. Spends(CHOOSE f : Spends(f, b, n), b, n)
  BY SpendsExists
<1>2. GasUpTo(b, n) = (CHOOSE f : Spends(f, b, n))[n]
  BY DEF GasUpTo, Spends
<1> QED
  BY <1>1, <1>2

\* One more set adds its gas.
LEMMA GasSteps ==
    ASSUME NEW b
    PROVE  /\ GasUpTo(b, 0) = 0
           /\ \A i \in Nat : GasUpTo(b, i + 1) = GasUpTo(b, i) + GasOf[b[i + 1]]
<1>1. GasUpTo(b, 0) = 0
  BY GasIs DEF Spends
<1>2. ASSUME NEW i \in Nat
      PROVE  GasUpTo(b, i + 1) = GasUpTo(b, i) + GasOf[b[i + 1]]
  <2>1. PICK f : Spends(f, b, i) /\ GasUpTo(b, i) = f[i]
    BY GasIs
  <2>2. PICK g : Spends(g, b, i + 1) /\ GasUpTo(b, i + 1) = g[i + 1]
    BY GasIs
  <2> DEFINE T == {j \in 0..i : f[j] = g[j]}
  <2>3. 0 \in T
    BY <2>1, <2>2 DEF Spends
  <2>4. ASSUME NEW j \in 0..i, j < i, j \in T PROVE j + 1 \in T
    BY <2>1, <2>2, <2>4 DEF Spends
  <2>5. i \in T
    <3> HIDE DEF T
    <3> QED
      BY <2>3, <2>4, UpTo
  <2>6. g[i + 1] = g[i] + GasOf[b[i + 1]]
    BY <2>2 DEF Spends
  <2> QED
    BY <2>1, <2>2, <2>5, <2>6
<1> QED
  BY <1>1, <1>2

\* The set under way.
LEMMA SetUnderway ==
    ASSUME ValidateInv, pc # "idle"
    PROVE  /\ target.number \in Numbers /\ target.block \in Blocks
           /\ set \in DOMAIN target.block /\ set \in Nat \ {0}
           /\ target.block[set] \in SolutionSets
<1>1. target \in [number : Numbers, block : Blocks] /\ set \in DOMAIN target.block
  BY DEF ValidateInv, Underway
<1>2. target.number \in Numbers /\ target.block \in Blocks
  BY <1>1
<1>3. set \in Nat \ {0}
  BY Bounds DEF ValidateInv, RunTypeOK
<1> QED
  BY <1>1, <1>2, <1>3, BlockIsSeq

\* As long as the state below the target has not changed, a read goes to the
\* state before or after the set under way.
LEMMA ReadsState ==
    ASSUME ValidateInv, TargetInv, pc # "idle", Settled, NEW k \in Keys
    PROVE  /\ Read(k, TRUE) = Replay(Base, target.block, set - 1)[k]
           /\ Read(k, FALSE) = Replay(Base, target.block, set)[k]
<1>1. TypeOK
  BY DEF ValidateInv, RunTypeOK
<1>2. set \in DOMAIN target.block
  BY SetUnderway
<1>3. CASE dry = NoRun
  <2>1. target.number \in DOMAIN chain /\ target.block = chain[target.number]
    BY <1>3 DEF TargetInv
  <2>2. set \in DOMAIN chain[target.number]
    BY <1>2, <2>1
  <2>3. /\ QueryState(chain, k, target.number, set, TRUE)
              = StateUpTo(target.number, chain[target.number], set - 1)[k]
        /\ QueryState(chain, k, target.number, set, FALSE)
              = StateUpTo(target.number, chain[target.number], set)[k]
    BY <1>1, <2>1, <2>2, BlockReadsReplay
  <2> QED
    BY <1>3, <2>1, <2>3 DEF Read, StateUpTo, Base
<1>4. CASE dry # NoRun
  <2>1. target.block = dry.block /\ dry.number >= Height
    BY <1>4 DEF TargetInv, Settled
  <2>2. DryRunReplays
    BY <1>1, DryRunReplayed
  <2>3. /\ DryRead(k, set, TRUE) = StateUpTo(Height, dry.block, set - 1)[k]
        /\ DryRead(k, set, FALSE) = StateUpTo(Height, dry.block, set)[k]
    BY <1>2, <1>4, <2>1, <2>2 DEF DryRunReplays
  <2> QED
    BY <1>4, <2>1, <2>3 DEF Read, StateUpTo, Base
<1> QED
  BY <1>3, <1>4

\* What the look-ups of the set under way find.
LEMMA LookUpsFind ==
    ASSUME ValidateInv, TargetInv, pc # "idle", Settled,
           NEW post, post = Replay(Base, target.block, set)
    PROVE  /\ \A p \in DOMAIN Registered \cap DOMAIN Encoded :
                 /\ QueryPredicate(p) \in {"found"} \cup Failures
                 /\ QueryPredicate(p) = "found" <=> PredicateOk(post, p)
                 /\ Read(Encoded[p], FALSE) = post[Encoded[p]]
           /\ \A g \in DOMAIN Stored :
                 /\ QueryProgram(g) \in {"found"} \cup Failures
                 /\ QueryProgram(g) = "found" <=> ProgramOk(post, g)
<1>1. /\ \A p \in DOMAIN Registered : Registered[p] \in Keys
      /\ \A p \in DOMAIN Encoded : Encoded[p] \in Keys
      /\ \A g \in DOMAIN Stored : Stored[g] \in Keys
      /\ Unset \notin DOMAIN Nodes /\ Unset \notin Codes
  BY ValidateAssumption DEF ValidateAssumption
<1>2. \A k \in Keys : Read(k, FALSE) = post[k]
  BY ReadsState
<1>3. ASSUME NEW p \in DOMAIN Registered \cap DOMAIN Encoded
      PROVE  /\ QueryPredicate(p) \in {"found"} \cup Failures
             /\ QueryPredicate(p) = "found" <=> PredicateOk(post, p)
             /\ Read(Encoded[p], FALSE) = post[Encoded[p]]
  <2>1. Read(Registered[p], FALSE) = post[Registered[p]]
        /\ Read(Encoded[p], FALSE) = post[Encoded[p]]
    BY <1>1, <1>2
  <2> QED
    BY <1>1, <2>1 DEF QueryPredicate, PredicateOk, Failures
<1>4. ASSUME NEW g \in DOMAIN Stored
      PROVE  /\ QueryProgram(g) \in {"found"} \cup Failures
             /\ QueryProgram(g) = "found" <=> ProgramOk(post, g)
  <2>1. Read(Stored[g], FALSE) = post[Stored[g]]
    BY <1>1, <1>2
  <2> QED
    BY <1>1, <2>1 DEF QueryProgram, ProgramOk, Failures
<1> QED
  BY <1>3, <1>4

\* A step of a validation changes nothing of what it stands on.
LEMMA StepsStand ==
    ASSUME ValidateStep
    PROVE  /\ pc # "idle" /\ pc # "done" /\ pc' # "idle"
           /\ UNCHANGED <<chain, dry, target>>
           /\ Base' = Base
           /\ Settled' <=> Settled
<1>1. /\ pc # "idle" /\ pc # "done" /\ pc' # "idle"
      /\ UNCHANGED <<chain, dry, target>>
  BY DEF ValidateStep, QuerySolutionSetPredicates, PredicatesFetched, QueryPredicatesPrograms,
         ProgramsFetched, QueryError, CheckSetPredicates, StateReadError, AddGas, End, vars, run
<1> QED
  BY <1>1 DEF Base, Settled, Height

\* InOrder of module Validate.
LEMMA InOrderIs ==
    ASSUME NEW i
    PROVE  InOrder(i) <=> SetInOrder(Base, target.block, i)
BY DEF InOrder, SetInOrder, PredicateOk, ProgramOk, Programs, StateAt, StateUpTo, Base

\* A failure is that of the set under way.
LEMMA FailureIsVerdict ==
    ASSUME NEW base, NEW result \in Failures, SoFar(base),
           ~SetInOrder(base, target.block, set), End(result)
    PROVE  Progress(base)'
<1>1. pc' = "done" /\ outcome' = result /\ target' = target /\ set' = set
  BY DEF End, run
<1>2. result # "valid"
  BY DEF Failures
<1> QED
  BY <1>1, <1>2 DEF Progress, Verdict, SoFar

\* The look-up of a predicate.
LEMMA PredicateProgress ==
    ASSUME ValidateInv, TargetInv, Settled, NEW base, base = Base, Progress(base),
           QuerySolutionSetPredicates
    PROVE  Progress(base)'
<1> DEFINE b == target.block
           list == Solves[b[set]]
           post == Replay(base, b, set)
           p == Head(solve)
<1>1. pc = "predicates" /\ solve # << >> /\ SoFar(base) /\ LookingUp(post, list)
  BY DEF QuerySolutionSetPredicates, Progress
<1>2. b[set] \in SolutionSets /\ set \in Nat \ {0}
  BY <1>1, SetUnderway
<1>3. list \in Seq(DOMAIN Registered \cap DOMAIN Encoded)
  BY <1>2, ValidateAssumption DEF ValidateAssumption
<1> HIDE DEF post, list
<1>4. PICK j \in 0..Len(list) :
         /\ Len(solve) = Len(list) - j /\ \A l \in 1..Len(solve) : solve[l] = list[j + l]
         /\ \A l \in 1..j : PredicateOk(post, list[l])
         /\ fetch = UNION {Programs(post, list[l]) : l \in 1..j}
  BY <1>1 DEF LookingUp
<1>5. solve \in Seq(DOMAIN Encoded) /\ Len(solve) \in Nat /\ Len(solve) # 0 /\ Len(list) \in Nat
  BY <1>1, <1>3 DEF ValidateInv, RunTypeOK
<1>6. p = list[j + 1] /\ j + 1 \in DOMAIN list /\ p \in DOMAIN Registered \cap DOMAIN Encoded
  <2>1. p = solve[1] /\ 1 \in 1..Len(solve)
    BY <1>5
  <2>2. j + 1 \in 1..Len(list)
    BY <1>4, <1>5
  <2> QED
    BY <1>3, <1>4, <2>1, <2>2
<1> HIDE DEF p
<1>7. /\ QueryPredicate(p) \in {"found"} \cup Failures
      /\ QueryPredicate(p) = "found" <=> PredicateOk(post, p)
      /\ Read(Encoded[p], FALSE) = post[Encoded[p]]
  <2>1. post = Replay(Base, target.block, set) /\ pc # "idle"
    BY <1>1 DEF post
  <2> QED
    BY <1>6, <2>1, LookUpsFind
<1>8. CASE QueryPredicate(p) # "found"
  <2>1. End(QueryPredicate(p)) /\ QueryPredicate(p) \in Failures
    BY <1>7, <1>8 DEF QuerySolutionSetPredicates, p
  <2>2. ~SetInOrder(base, b, set)
    BY <1>6, <1>7, <1>8 DEF SetInOrder, post, list
  <2> QED
    BY <1>1, <2>1, <2>2, FailureIsVerdict
<1>9. CASE QueryPredicate(p) = "found"
  <2>1. /\ solve' = Tail(solve) /\ fetch' = fetch \cup Programs(post, p)
        /\ UNCHANGED <<pc, target, set, reads, gas, outcome>>
    BY <1>7, <1>9 DEF QuerySolutionSetPredicates, Programs, p
  <2>2. /\ Len(solve') = Len(list) - (j + 1)
        /\ \A l \in 1..Len(solve') : solve'[l] = list[j + 1 + l]
    <3>1. Len(solve') = Len(solve) - 1 /\ \A l \in 1..Len(solve') : solve'[l] = solve[l + 1]
      BY <1>5, <2>1
    <3>2. ASSUME NEW l \in 1..Len(solve') PROVE solve'[l] = list[j + 1 + l]
      <4>1. l + 1 \in 1..Len(solve) /\ j + (l + 1) = j + 1 + l
        BY <1>4, <1>5, <3>1
      <4> QED
        BY <1>4, <3>1, <4>1
    <3>3. Len(solve') = Len(list) - (j + 1)
      BY <1>4, <1>5, <3>1
    <3> QED
      BY <3>2, <3>3
  <2>3. \A l \in 1..(j + 1) : PredicateOk(post, list[l])
    <3>1. \A l \in 1..(j + 1) : l \in 1..j \/ l = j + 1
      OBVIOUS
    <3> QED
      BY <1>4, <1>6, <1>7, <1>9, <3>1
  <2>4. fetch' = UNION {Programs(post, list[l]) : l \in 1..(j + 1)}
    <3>1. \A l : l \in 1..(j + 1) <=> l \in 1..j \/ l = j + 1
      OBVIOUS
    <3> QED
      BY <1>4, <1>6, <2>1, <3>1
  <2>5. j + 1 \in 0..Len(list)
    BY <1>4, <1>5, <1>6
  <2>6. LookingUp(post, list)'
    BY <2>1, <2>2, <2>3, <2>4, <2>5 DEF LookingUp, post, list
  <2> QED
    BY <1>1, <2>1, <2>6 DEF Progress, SoFar, post, list
<1> QED
  BY <1>8, <1>9

\* All predicates are known: those of the set, with all their programs.
LEMMA PredicatesProgress ==
    ASSUME ValidateInv, NEW base, Progress(base), PredicatesFetched
    PROVE  Progress(base)'
<1> DEFINE list == Solves[target.block[set]]
           post == Replay(base, target.block, set)
<1>1. /\ pc = "predicates" /\ solve = << >> /\ SoFar(base) /\ LookingUp(post, list)
      /\ pc' = "programs" /\ UNCHANGED <<vars, run, gas, outcome>>
  BY DEF PredicatesFetched, Progress
<1>2. target.block[set] \in SolutionSets
  BY <1>1, SetUnderway
<1>3. Len(list) \in Nat /\ DOMAIN list = 1..Len(list)
  BY <1>2, SolvesType
<1> HIDE DEF post, list
<1>4. Fetching(post, list)
  <2>1. PICK j \in 0..Len(list) :
           /\ Len(solve) = Len(list) - j
           /\ \A l \in 1..j : PredicateOk(post, list[l])
           /\ fetch = UNION {Programs(post, list[l]) : l \in 1..j}
    BY <1>1 DEF LookingUp
  <2>2. Len(solve) = 0
    BY <1>1
  <2>3. j = Len(list)
    <3>1. \A n \in Nat : \A i \in 0..n : 0 = n - i => i = n
      OBVIOUS
    <3> QED
      BY <1>3, <2>1, <2>2, <3>1, Zenon
  <2> QED
    BY <1>3, <2>1, <2>3 DEF Fetching
<1>5. Fetching(post, list)'
  BY <1>1, <1>4 DEF Fetching, run, post, list
<1> QED
  BY <1>1, <1>5 DEF Progress, SoFar, run, post, list

\* The look-up of a program.
LEMMA ProgramProgress ==
    ASSUME ValidateInv, TargetInv, Settled, NEW base, base = Base, Progress(base),
           QueryPredicatesPrograms
    PROVE  Progress(base)'
<1> DEFINE b == target.block
           list == Solves[b[set]]
           post == Replay(base, b, set)
<1>1. pc = "programs" /\ SoFar(base) /\ Fetching(post, list)
  BY DEF QueryPredicatesPrograms, Progress
<1>2. PICK g \in fetch :
         IF QueryProgram(g) # "found" THEN End(QueryProgram(g))
         ELSE /\ fetch' = fetch \ {g}
              /\ UNCHANGED <<pc, target, set, solve, reads, gas, outcome>>
  BY DEF QueryPredicatesPrograms
<1>3. /\ QueryProgram(g) \in {"found"} \cup Failures
      /\ QueryProgram(g) = "found" <=> ProgramOk(post, g)
  <2>1. g \in DOMAIN Stored /\ pc # "idle"
    BY <1>1 DEF ValidateInv, RunTypeOK
  <2> QED
    BY <2>1, LookUpsFind
<1>4. CASE QueryProgram(g) # "found"
  <2>1. PICK l \in DOMAIN list : g \in Programs(post, list[l])
    BY <1>1 DEF Fetching
  <2>2. ~SetInOrder(base, b, set)
    BY <1>3, <1>4, <2>1 DEF SetInOrder
  <2> QED
    BY <1>1, <1>2, <1>3, <1>4, <2>2, FailureIsVerdict
<1>5. CASE QueryProgram(g) = "found"
  <2>1. /\ fetch' = fetch \ {g}
        /\ UNCHANGED <<pc, target, set, solve, reads, gas, outcome>>
    BY <1>2, <1>5
  <2>2. Fetching(post, list)'
    <3> HIDE DEF post, list
    <3>1. post' = post /\ list' = list
      BY <2>1 DEF post, list
    <3>2. ProgramOk(post, g)
      BY <1>3, <1>5
    <3> QED
      BY <1>1, <2>1, <3>1, <3>2 DEF Fetching
  <2> QED
    BY <1>1, <2>1, <2>2 DEF Progress, SoFar
<1> QED
  BY <1>4, <1>5

\* All programs are known: the check begins.
LEMMA ProgramsProgress ==
    ASSUME NEW base, Progress(base), ProgramsFetched
    PROVE  Progress(base)'
<1> DEFINE s == target.block[set]
           post == Replay(base, target.block, set)
           pre == Replay(base, target.block, set - 1)
<1>1. /\ SoFar(base) /\ Fetching(post, Solves[s])
      /\ pc' = "check" /\ reads' = DOMAIN Expects[s]
      /\ UNCHANGED <<vars, target, set, solve, fetch, gas, outcome>>
  BY DEF ProgramsFetched, Progress
<1>2. Fetching(post, Solves[s])'
  BY <1>1 DEF Fetching
<1>3. Checking(pre, Expects[s])'
  BY <1>1 DEF Checking
<1> QED
  BY <1>1, <1>2, <1>3 DEF Progress, SoFar

\* A read of the check.
LEMMA CheckProgress ==
    ASSUME ValidateInv, TargetInv, Settled, NEW base, base = Base, Progress(base),
           CheckSetPredicates
    PROVE  Progress(base)'
<1> DEFINE s == target.block[set]
           post == Replay(base, target.block, set)
           pre == Replay(base, target.block, set - 1)
<1>1. pc = "check" /\ SoFar(base) /\ Fetching(post, Solves[s]) /\ Checking(pre, Expects[s])
  BY DEF CheckSetPredicates, Progress
<1>2. PICK k \in reads :
         IF Read(k, TRUE) # Expects[s][k] THEN End("PredicatesError")
         ELSE /\ reads' = reads \ {k}
              /\ UNCHANGED <<pc, target, set, solve, fetch, gas, outcome>>
  BY DEF CheckSetPredicates
<1>3. Read(k, TRUE) = pre[k] /\ k \in DOMAIN Expects[s]
  <2>1. k \in Keys /\ pc # "idle"
    BY <1>1 DEF ValidateInv, RunTypeOK
  <2>2. k \in DOMAIN Expects[s]
    BY <1>1 DEF Checking
  <2> QED
    BY <2>1, <2>2, ReadsState
<1>4. CASE Read(k, TRUE) # Expects[s][k]
  <2>1. ~SetInOrder(base, target.block, set)
    BY <1>3, <1>4 DEF SetInOrder
  <2>2. "PredicatesError" \in Failures
    BY DEF Failures
  <2> QED
    BY <1>1, <1>2, <1>4, <2>1, <2>2, FailureIsVerdict
<1>5. CASE Read(k, TRUE) = Expects[s][k]
  <2>1. reads' = reads \ {k} /\ UNCHANGED <<pc, target, set, solve, fetch, gas, outcome>>
    BY <1>2, <1>5
  <2>2. Fetching(post, Solves[s])'
    BY <1>1, <2>1 DEF Fetching
  <2>3. Checking(pre, Expects[s])'
    <3> HIDE DEF pre
    <3>1. pre' = pre
      BY <2>1 DEF pre
    <3> QED
      BY <1>1, <1>3, <1>5, <2>1, <3>1 DEF Checking
  <2> QED
    BY <1>1, <2>1, <2>2, <2>3 DEF Progress, SoFar
<1> QED
  BY <1>4, <1>5

\* At the start of a set nothing is looked up.
LEMMA NoneLookedUp ==
    ASSUME NEW post, NEW list, Len(list) \in Nat
    PROVE  \E j \in 0..Len(list) :
              /\ Len(list) = Len(list) - j /\ \A l \in 1..Len(list) : list[l] = list[j + l]
              /\ \A l \in 1..j : PredicateOk(post, list[l])
              /\ {} = UNION {Programs(post, list[l]) : l \in 1..j}
<1>1. \A n \in Nat : 0 \in 0..n /\ n = n - 0
  OBVIOUS
<1>2. 0 \in 0..Len(list) /\ Len(list) = Len(list) - 0
  BY <1>1, Zenon
<1>3. \A l \in 1..Len(list) : list[l] = list[0 + l]
  OBVIOUS
<1>4. 1..0 = {}
  OBVIOUS
<1>5. (\A l \in 1..0 : PredicateOk(post, list[l]))
      /\ {} = UNION {Programs(post, list[l]) : l \in 1..0}
  BY <1>4
<1> QED
  BY <1>2, <1>3, <1>5

\* The set has been checked: its gas is added, and the next set begins.
LEMMA GasProgress ==
    ASSUME ValidateInv, TargetInv, NEW base, Progress(base), AddGas
    PROVE  Progress(base)'
<1> DEFINE b == target.block
           s == b[set]
           sum == gas + GasOf[s]
           post == Replay(base, b, set)
           pre == Replay(base, b, set - 1)
<1>1. /\ pc = "check" /\ reads = {} /\ fetch = {} /\ SoFar(base)
      /\ Fetching(post, Solves[s]) /\ Checking(pre, Expects[s])
  BY DEF AddGas, Progress, TargetInv
<1>2. /\ set \in Nat \ {0} /\ set - 1 \in Nat /\ (set - 1) + 1 = set
      /\ b \in Blocks /\ set \in DOMAIN b /\ s \in SolutionSets
  BY <1>1, SetUnderway
<1>3. PICK m \in Nat : Len(b) = m /\ DOMAIN b = 1..m
  BY <1>2, Bounds, BlockIsSeq
<1>4. GasUpTo(b, set) = sum
  <2>1. GasUpTo(b, (set - 1) + 1) = GasUpTo(b, set - 1) + GasOf[b[(set - 1) + 1]]
    BY <1>2, GasSteps
  <2> QED
    BY <1>1, <1>2, <2>1 DEF SoFar
<1>5. sum \in Nat /\ MaxGas \in Nat
  BY <1>2, Bounds DEF ValidateInv, RunTypeOK
<1>6. SetInOrder(base, b, set) <=> sum <= MaxGas
  <2>1. \A j \in DOMAIN Solves[s] :
           /\ PredicateOk(post, Solves[s][j])
           /\ \A g \in Programs(post, Solves[s][j]) : ProgramOk(post, g)
    BY <1>1 DEF Fetching
  <2>2. \A k \in DOMAIN Expects[s] : pre[k] = Expects[s][k]
    BY <1>1 DEF Checking
  <2> QED
    BY <1>4, <2>1, <2>2 DEF SetInOrder
<1> HIDE DEF sum, b
<1>7. CASE sum > MaxGas /\ End("GasOverflow")
  <2>1. ~SetInOrder(base, target.block, set)
    BY <1>5, <1>6, <1>7 DEF b
  <2>2. "GasOverflow" \in Failures
    BY DEF Failures
  <2> QED
    BY <1>1, <1>7, <2>1, <2>2, FailureIsVerdict
<1>8. CASE /\ sum <= MaxGas /\ set = Len(b)
           /\ gas' = sum /\ pc' = "done" /\ outcome' = "valid" /\ UNCHANGED run
  <2>1. \A i \in DOMAIN b : i \in 1..(set - 1) \/ i = set
    BY <1>2, <1>3, <1>8
  <2>2. \A i \in DOMAIN b : SetInOrder(base, b, i)
    BY <1>1, <1>6, <1>8, <2>1 DEF SoFar, b
  <2>3. b' = b /\ gas' = GasUpTo(b, Len(b))
    BY <1>4, <1>8 DEF b, run
  <2>4. outcome' \notin Failures
    BY <1>8 DEF Failures
  <2>5. Verdict(base)'
    BY <2>2, <2>3, <2>4 DEF Verdict, b
  <2> QED
    BY <1>8, <2>5 DEF Progress
<1>9. CASE /\ sum <= MaxGas /\ set < Len(b)
           /\ gas' = sum /\ pc' = "predicates" /\ set' = set + 1
           /\ solve' = Solves[b[set + 1]]
           /\ UNCHANGED <<target, fetch, reads, outcome>>
  <2>1. \A i \in 1..set : i \in 1..(set - 1) \/ i = set
    BY <1>2
  <2>2. \A i \in 1..set : SetInOrder(base, b, i)
    BY <1>1, <1>6, <1>9, <2>1 DEF SoFar, b
  <2>3. b' = b /\ set' - 1 = set
    BY <1>2, <1>9 DEF b
  <2>4. SoFar(base)'
    BY <1>4, <1>9, <2>2, <2>3 DEF SoFar, b
  <2>5. set + 1 \in DOMAIN b
    BY <1>2, <1>3, <1>9
  <2>6. Len(Solves[b[set + 1]]) \in Nat
    <3>1. b[set + 1] \in SolutionSets
      BY <1>2, <2>5, BlockIsSeq
    <3>2. Solves[b[set + 1]] \in Seq(DOMAIN Encoded)
      BY <3>1, SolvesType
    <3> QED
      BY <3>2
  <2>7. LookingUp(post, Solves[b[set]])'
    BY <1>1, <1>9, <2>3, <2>6, NoneLookedUp DEF LookingUp
  <2> QED
    BY <1>9, <2>4, <2>7 DEF Progress, b
<1> QED
  BY <1>7, <1>8, <1>9 DEF AddGas, sum, b

\* FinalizeBlock makes the chain one block longer.
LEMMA HeightGrows ==
    ASSUME IsChain(chain), FinalizeBlock
    PROVE  Height \in Nat /\ Height' = Height + 1 /\ DOMAIN chain = 0..(Height - 1)
<1>1. PICK h \in 0..MaxBlocks : chain \in [0..(h - 1) -> Blocks]
  BY DEF IsChain
<1>2. h \in Nat /\ Height = h
  BY <1>1, Bounds, HeightIs
<1>3. DOMAIN chain' = 0..h
  BY <1>2 DEF FinalizeBlock
<1>4. Height' = h + 1
  BY <1>2, <1>3, FS_Interval DEF Height
<1> QED
  BY <1>1, <1>2, <1>4

\* The target stays what it is.
LEMMA TargetStands ==
    ASSUME ValidateInv, TargetInv, RunNext
    PROVE  TargetInv'
<1>1. IsChain(chain) /\ Height \in Nat
  <2>1. PICK h \in 0..MaxBlocks : chain \in [0..(h - 1) -> Blocks]
    BY DEF ValidateInv, RunTypeOK, TypeOK
  <2>2. DOMAIN chain = 0..(h - 1) /\ h \in Nat
    BY <2>1, Bounds
  <2> QED
    BY <2>1, <2>2, HeightIs DEF IsChain
<1>2. CASE ValidateBlock
  <2>1. PICK n \in DOMAIN chain : Begin(n, chain[n])
    BY <1>2 DEF ValidateBlock
  <2>2. /\ pc' = "predicates" /\ target'.number = n /\ target'.block = chain[n]
        /\ chain' = chain /\ dry' = NoRun
    BY <1>2, <2>1 DEF ValidateBlock, Begin, vars, TargetInv
  <2> QED
    BY <2>2 DEF TargetInv
<1>3. CASE ValidateDryRun
  <2>1. /\ pc' = "predicates" /\ target'.number = dry'.number /\ target'.block = dry'.block
        /\ chain' = chain
    BY <1>3 DEF ValidateDryRun, DryRunBlock, DryRunSolutionSet, Begin
  <2>2. dry' # NoRun
    <3>1. dry' \in DryRuns
      BY <1>3, DryRunTyped DEF ValidateDryRun
    <3> QED
      BY <3>1, DryRunAssumption
  <2>3. dry'.height = Height
    BY <1>3 DEF ValidateDryRun, DryRunBlock, DryRunSolutionSet
  <2>4. Height' = Height
    BY <2>1 DEF Height
  <2> QED
    BY <1>1, <2>1, <2>2, <2>3, <2>4 DEF TargetInv
<1>4. CASE ValidateStep
  <2>1. pc # "idle" /\ pc' # "idle" /\ UNCHANGED <<chain, dry, target>> /\ Height' = Height
    BY <1>4, StepsStand DEF Height
  <2>2. pc' = "check" => fetch' = {}
    BY <1>4 DEF ValidateStep, QuerySolutionSetPredicates, PredicatesFetched,
         QueryPredicatesPrograms, ProgramsFetched, QueryError, CheckSetPredicates,
         StateReadError, AddGas, End, vars, run, TargetInv
  <2> QED
    BY <2>1, <2>2 DEF TargetInv
<1>5. CASE Return
  BY <1>5 DEF Return, TargetInv
<1>6. CASE Finalize
  <2>1. FinalizeBlock /\ UNCHANGED <<dry, target, pc, fetch>>
    BY <1>6 DEF Finalize, FinalizeBlock, run
  <2>2. /\ DOMAIN chain \subseteq DOMAIN chain'
        /\ \A n \in DOMAIN chain : chain'[n] = chain[n]
    BY <1>1, <2>1, FinalizeAppends
  <2>3. dry # NoRun => dry.height \in Nat
    BY Bounds DEF ValidateInv, RunTypeOK, TypeOK, DryRuns, Numbers
  <2>4. Height' = Height + 1
    BY <1>1, <2>1, HeightGrows
  <2>5. dry # NoRun /\ dry.height <= Height => dry.height <= Height'
    BY <1>1, <2>3, <2>4
  <2> QED
    BY <2>1, <2>2, <2>5 DEF TargetInv
<1> QED
  BY <1>2, <1>3, <1>4, <1>5, <1>6 DEF RunNext

\* The verdict's invariant holds initially, and a validation starts with it.
LEMMA VerdictStarts ==
    ASSUME ValidateInv, TargetInv, ValidateBlock \/ ValidateDryRun, NEW base
    PROVE  Progress(base)'
<1>1. PICK n \in Numbers, b \in Blocks : Begin(n, b)
  <2>1. CASE ValidateBlock
    <3>1. \A n \in DOMAIN chain : n \in Numbers /\ chain[n] \in Blocks
      <4>1. PICK h \in 0..MaxBlocks : chain \in [0..(h - 1) -> Blocks]
        BY DEF ValidateInv, RunTypeOK, TypeOK
      <4> QED
        BY <4>1, Bounds DEF Numbers
    <3> QED
      BY <2>1, <3>1 DEF ValidateBlock
  <2>2. CASE ValidateDryRun
    <3>1. dry' \in DryRuns
      BY <2>2, DryRunTyped DEF ValidateDryRun
    <3> QED
      BY <2>2, <3>1 DEF ValidateDryRun, DryRuns
  <2> QED
    BY <2>1, <2>2
<1>2. /\ pc' = "predicates" /\ set' = 1 /\ target'.block = b /\ gas' = 0
      /\ solve' = Solves[b[1]] /\ fetch' = {}
  BY <1>1 DEF Begin, TargetInv
<1>3. SoFar(base)'
  <2>1. \A i \in 1..(1 - 1) : SetInOrder(base, b, i)
    OBVIOUS
  <2>2. GasUpTo(b, 1 - 1) = 0
    BY GasSteps
  <2> QED
    BY <1>2, <2>1, <2>2 DEF SoFar
<1>4. Len(Solves[b[1]]) \in Nat
  <2>1. b[1] \in SolutionSets
    BY BlockIsSeq
  <2>2. Solves[b[1]] \in Seq(DOMAIN Encoded)
    BY <2>1, SolvesType
  <2> QED
    BY <2>2
<1>5. LookingUp(Replay(base, target.block, set), Solves[target.block[set]])'
  BY <1>2, <1>4, NoneLookedUp DEF LookingUp
<1> QED
  BY <1>2, <1>3, <1>5 DEF Progress

\* A block that is finalized meanwhile does not change what a verdict stands on.
LEMMA VerdictStands ==
    ASSUME ValidateInv, TargetInv, Finalize, pc # "idle", Settled'
    PROVE  Settled /\ Base' = Base
<1>1. FinalizeBlock /\ UNCHANGED <<dry, target>>
  BY DEF Finalize, FinalizeBlock, run
<1>2. IsChain(chain)
  BY DEF IsChain, ValidateInv, RunTypeOK, TypeOK
<1>3. Height \in Nat /\ Height' = Height + 1 /\ DOMAIN chain = 0..(Height - 1)
  BY <1>1, <1>2, HeightGrows
<1>4. dry = NoRun
  <2> SUFFICES ASSUME dry # NoRun PROVE FALSE
    OBVIOUS
  <2>1. dry.height <= Height /\ dry.height = Height' /\ dry.height \in Nat
    BY <1>1, Bounds DEF TargetInv, Settled, ValidateInv, RunTypeOK, TypeOK, DryRuns, Numbers
  <2> QED
    BY <1>3, <2>1
<1>5. target.number \in DOMAIN chain
  BY <1>4 DEF TargetInv
<1>6. \A m \in 0..(target.number - 1) : chain'[m] = chain[m]
  <2>1. \A m \in 0..(target.number - 1) : m \in DOMAIN chain
    BY <1>3, <1>5
  <2> QED
    BY <1>1, <1>2, <2>1, FinalizeAppends
<1>7. target.number \in Nat
  BY <1>3, <1>5
<1>8. StateBelow(chain', target.number) = StateBelow(chain, target.number)
  BY <1>6, <1>7, BelowDepends
<1> QED
  BY <1>1, <1>4, <1>8 DEF Settled, Base

\* Nor does anything else that leaves the validation alone.
LEMMA ProgressStands ==
    ASSUME NEW base, Progress(base), UNCHANGED <<run, pc, gas, outcome>>
    PROVE  Progress(base)'
<1> DEFINE s == target.block[set]
           post == Replay(base, target.block, set)
           pre == Replay(base, target.block, set - 1)
<1>1. UNCHANGED <<target, set, solve, fetch, reads, pc, gas, outcome>>
  BY DEF run
<1>2. SoFar(base)' <=> SoFar(base)
  BY <1>1 DEF SoFar
<1>3. LookingUp(post, Solves[s])' <=> LookingUp(post, Solves[s])
  BY <1>1 DEF LookingUp
<1>4. Fetching(post, Solves[s])' <=> Fetching(post, Solves[s])
  BY <1>1 DEF Fetching
<1>5. Checking(pre, Expects[s])' <=> Checking(pre, Expects[s])
  BY <1>1 DEF Checking
<1>6. Verdict(base)' <=> Verdict(base)
  BY <1>1 DEF Verdict
<1> QED
  BY <1>1, <1>2, <1>3, <1>4, <1>5, <1>6 DEF Progress

\* The invariant of the verdict holds in every state.
LEMMA VerdictInvariant == RunSpec => []VerdictInv
<1>1. RunInit => VerdictInv
  BY InitValidates DEF RunInit, Init, TargetInv, VerdictInv
<1>2. VerdictInv /\ [RunNext]_allVars => VerdictInv'
  <2> SUFFICES ASSUME VerdictInv, RunNext \/ UNCHANGED allVars PROVE VerdictInv'
    OBVIOUS
  <2>1. ValidateInv /\ TargetInv
    BY DEF VerdictInv
  <2>2. CASE UNCHANGED allVars
    <3>1. ValidateInv' /\ TargetInv'
      BY <2>1, <2>2 DEF allVars, vars, run, ValidateInv, RunTypeOK, TypeOK, Underway, TargetInv,
                        Height
    <3>2. Base' = Base /\ (Settled' <=> Settled)
      BY <2>2 DEF allVars, vars, run, Base, Settled, Height
    <3>3. PICK base : base = Base
      OBVIOUS
    <3>4. UNCHANGED <<run, pc, gas, outcome>>
      BY <2>2 DEF allVars
    <3>5. ASSUME pc' # "idle", Settled' PROVE Progress(Base)'
      <4>1. Progress(base)
        BY <3>2, <3>3, <3>4, <3>5 DEF VerdictInv
      <4> QED
        BY <3>2, <3>3, <3>4, <4>1, ProgressStands
    <3> QED
      BY <3>1, <3>5 DEF VerdictInv
  <2>3. CASE RunNext
    <3>1. ValidateInv'
      BY <2>1, <2>3, StartsValidate, StepsValidate, OthersValidate DEF RunNext
    <3>2. TargetInv'
      BY <2>1, <2>3, TargetStands
    <3>3. ASSUME pc' # "idle", Settled' PROVE Progress(Base)'
      <4>1. CASE ValidateBlock \/ ValidateDryRun
        BY <2>1, <4>1, VerdictStarts
      <4>2. CASE ValidateStep
        <5>1. PICK base : base = Base
          OBVIOUS
        <5>2. Base' = base /\ Settled /\ pc # "idle"
          BY <3>3, <4>2, <5>1, StepsStand
        <5>3. Progress(base)
          BY <5>1, <5>2 DEF VerdictInv
        <5>4. CASE QueryError \/ StateReadError
          BY <5>4 DEF QueryError, StateReadError, End, Progress, Verdict, Failures
        <5>5. Progress(base)'
          BY <2>1, <4>2, <5>1, <5>2, <5>3, <5>4, PredicateProgress, PredicatesProgress,
             ProgramProgress, ProgramsProgress, CheckProgress, GasProgress DEF ValidateStep
        <5> QED
          BY <5>2, <5>5
      <4>3. CASE Return
        BY <3>3, <4>3 DEF Return
      <4>4. CASE Finalize
        <5>1. UNCHANGED <<run, pc, gas, outcome>> /\ pc # "idle"
          BY <3>3, <4>4 DEF Finalize
        <5>2. Settled /\ Base' = Base
          BY <2>1, <3>3, <4>4, <5>1, VerdictStands
        <5>3. PICK base : base = Base
          OBVIOUS
        <5>4. Progress(base)
          BY <5>1, <5>2, <5>3 DEF VerdictInv
        <5> QED
          BY <5>1, <5>2, <5>3, <5>4, ProgressStands
      <4> QED
        BY <2>3, <4>1, <4>2, <4>3, <4>4 DEF RunNext
    <3> QED
      BY <3>1, <3>2, <3>3 DEF VerdictInv
  <2> QED
    BY <2>2, <2>3
<1> QED
  BY <1>1, <1>2, PTL DEF RunSpec

\* For chains of any length, and any predicates, programs and gas: a block is
\* found valid exactly if replaying the chain below it finds all its sets in
\* order, and a failure is that of the first set that is not, although every
\* look-up and read of validate_inner is a transaction of its own and blocks are
\* finalized in between.
THEOREM VerdictsAreReplays == RunSpec => []VerdictIsReplay
<1>1. VerdictInv => VerdictIsReplay
  <2> DEFINE wrong == {i \in DOMAIN target.block : ~InOrder(i)}
  <2> SUFFICES ASSUME VerdictInv, pc = "done", Settled
               PROVE  /\ outcome = "valid" => /\ wrong = {}
                                              /\ gas = GasUpTo(target.block, Len(target.block))
                      /\ outcome \in Failures => wrong # {} /\ set = Min(wrong)
    BY DEF VerdictIsReplay
  <2>1. Verdict(Base)
    BY DEF VerdictInv, Progress
  <2>2. wrong = {i \in DOMAIN target.block : ~SetInOrder(Base, target.block, i)}
    BY InOrderIs
  <2> HIDE DEF wrong
  <2>3. ASSUME outcome \in Failures PROVE wrong # {} /\ set = Min(wrong)
    <3>1. set \in DOMAIN target.block /\ target.block \in Blocks
      BY SetUnderway DEF VerdictInv
    <3>2. DOMAIN target.block \subseteq Nat \ {0}
      <4>1. DOMAIN target.block = 1..Len(target.block) /\ Len(target.block) \in 1..MaxSets
        BY <3>1, BlockIsSeq
      <4>2. MaxSets \in Nat
        BY Bounds
      <4> QED
        BY <4>1, <4>2
    <3>3. set \in wrong
      BY <2>1, <2>2, <2>3, <3>1 DEF Verdict
    <3>4. \A i \in wrong : set <= i
      <4> SUFFICES ASSUME NEW i \in wrong, ~(set <= i) PROVE FALSE
        OBVIOUS
      <4>1. i \in 1..(set - 1)
        BY <2>2, <3>1, <3>2
      <4> QED
        BY <2>1, <2>2, <2>3, <4>1 DEF Verdict
    <3>5. Min(wrong) \in wrong /\ Min(wrong) <= set
      BY <3>3, <3>4 DEF Min
    <3>6. set \in Nat /\ Min(wrong) \in Nat
      BY <2>2, <3>2, <3>3, <3>5
    <3> QED
      BY <3>3, <3>4, <3>5, <3>6
  <2> QED
    BY <2>1, <2>2, <2>3 DEF Verdict
<1> QED
  BY <1>1, VerdictInvariant, PTL
=============================================================================
