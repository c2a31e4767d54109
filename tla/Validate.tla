------------------------------ MODULE Validate ------------------------------
(***************************************************************************)
(* One validation (validate_inner): of a block of the chain, or of the     *)
(* block of a dry run.  Set by set it looks up the predicates that the set *)
(* solves and the programs of these predicates in the two registries,      *)
(* which are contracts whose state is read like any other, then has the    *)
(* predicates checked, and adds up the gas.  Every look-up and every read  *)
(* of a check is a transaction of its own; the relayer finalizes further   *)
(* blocks in between.                                                      *)
(*                                                                         *)
(* The check of the predicates (check_set_predicates) is a library.  Here  *)
(* it reads the keys of Expects[s] in the state before set s, in any       *)
(* order, and fails at a value other than the expected one.                *)
(***************************************************************************)
EXTENDS StateQuery

CONSTANTS
    Solves,      \* Solves[s]: the predicates that set s solves, in order
    Registered,  \* Registered[p]: the key that says p belongs to its contract
    Encoded,     \* Encoded[p]: the key of p in the contract registry
    Stored,      \* Stored[g]: the key of program g in the program registry
    Nodes,       \* Nodes[v]: the programs of the predicate that v decodes to;
                 \* other values have no valid length or do not decode
    Codes,       \* the values with a valid program length
    Expects,     \* Expects[s]: what the check of s expects to read, by key
    GasOf,       \* GasOf[s]: the gas that the check of s spends
    MaxGas       \* the largest gas (u64)

ASSUME ValidateAssumption ==
    /\ DOMAIN Solves = SolutionSets
    /\ \A s \in SolutionSets : Solves[s] \in Seq(DOMAIN Registered \cap DOMAIN Encoded)
    /\ \A p \in DOMAIN Registered : Registered[p] \in Keys
    /\ \A p \in DOMAIN Encoded : Encoded[p] \in Keys
    /\ \A g \in DOMAIN Stored : Stored[g] \in Keys
    /\ \A v \in DOMAIN Nodes : Nodes[v] \subseteq DOMAIN Stored
    /\ Unset \notin DOMAIN Nodes \cup Codes
    /\ DOMAIN Expects = SolutionSets
    /\ \A s \in SolutionSets : DOMAIN Expects[s] \subseteq Keys
    /\ GasOf \in [SolutionSets -> 0..MaxGas]
    /\ MaxGas \in Nat

VARIABLES
    target,   \* number and block that are validated, or NoRun
    pc,       \* "idle", "predicates", "programs", "check" or "done"
    set,      \* the index of the solution set
    solve,    \* the predicates still to look up
    fetch,    \* the programs still to look up
    reads,    \* the keys the check has still to read
    gas,      \* total_gas
    outcome   \* the outcome of the last validation

run == <<target, set, solve, fetch, reads>>
allVars == <<vars, run, pc, gas, outcome>>

\* Why a set is invalid (ValidateFailure).
Failures ==
    {"MissingPredicate", "InvalidPredicate", "MissingProgram", "InvalidProgram",
     "PredicatesError", "GasOverflow"}

\* The type invariant: the gas never leaves its width.
RunTypeOK ==
    /\ TypeOK
    /\ target \in {NoRun} \cup [number : Numbers, block : Blocks]
    /\ pc \in {"idle", "predicates", "programs", "check", "done"}
    /\ set \in 1..MaxSets
    /\ solve \in Seq(DOMAIN Encoded)
    /\ fetch \subseteq DOMAIN Stored
    /\ reads \subseteq Keys
    /\ gas \in 0..MaxGas
    /\ outcome \in {"none", "valid", "error", "read_error"} \cup Failures

RunInit ==
    /\ Init
    /\ target = NoRun /\ pc = "idle" /\ set = 1
    /\ solve = << >> /\ fetch = {} /\ reads = {}
    /\ gas = 0 /\ outcome = "none"

-----------------------------------------------------------------------------
\* Where a read goes: to the chain, or through the cascade of a dry run.
Read(k, pre) ==
    IF dry = NoRun THEN QueryState(chain, k, target.number, set, pre)
    ELSE DryRead(k, set, pre)

\* The start of a validation, at its first set.
Begin(n, b) ==
    /\ pc = "idle"
    /\ pc' = "predicates"
    /\ target' = [number |-> n, block |-> b]
    /\ set' = 1
    /\ solve' = Solves[b[1]]
    /\ gas' = 0
    /\ UNCHANGED <<fetch, reads, outcome>>

End(result) ==
    /\ pc' = "done"
    /\ outcome' = result
    /\ UNCHANGED <<run, gas>>

\* validate: a block of the chain.
ValidateBlock ==
    /\ \E n \in DOMAIN chain : Begin(n, chain[n])
    /\ UNCHANGED vars

\* validate_dry_run and validate_solution_set_dry_run.
ValidateDryRun ==
    /\ DryRunBlock \/ DryRunSolutionSet
    /\ Begin(dry'.number, dry'.block)

\* query_predicate, one transaction.  An emptied registration still counts as
\* one, an emptied predicate has no length.
QueryPredicate(p) ==
    IF Read(Registered[p], FALSE) = Unset \/ Read(Encoded[p], FALSE) = Unset
    THEN "MissingPredicate"
    ELSE IF Read(Encoded[p], FALSE) \notin DOMAIN Nodes THEN "InvalidPredicate" ELSE "found"

\* query_solution_set_predicates: the predicate of the next solution.
QuerySolutionSetPredicates ==
    /\ pc = "predicates" /\ solve # << >>
    /\ LET p == Head(solve)
       IN  IF QueryPredicate(p) # "found" THEN End(QueryPredicate(p))
           ELSE /\ solve' = Tail(solve)
                /\ fetch' = fetch \cup Nodes[Read(Encoded[p], FALSE)]
                /\ UNCHANGED <<pc, target, set, reads, gas, outcome>>
    /\ UNCHANGED vars

\* All predicates are known.
PredicatesFetched ==
    /\ pc = "predicates" /\ solve = << >>
    /\ pc' = "programs"
    /\ UNCHANGED <<vars, run, gas, outcome>>

\* Mutant: the program is read in the state before the set.
QueryProgramPre(g) ==
    IF Read(Stored[g], TRUE) = Unset THEN "MissingProgram"
    ELSE IF Read(Stored[g], TRUE) \notin Codes THEN "InvalidProgram" ELSE "found"

\* query_program, one transaction.
QueryProgram(g) ==
    IF Read(Stored[g], FALSE) = Unset THEN "MissingProgram"
    ELSE IF Read(Stored[g], FALSE) \notin Codes THEN "InvalidProgram" ELSE "found"

\* query_predicates_programs: the predicates are in a hash map, so that the
\* programs are looked up in any order.
QueryPredicatesPrograms ==
    /\ pc = "programs"
    /\ \E g \in fetch :
          IF QueryProgram(g) # "found" THEN End(QueryProgram(g))
          ELSE /\ fetch' = fetch \ {g}
               /\ UNCHANGED <<pc, target, set, solve, reads, gas, outcome>>
    /\ UNCHANGED vars

\* All programs are known: the check of the set begins.
ProgramsFetched ==
    /\ pc = "programs" /\ fetch = {}
    /\ pc' = "check"
    /\ reads' = DOMAIN Expects[target.block[set]]
    /\ UNCHANGED <<vars, target, set, solve, fetch, gas, outcome>>

\* A failing query, or a closed pool, before the check: a ValidationError.
QueryError ==
    /\ pc \in {"predicates", "programs"}
    /\ End("error")
    /\ UNCHANGED vars

\* check_set_predicates reads a value of the state before the set.
CheckSetPredicates ==
    /\ pc = "check"
    /\ \E k \in reads :
          IF Read(k, TRUE) # Expects[target.block[set]][k] THEN End("PredicatesError")
          ELSE /\ reads' = reads \ {k}
               /\ UNCHANGED <<pc, target, set, solve, fetch, gas, outcome>>
    /\ UNCHANGED vars

\* A failing read of the check: an Err like any other, which makes the block
\* invalid.  "read_error" is a PredicatesError; it is told apart for the
\* properties only.
StateReadError ==
    /\ pc = "check" /\ reads # {}
    /\ End("read_error")
    /\ UNCHANGED vars

\* Mutant: the gas is added without looking for an overflow.
AddGasUnchecked ==
    /\ pc = "check" /\ reads = {}
    /\ gas' = gas + GasOf[target.block[set]]
    /\ IF set = Len(target.block)
       THEN /\ pc' = "done" /\ outcome' = "valid" /\ UNCHANGED run
       ELSE /\ pc' = "predicates"
            /\ set' = set + 1
            /\ solve' = Solves[target.block[set + 1]]
            /\ UNCHANGED <<target, fetch, reads, outcome>>
    /\ UNCHANGED vars

\* The set is satisfied: checked_add of its gas, then the next set, if any.
AddGas ==
    /\ pc = "check" /\ reads = {}
    /\ LET sum == gas + GasOf[target.block[set]]
       IN  \/ sum > MaxGas /\ End("GasOverflow")
           \/ /\ sum <= MaxGas /\ set = Len(target.block)
              /\ gas' = sum /\ pc' = "done" /\ outcome' = "valid"
              /\ UNCHANGED run
           \/ /\ sum <= MaxGas /\ set < Len(target.block)
              /\ gas' = sum /\ pc' = "predicates"
              /\ set' = set + 1
              /\ solve' = Solves[target.block[set + 1]]
              /\ UNCHANGED <<target, fetch, reads, outcome>>
    /\ UNCHANGED vars

\* The outcome is returned; the in-memory database of a dry run is dropped.
Return ==
    /\ pc = "done"
    /\ pc' = "idle"
    /\ dry' = NoRun
    /\ target' = NoRun /\ set' = 1
    /\ solve' = << >> /\ fetch' = {} /\ reads' = {}
    /\ gas' = 0 /\ outcome' = "none"
    /\ UNCHANGED chain

\* The relayer finalizes a block meanwhile.
Finalize == FinalizeBlock /\ UNCHANGED <<run, pc, gas, outcome>>

ValidateStep ==
    \/ QuerySolutionSetPredicates \/ PredicatesFetched
    \/ QueryPredicatesPrograms \/ ProgramsFetched \/ QueryError
    \/ CheckSetPredicates \/ StateReadError \/ AddGas

RunNext == ValidateBlock \/ ValidateDryRun \/ ValidateStep \/ Return \/ Finalize

RunSpec == RunInit /\ [][RunNext]_allVars

-----------------------------------------------------------------------------
(* The reference: a block is judged by replaying the chain below it.       *)

\* The state at set i of the target: what the chain below it and its own sets
\* leave.  A dry run above the tip stands on the whole chain.
StateAt(i) ==
    StateUpTo(IF dry = NoRun THEN target.number ELSE Height, target.block, i)

\* The gas that the first i sets of block b spend.
GasUpTo(b, i) ==
    LET spent[j \in 0..i] == IF j = 0 THEN 0 ELSE spent[j - 1] + GasOf[b[j]]
    IN  spent[i]

\* Set i is in order.
InOrder(i) ==
    LET s == target.block[i]
        post == StateAt(i)
    IN  /\ \A j \in DOMAIN Solves[s] :
              /\ post[Registered[Solves[s][j]]] # Unset
              /\ post[Encoded[Solves[s][j]]] \in DOMAIN Nodes
              /\ \A g \in Nodes[post[Encoded[Solves[s][j]]]] : post[Stored[g]] \in Codes
        /\ \A k \in DOMAIN Expects[s] : StateAt(i - 1)[k] = Expects[s][k]
        /\ GasUpTo(target.block, i) <= MaxGas

\* Has the state below the target been the same all the time?  Below a block of
\* the chain it is, below a dry run if it is above the tip and nothing was
\* finalized meanwhile.
Settled == dry # NoRun => dry.number >= Height /\ dry.height = Height

\* A verdict depends on the chain below the block and on nothing else: however
\* many blocks are finalized between the look-ups and reads of a validation,
\* the block is valid exactly if all its sets are in order after a replay, with
\* the gas they spend, and a failure is that of its first set that is not.  The
\* same holds of a dry run while the chain stands still.
VerdictIsReplay ==
    pc = "done" /\ Settled =>
        LET wrong == {i \in DOMAIN target.block : ~InOrder(i)}
        IN  /\ outcome = "valid" => wrong = {} /\ gas = GasUpTo(target.block, Len(target.block))
            /\ outcome \in Failures => wrong # {} /\ set = Min(wrong)

(* What StateQuery says of the queries.  They depend on the chain and the dry *)
(* run alone, so that it is enough to look where no validation has started.   *)

\* The API reads what a replay of the chain leaves, and a range of keys in the
\* order of its keys, up to the last key there is.
ReadsReplay == pc = "idle" => QueriesReplay /\ KeyRangeReads

\* A dry run reads the chain followed by its block, whatever is finalized
\* before its first look-up.
DryRunReadsReplay ==
    pc = "predicates" /\ dry # NoRun /\ set = 1 /\ solve = Solves[target.block[1]]
        => DryRunReplays

\* Finalizing a block changes no read of a block below it.
ValidationReadsStable == [][pc = "idle" => ReadsStable]_chain
=============================================================================
