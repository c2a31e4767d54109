----------------------------- MODULE StateQuery -----------------------------
(***************************************************************************)
(* The state that validation and the API read.  The node stores no state:  *)
(* a value is found by searching the mutations of the finalized blocks     *)
(* backwards from a block number and a solution set index.  A dry run puts *)
(* a candidate block into an in-memory database and cascades from it to    *)
(* the one on disk, while the relayer may finalize further blocks.  The    *)
(* module Validate runs these actions.                                     *)
(*                                                                         *)
(* A solution set is the function from the keys it mutates to their values *)
(* (no key twice in one set), a block is the sequence of its sets, and a   *)
(* database maps the numbers of its finalized blocks to the blocks.  A key *)
(* stands for a contract together with a key of that contract.             *)
(***************************************************************************)
EXTENDS Integers, Sequences, FiniteSetsExt

CONSTANTS
    SolutionSets,  \* the solution sets in use
    KeyLen,        \* the length of the keys, in words
    MinWord,       \* the smallest word
    MaxWord,       \* the largest word
    Empty,         \* the empty value, which a deletion leaves
    Unset,         \* no value: a key that was never mutated (None)
    NoKey,         \* next_key found no next key (None)
    NoRun,         \* no dry run
    BadRequest,    \* the API rejects the parameters (InvalidQueryParameters)
    MaxSets,       \* bound: solution sets per block
    MaxBlocks      \* bound: blocks in the chain

ASSUME StateQueryAssumption ==
    /\ MinWord \in Int /\ MaxWord \in Int /\ MinWord < MaxWord
    /\ KeyLen \in Nat
    /\ \A s \in SolutionSets :
          /\ DOMAIN s \subseteq [1..KeyLen -> MinWord..MaxWord]
          /\ \A k \in DOMAIN s : s[k] # Unset
    /\ NoKey \notin [1..KeyLen -> MinWord..MaxWord]
    /\ MaxSets \in Nat \ {0} /\ MaxBlocks \in Nat \ {0}

VARIABLES
    chain,  \* the finalized blocks on disk
    dry     \* the dry run in progress, or NoRun

vars == <<chain, dry>>

Keys == [1..KeyLen -> MinWord..MaxWord]

Blocks == UNION {[1..n -> SolutionSets] : n \in 1..MaxSets}

Numbers == 0..MaxBlocks

\* A dry run.  `height` and `kind` record how it started, for the properties only.
DryRuns == [number : Numbers, block : Blocks, height : Numbers, kind : {"block", "set"}]

ASSUME DryRunAssumption == NoRun \notin DryRuns

\* The number after the latest finalized one.
Height == Cardinality(DOMAIN chain)

\* The type invariant: the finalized blocks have the numbers from 0 on, without
\* gap.
TypeOK ==
    /\ \E h \in 0..MaxBlocks : chain \in [0..(h - 1) -> Blocks]
    /\ dry \in {NoRun} \cup DryRuns

Init == chain = << >> /\ dry = NoRun

-----------------------------------------------------------------------------
(* Queries.  db is a database, k a key, n a block number, i the index of a *)
(* solution set, counted from 1.                                           *)

\* Where a finalized block mutates k.
Rows(db, k) ==
    {p \in (DOMAIN db) \X (1..MaxSets) :
        p[2] \in DOMAIN db[p[1]] /\ k \in DOMAIN db[p[1]][p[2]]}

\* ORDER BY block_number DESC, solution_set_index DESC.
Before(p, q) == p[1] < q[1] \/ (p[1] = q[1] /\ p[2] < q[2])

\* ... LIMIT 1: the value in the last of the rows, if there is one.
LastValue(db, k, rows) ==
    IF rows = {} THEN Unset
    ELSE LET last == CHOOSE p \in rows : \A q \in rows : q = p \/ Before(q, p)
         IN  db[last[1]][last[2]][k]

\* Mutant: number and index are compared separately.
InclusiveSolutionSetByParts(db, k, n, i) ==
    LastValue(db, k, {p \in Rows(db, k) : p[1] <= n /\ p[2] <= i})

\* query_state_inclusive_block: ..=n
InclusiveBlock(db, k, n) ==
    LastValue(db, k, {p \in Rows(db, k) : p[1] <= n})

\* query_state_exclusive_block: ..n.  Block 0 leaves nothing before it.
ExclusiveBlock(db, k, n) == InclusiveBlock(db, k, n - 1)

\* query_state_inclusive_solution_set: ..=n[..=i], a row-value comparison.
InclusiveSolutionSet(db, k, n, i) ==
    LastValue(db, k, {p \in Rows(db, k) : ~Before(<<n, i>>, p)})

\* query_state_exclusive_solution_set: ..=n[..i]
ExclusiveSolutionSet(db, k, n, i) ==
    IF i = 1 THEN ExclusiveBlock(db, k, n)
    ELSE InclusiveSolutionSet(db, k, n, i - 1)

\* query_latest_finalized_block, one transaction.
LatestFinalizedBlock(k) ==
    IF DOMAIN chain = {} THEN Unset ELSE InclusiveBlock(chain, k, Max(DOMAIN chain))

\* The query-state endpoint: which parameters are given selects the query.
ApiQueryState(k, p) ==
    CASE DOMAIN p = {"block_inclusive"} -> InclusiveBlock(chain, k, p.block_inclusive)
      [] DOMAIN p = {"block_exclusive"} -> ExclusiveBlock(chain, k, p.block_exclusive)
      [] DOMAIN p = {"block_inclusive", "solution_inclusive"} ->
            InclusiveSolutionSet(chain, k, p.block_inclusive, p.solution_inclusive)
      [] DOMAIN p = {"block_inclusive", "solution_exclusive"} ->
            ExclusiveSolutionSet(chain, k, p.block_inclusive, p.solution_exclusive)
      [] DOMAIN p = {} -> LatestFinalizedBlock(k)
      [] OTHER -> BadRequest

\* Mutant: reads are not bounded by the block that is validated.
QueryStateLatest(db, k, n, i, pre) ==
    IF pre THEN ExclusiveSolutionSet(db, k, n, i)
    ELSE LastValue(db, k, Rows(db, k))

\* query_state: what the check of solution set i of block n reads, before
\* (pre) or after the set's own mutations.
QueryState(db, k, n, i, pre) ==
    IF pre THEN ExclusiveSolutionSet(db, k, n, i)
    ELSE InclusiveSolutionSet(db, k, n, i)

\* Mutant: a deletion in memory does not hide the value on disk.
CascadeFallsThrough(mem, k, n, i, pre) ==
    LET v == QueryState(mem, k, n, i, pre)
    IN  IF v \in {Unset, Empty} THEN QueryState(chain, k, n, i, pre) ELSE v

\* cascade: first the in-memory database, then the one on disk.
Cascade(mem, k, n, i, pre) ==
    LET v == QueryState(mem, k, n, i, pre)
    IN  IF v = Unset THEN QueryState(chain, k, n, i, pre) ELSE v

\* next_key: the last word that is not MaxWord is incremented, the words after
\* it wrap around.
NextKey(k) ==
    LET low == {j \in DOMAIN k : k[j] # MaxWord}
    IN  IF low = {} THEN NoKey
        ELSE [j \in DOMAIN k |->
                IF j < Max(low) THEN k[j]
                ELSE IF j = Max(low) THEN k[j] + 1 ELSE MinWord]

\* key_range, for block n of the chain: count values from k on, an unset one
\* read as the empty one.  It fails (KeyRangeError) if there is no key after
\* one of them, the last one included.
KeysFrom(k, count) ==
    LET key[j \in 1..(count + 1)] ==
            IF j = 1 THEN k
            ELSE IF key[j - 1] = NoKey THEN NoKey ELSE NextKey(key[j - 1])
    IN  key

KeyRange(k, count, n, i, pre) ==
    LET keys == KeysFrom(k, count)
    IN  IF keys[count + 1] = NoKey THEN NoKey
        ELSE [j \in 1..count |->
                LET v == QueryState(chain, keys[j], n, i, pre)
                IN  IF v = Unset THEN Empty ELSE v]

-----------------------------------------------------------------------------
\* The relayer (or start-up) finalizes the next block.
FinalizeBlock ==
    /\ Height < MaxBlocks
    /\ \E b \in Blocks : chain' = [n \in 0..Height |-> IF n = Height THEN b ELSE chain[n]]
    /\ UNCHANGED dry

\* validate_dry_run of a block with a number of the caller's choice: the block
\* is put into the in-memory database.
DryRunBlock ==
    /\ dry = NoRun
    /\ \E n \in Numbers, b \in Blocks :
          dry' = [number |-> n, block |-> b, height |-> Height, kind |-> "block"]
    /\ UNCHANGED chain

\* validate_solution_set_dry_run: a block with this one set, numbered like the
\* latest finalized block (1 if there is none).
DryRunSolutionSet ==
    /\ dry = NoRun
    /\ \E s \in SolutionSets :
          dry' = [number |-> IF DOMAIN chain = {} THEN 1 ELSE Max(DOMAIN chain),
                  block |-> <<s>>, height |-> Height, kind |-> "set"]
    /\ UNCHANGED chain

-----------------------------------------------------------------------------
(* The reference: solution sets applied one after the other.               *)

Apply(state, s) == [k \in Keys |-> IF k \in DOMAIN s THEN s[k] ELSE state[k]]

\* The first i solution sets of block b, applied to a state.
Replay(state, b, i) ==
    LET after[j \in 0..i] == IF j = 0 THEN state ELSE Apply(after[j - 1], b[j])
    IN  after[i]

Blank == [k \in Keys |-> Unset]

\* What the blocks of a database below n leave.
StateBelow(db, n) ==
    LET below[m \in 0..n] ==
            IF m = 0 THEN Blank ELSE Replay(below[m - 1], db[m - 1], Len(db[m - 1]))
    IN  below[n]

\* The first i solution sets of block b on top of the chain below n.
StateUpTo(n, b, i) == Replay(StateBelow(chain, n), b, i)

\* What a dry run reads.
DryRead(k, i, pre) ==
    Cascade([n \in {dry.number} |-> dry.block], k, dry.number, i, pre)

\* The chain up to set i of block n, or the whole chain if it ends below.
StateAfter(n, i) ==
    IF n < Height
    THEN StateUpTo(n, chain[n], IF i < Len(chain[n]) THEN i ELSE Len(chain[n]))
    ELSE StateBelow(chain, Height)

\* The backward searches behind the API find what replaying the chain leaves:
\* at every block and solution set, inclusive and exclusive, the first set of
\* a block, block 0, an index behind the last set and a number beyond the tip
\* included.
QueriesReplay ==
    \A k \in Keys :
        /\ ApiQueryState(k, << >>) = StateBelow(chain, Height)[k]
        /\ \A n \in Numbers :
              /\ ApiQueryState(k, [block_inclusive |-> n]) = StateAfter(n, MaxSets)[k]
              /\ ApiQueryState(k, [block_exclusive |-> n]) = StateAfter(n, 0)[k]
              /\ \A i \in 1..(MaxSets + 1) :
                    /\ ApiQueryState(k, [block_inclusive |-> n, solution_inclusive |-> i])
                          = StateAfter(n, i)[k]
                    /\ ApiQueryState(k, [block_inclusive |-> n, solution_exclusive |-> i])
                          = StateAfter(n, i - 1)[k]

\* The reads of the validation of a block do not change while the relayer
\* finalizes further blocks: although every read is a transaction of its own,
\* the solution sets of a block are checked against one state.
ReadsStable ==
    \A n \in DOMAIN chain : \A i \in DOMAIN chain[n] : \A k \in Keys, pre \in BOOLEAN :
        QueryState(chain, k, n, i, pre)' = QueryState(chain, k, n, i, pre)

\* A dry run of a block above the tip reads what the chain followed by that
\* block would leave, up to the solution set that is checked.
DryRunReplays ==
    dry # NoRun /\ dry.number >= Height =>
        \A i \in DOMAIN dry.block :
            LET pre == StateUpTo(Height, dry.block, i - 1)
                post == StateUpTo(Height, dry.block, i)
            IN  \A k \in Keys : DryRead(k, i, TRUE) = pre[k] /\ DryRead(k, i, FALSE) = post[k]

\* The dry run of a solution set checks it on top of the chain: "Creates a
\* block at the next block number" (node/src/validate.rs,
\* validate_solution_set_dry_run).
SolutionSetDryRunIsNext ==
    dry # NoRun /\ dry.kind = "set" /\ dry.height = Height =>
        \A k \in Keys : DryRead(k, 1, TRUE) = StateBelow(chain, Height)[k]

\* The order of keys: word by word.
Less(p, q) ==
    \E j \in DOMAIN p : p[j] < q[j] /\ \A m \in 1..(j - 1) : p[m] = q[m]

\* q is the key after k.
Follows(k, q) == Less(k, q) /\ \A r \in Keys : ~(Less(k, r) /\ Less(r, q))

\* A range of count values from k on, after the first set of block n: those of
\* consecutive keys, or none if the last of them has no key after it.
RangeReads(n, k, count) ==
    LET range == KeyRange(k, count, n, 1, FALSE)
        state == StateUpTo(n, chain[n], 1)
        paths == {path \in [1..(count + 1) -> Keys] :
                    path[1] = k /\ \A j \in 1..count : Follows(path[j], path[j + 1])}
    IN  IF paths = {} THEN range = NoKey
        ELSE \E path \in paths :
                range = [j \in 1..count |->
                           IF state[path[j]] = Unset THEN Empty ELSE state[path[j]]]

\* key_range reads consecutive keys in the order of their words, as the state
\* read of a program expects, and fails only if it ends at the last key.
KeyRangeReads ==
    \A n \in DOMAIN chain, k \in Keys, count \in 1..2 : RangeReads(n, k, count)
=============================================================================
