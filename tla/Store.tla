------------------------------- MODULE Store -------------------------------
(***************************************************************************)
(* The block database: its tables with their constraints, the writes of    *)
(* the node and of the pool's short-hands, one transaction each, and the   *)
(* queries.  Module Node keeps four of these tables and trusts that a      *)
(* block reads back as it was written; here the rows themselves are        *)
(* written and read.                                                       *)
(*                                                                         *)
(* A block and a solution set are their content addresses, Number, Time,   *)
(* Sets and Solutions their contents.  Rows are read in the order of the   *)
(* query, and of their row ids where it has none.                          *)
(***************************************************************************)
EXTENDS Integers, Sequences, SequencesExt, FiniteSetsExt, Functions

CONSTANTS
    Blocks,        \* block content addresses
    Number,        \* Number[b]: the block number in b's header
    Time,          \* Time[b]: its timestamp, <<seconds, nanoseconds>>
    Sets,          \* Sets[b]: its solution sets, in order
    SolutionSets,  \* solution set content addresses
    Contracts,     \* contract addresses
    Solutions,     \* Solutions[s]: its solutions, in order, each a record of a
                   \* contract, the mutations <<key, value>> and the predicate data
    Rank,          \* Rank[a]: the order of the addresses
    NoBlock,       \* no block
    NoSet,         \* the NULL of a LEFT JOIN
    Unset,         \* no value (None)
    QueryError,    \* a query that fails
    ByteBase,      \* values of a byte, 256 in the code
    WordBytes,     \* bytes of a word, 8 in the code
    Ranges,        \* the ranges <<start, end>> of block numbers that are listed
    TimeRanges,    \* the ranges <<from, to>> of list_blocks_by_time
    PageSizes,     \* page sizes of list_blocks_by_time
    StateWrites,   \* what may be written to table state: <<contract, key, value>>
    MaxInserts,    \* bound: insertions of solution sets
    MaxFailed      \* bound: rows of failed_block

\* ByteBase to the n-th.
Power[n \in 0..WordBytes] == IF n = 0 THEN 1 ELSE ByteBase * Power[n - 1]

Word == (-(Power[WordBytes] \div 2))..((Power[WordBytes] \div 2) - 1)

ASSUME StoreAssumption ==
    /\ ByteBase \in Nat \ {0} /\ ByteBase % 2 = 0 /\ WordBytes \in Nat \ {0}
    /\ DOMAIN Sets = Blocks /\ DOMAIN Solutions = SolutionSets
    /\ Number \in [Blocks -> Nat]
    /\ \A b \in Blocks : Sets[b] \in Seq(SolutionSets)
    /\ \A s \in SolutionSets :
          Solutions[s] \in Seq([contract  : Contracts,
                               mutations : Seq(Seq(Word) \X Seq(Word)),
                               data      : Seq(Seq(Word))])
    /\ \A b \in Blocks : Time[b] \in Int \X Int
    /\ Ranges \subseteq Int \X Int
    /\ TimeRanges \subseteq (Int \X Int) \X (Int \X Int)
    /\ PageSizes \subseteq Nat \ {0}
    /\ StateWrites \subseteq Contracts \X Seq(Word) \X Seq(Word)
    /\ \A B \in {Blocks, SolutionSets} : \A x, y \in B :
          Rank[x] \in Int /\ (Rank[x] = Rank[y] => x = y)
    /\ MaxInserts \in Nat /\ MaxFailed \in Nat
    /\ NoBlock \notin Blocks /\ NoSet \notin SolutionSets

VARIABLES
    block,        \* table block
    blockSet,     \* table block_solution_set: <<block, set, index>>
    solutionSet,  \* tables solution_set and solution
    mutation,     \* mutation[s]: the rows of table mutation of set s, by row id
    predData,     \* predData[s]: its rows of table pred_data, by row id
    finalized,    \* table finalized_block
    progress,     \* table validation_progress: its one row, or NoBlock
    failed,       \* table failed_block: <<block, set>>
    state,        \* table state
    copies,       \* copies[s]: how often set s was inserted (history)
    inserts       \* how often any set was inserted (history)

setVars == <<block, blockSet, solutionSet, mutation, predData, copies, inserts>>
vars == <<setVars, finalized, progress, failed, state>>

Init ==
    /\ block = {} /\ blockSet = {} /\ solutionSet = {}
    /\ mutation = [s \in SolutionSets |-> << >>]
    /\ predData = [s \in SolutionSets |-> << >>]
    /\ finalized = {} /\ progress = NoBlock /\ failed = {}
    /\ state = << >>
    /\ copies = [s \in SolutionSets |-> 0] /\ inserts = 0

-----------------------------------------------------------------------------
(* Keys and values are stored as blobs.                                    *)

\* The bytes of a word, the most significant first (two's complement).
BytesFromWord(w) == [i \in 1..WordBytes |-> (w \div Power[WordBytes - i]) % ByteBase]

WordFromBytes(bytes) ==
    LET sum[i \in 0..WordBytes] == IF i = 0 THEN 0 ELSE sum[i - 1] * ByteBase + bytes[i]
    IN  IF sum[WordBytes] \in Word THEN sum[WordBytes] ELSE sum[WordBytes] - Power[WordBytes]

\* blob_from_words
BlobFromWords(words) == FlattenSeq([i \in DOMAIN words |-> BytesFromWord(words[i])])

\* words_from_blob: chunks_exact.
WordsFromBlob(blob) ==
    [i \in 1..(Len(blob) \div WordBytes) |->
        WordFromBytes(SubSeq(blob, (i - 1) * WordBytes + 1, i * WordBytes))]

-----------------------------------------------------------------------------
(* Writes.  Each is one transaction; one that fails changes nothing.       *)

\* The rows that insert_block adds to the tables mutation and pred_data for
\* one solution set.
MutationRows ==
    [s \in SolutionSets |->
        FlattenSeq([i \in DOMAIN Solutions[s] |->
            [j \in DOMAIN Solutions[s][i].mutations |->
                [solution |-> i, index |-> j,
                 key |-> BlobFromWords(Solutions[s][i].mutations[j][1]),
                 value |-> BlobFromWords(Solutions[s][i].mutations[j][2])]]])]

PredDataRows ==
    [s \in SolutionSets |->
        FlattenSeq([i \in DOMAIN Solutions[s] |->
            [j \in DOMAIN Solutions[s][i].data |->
                [solution |-> i, index |-> j, value |-> BlobFromWords(Solutions[s][i].data[j])]]])]

\* How often the block has the set.
Occurrences(s, b) == Cardinality({i \in DOMAIN Sets[b] : Sets[b][i] = s})

\* rows, n times.
Repeated(rows, n) == FlattenSeq([i \in 1..n |-> rows])

\* insert_block.  Addresses and mappings that are there already are ignored
\* (UNIQUE, OR IGNORE); the tables mutation and pred_data have no such
\* constraint and grow again.
InsertBlockRows(b) ==
    /\ block' = block \cup {b}
    /\ solutionSet' = solutionSet \cup Range(Sets[b])
    /\ blockSet' = blockSet \cup {<<b, Sets[b][i], i>> : i \in DOMAIN Sets[b]}
    /\ mutation' = [s \in SolutionSets |-> mutation[s] \o Repeated(MutationRows[s], Occurrences(s, b))]
    /\ predData' = [s \in SolutionSets |-> predData[s] \o Repeated(PredDataRows[s], Occurrences(s, b))]
    /\ copies' = [s \in SolutionSets |-> copies[s] + Occurrences(s, b)]
    /\ inserts' = inserts + Len(Sets[b])

\* Bound: solution sets are inserted MaxInserts times at most.
RoomFor(b) ==
    /\ inserts + Len(Sets[b]) <= MaxInserts
    /\ Sets[b] = << >> => b \notin block

\* The pool's insert_block.
InsertBlock(b) ==
    /\ RoomFor(b)
    /\ InsertBlockRows(b)
    /\ UNCHANGED <<finalized, progress, failed, state>>

\* Mutant: the table has no primary key on the number.
CanFinalizeOnce(b) == b \notin finalized

\* finalize_block aborts if the number is taken or the block is finalized.
CanFinalize(b) == \A c \in finalized : Number[c] # Number[b]

\* The pool's finalize_block.  The INSERT selects the block: for an address
\* that is not stored it inserts nothing and succeeds.
FinalizeBlock(b) ==
    /\ b \in block /\ CanFinalize(b)
    /\ finalized' = finalized \cup {b}
    /\ UNCHANGED <<setVars, progress, failed, state>>

\* The transaction of the relayer, the start-up and a dry run: the block is
\* inserted and finalized, or the transaction is rolled back.
InsertAndFinalize(b) ==
    /\ RoomFor(b)
    /\ CanFinalize(b)
    /\ InsertBlockRows(b)
    /\ finalized' = finalized \cup {b}
    /\ UNCHANGED <<progress, failed, state>>

\* update_validation_progress replaces the one row.  The address of no stored
\* block violates NOT NULL.
UpdateValidationProgress(b) ==
    /\ b \in block
    /\ progress' = b
    /\ UNCHANGED <<setVars, finalized, failed, state>>

\* insert_failed_block; an address that is not stored is NULL and ignored.
InsertFailedBlock(b, s) ==
    /\ Cardinality(failed) < MaxFailed
    /\ b \in block /\ s \in solutionSet
    /\ failed' = failed \cup {<<b, s>>}
    /\ UNCHANGED <<setVars, finalized, progress, state>>

\* update_state: an upsert.
UpdateState(contract, key, value) ==
    LET row == <<contract, BlobFromWords(key)>>
    IN  /\ state' = [r \in DOMAIN state \cup {row} |->
                        IF r = row THEN BlobFromWords(value) ELSE state[r]]
        /\ UNCHANGED <<setVars, finalized, progress, failed>>

\* delete_state
DeleteState(contract, key) ==
    /\ state' = Restrict(state, DOMAIN state \ {<<contract, BlobFromWords(key)>>})
    /\ UNCHANGED <<setVars, finalized, progress, failed>>

Next ==
    \/ \E b \in Blocks :
          \/ InsertBlock(b) \/ FinalizeBlock(b) \/ InsertAndFinalize(b)
          \/ UpdateValidationProgress(b)
          \/ \E s \in Range(Sets[b]) : InsertFailedBlock(b, s)
    \/ \E w \in StateWrites : UpdateState(w[1], w[2], w[3]) \/ DeleteState(w[1], w[2])

Spec == Init /\ [][Next]_vars

-----------------------------------------------------------------------------
(* Queries.  Each is one transaction.                                      *)

\* query_state
QueryState(contract, key) ==
    LET row == <<contract, BlobFromWords(key)>>
    IN  IF row \in DOMAIN state THEN WordsFromBlob(state[row]) ELSE Unset

\* Mutant: the rows of the whole set, whatever the solution.
InAnySolution(rows, i) == rows

\* The ORDER BY of get_solution_mutations and get_solution_pred_data stands
\* behind the end of the statement: the rows come by row id.
InSolution(rows, i) ==
    LET found[n \in 0..Len(rows)] ==
            IF n = 0 THEN << >>
            ELSE IF rows[n].solution = i THEN Append(found[n - 1], rows[n])
            ELSE found[n - 1]
    IN  found[Len(rows)]

\* get_solution_set: the solutions of the set, then the rows of each.  A set
\* that is not stored reads as one without solutions.
GetSolutionSet(s) ==
    [i \in (IF s \in solutionSet THEN DOMAIN Solutions[s] ELSE {}) |->
        LET ms == InSolution(mutation[s], i)
            ds == InSolution(predData[s], i)
        IN  [contract  |-> Solutions[s][i].contract,
             mutations |-> [j \in DOMAIN ms |->
                              <<WordsFromBlob(ms[j].key), WordsFromBlob(ms[j].value)>>],
             data      |-> [j \in DOMAIN ds |-> WordsFromBlob(ds[j].value)]]]

Header(b) == [number |-> Number[b], time |-> Time[b]]

\* ORDER BY: the k-th member of a set has k - 1 members before it.
InOrder(S, before) ==
    [k \in 1..Cardinality(S) |->
        CHOOSE x \in S : Cardinality({y \in S : <<y, x>> \in before}) = k - 1]

\* ... number, block_address
BlockOrder ==
    {p \in Blocks \X Blocks :
        \/ Number[p[1]] < Number[p[2]]
        \/ Number[p[1]] = Number[p[2]] /\ Rank[p[1]] < Rank[p[2]]}

\* ... solution_set_index
IndexOrder == {p \in (1..MaxInserts) \X (1..MaxInserts) : p[1] < p[2]}

\* block LEFT JOIN block_solution_set LEFT JOIN solution_set: the rows of b by
\* solution_set_index, or one row of NULLs.
RowsOf(b) ==
    LET index == {i \in 1..MaxInserts : \E s \in solutionSet : <<b, s, i>> \in blockSet}
        seq == InOrder(index, IndexOrder)
    IN  IF index = {} THEN <<<<b, NoSet>>>>
        ELSE [k \in DOMAIN seq |->
                <<b, CHOOSE s \in solutionSet : <<b, s, seq[k]>> \in blockSet>>]

Ordered(bs) == LET seq == InOrder(bs, BlockOrder) IN FlattenSeq([i \in DOMAIN seq |-> RowsOf(seq[i])])

\* Mutant: the rows are told apart by block number.
SameNumber(p, q) == Number[p[1]] = Number[q[1]]

\* The loop of the listings compares a row's block with that of the row before.
SameBlock(p, q) == p[1] = q[1]

\* A row of the same block as the row before adds its solution set to the last
\* block, another one starts a block.  A row without solution set has a NULL
\* address, which fails the listing.
Collect(rows) ==
    LET list[n \in 0..Len(rows)] ==
            IF n = 0 THEN << >>
            ELSE LET blocks == list[n - 1]
                     set == GetSolutionSet(rows[n][2])
                 IN  IF n > 1 /\ SameBlock(rows[n - 1], rows[n])
                     THEN [blocks EXCEPT ![Len(blocks)].sets = Append(@, set)]
                     ELSE Append(blocks, [header |-> Header(rows[n][1]), sets |-> <<set>>])
    IN  IF \E i \in DOMAIN rows : rows[i][2] = NoSet THEN QueryError ELSE list[Len(rows)]

\* get_block: the header, then the solution sets.
GetBlock(b) ==
    IF b \notin block THEN Unset
    ELSE LET rows == RowsOf(b)
         IN  IF rows[1][2] = NoSet THEN QueryError
             ELSE [header |-> Header(b),
                   sets |-> [i \in DOMAIN rows |-> GetSolutionSet(rows[i][2])]]

\* The blocks with a number in lo..(hi - 1).
InRange(lo, hi) == {b \in block : lo <= Number[b] /\ Number[b] < hi}

\* list_blocks
ListBlocks(lo, hi) == Collect(Ordered(InRange(lo, hi)))

\* Mutant: a block counts as checked only if all its sets failed.
UncheckedUnlessAllFailed(b) == \E s \in Range(Sets[b]) : <<b, s>> \notin failed

\* NOT EXISTS (... failed_block ...)
Unchecked(b) == \A r \in failed : r[1] # b

\* list_unchecked_blocks
ListUncheckedBlocks(lo, hi) == Collect(Ordered({b \in InRange(lo, hi) : Unchecked(b)}))

\* list_failed_blocks: by number, address and solution set address.
SetOrder == {p \in SolutionSets \X SolutionSets : Rank[p[1]] < Rank[p[2]]}

ListFailedBlocks(lo, hi) ==
    LET seq == InOrder(InRange(lo, hi), BlockOrder)
        sets(b) == InOrder({s \in SolutionSets : <<b, s>> \in failed}, SetOrder)
    IN  FlattenSeq([i \in DOMAIN seq |->
            [j \in DOMAIN sets(seq[i]) |-> <<Number[seq[i]], sets(seq[i])[j]>>]])

\* The WHERE of list_blocks_by_time: the first alternative for the start covers
\* its whole second.
InTime(b, from, to) ==
    /\ \/ Time[b][1] >= from[1]
       \/ Time[b][1] = from[1] /\ Time[b][2] >= from[2]
    /\ \/ Time[b][1] < to[1]
       \/ Time[b][1] = to[1] /\ Time[b][2] < to[2]

\* Mutant: the offset is the page number.
PageByNumber(rows, size, page) == SubSeq(rows, page + 1, Min({page + size, Len(rows)}))

\* LIMIT page_size OFFSET page_number * page_size, of rows and not of blocks.
Page(rows, size, page) == SubSeq(rows, page * size + 1, Min({(page + 1) * size, Len(rows)}))

\* list_blocks_by_time
ListBlocksByTime(from, to, size, page) ==
    Collect(Page(Ordered({b \in block : InTime(b, from, to)}), size, page))

\* Where block b mutates a key of a contract: <<index of the set, value>>.
Hits(b, contract, key) ==
    UNION {{<<r[3], m.value>> : m \in {x \in Range(mutation[r[2]]) :
                                          /\ x.key = BlobFromWords(key)
                                          /\ Solutions[r[2]][x.solution].contract = contract}} :
              r \in {x \in blockSet : x[1] = b}}

\* ORDER BY solution_set_index DESC, the first row.
LastHit(hits) == WordsFromBlob((CHOOSE h \in hits : \A g \in hits : g[1] <= h[1])[2])

\* finalized::query_state_inclusive_block: the last finalized block up to n that
\* mutates the key.
FinalizedInclusiveBlock(contract, key, n) ==
    LET bs == {b \in finalized : Number[b] <= n /\ Hits(b, contract, key) # {}}
    IN  IF bs = {} THEN Unset
        ELSE LastHit(Hits(CHOOSE b \in bs : \A c \in bs : Number[c] <= Number[b], contract, key))

\* Mutant: the bound leaves out the set itself.
AddressUpToExcludes(b, contract, key, last) ==
    LET hits == Hits(b, contract, key)
        upTo == {h \in hits : h[1] < last}
    IN  IF hits = {} THEN Unset
        ELSE IF upTo = {} THEN FinalizedInclusiveBlock(contract, key, Number[b])
        ELSE LastHit(upTo)

\* query_state_block_address.sql, for the sets up to `last` of block b.  Every
\* parent_block_id is 0, the id of no block, so that the recursion ends at b: a
\* key that b does not mutate gives no row, which is None.  One that only later
\* sets of b mutate gives a row without value, and only then is the finalized
\* state asked, up to and including the number of b.
AddressUpTo(b, contract, key, last) ==
    LET hits == Hits(b, contract, key)
        upTo == {h \in hits : h[1] <= last}
    IN  IF hits = {} THEN Unset
        ELSE IF upTo = {} THEN FinalizedInclusiveBlock(contract, key, Number[b])
        ELSE LastHit(upTo)

\* address::query_state_inclusive_block: no bound on the index.
AddressInclusiveBlock(b, contract, key) == AddressUpTo(b, contract, key, MaxInserts)

\* address::query_state_inclusive_solution_set, sets counted from 1.
AddressInclusiveSolutionSet(b, contract, key, i) == AddressUpTo(b, contract, key, i)

\* get_parent_block_address
GetParentBlockAddress(b) == NoBlock

\* address::query_state_exclusive_block
AddressExclusiveBlock(b, contract, key) ==
    IF GetParentBlockAddress(b) = NoBlock THEN Unset
    ELSE AddressInclusiveBlock(GetParentBlockAddress(b), contract, key)

\* address::query_state_exclusive_solution_set
AddressExclusiveSolutionSet(b, contract, key, i) ==
    IF i = 1 THEN AddressExclusiveBlock(b, contract, key)
    ELSE AddressInclusiveSolutionSet(b, contract, key, i - 1)

-----------------------------------------------------------------------------
(* Properties.                                                             *)

\* The type invariant: the references and keys of the tables hold, finalized
\* numbers are unique, and a value of table state reads as it was written.
TypeOK ==
    /\ block \subseteq Blocks
    /\ blockSet \subseteq block \X solutionSet \X (1..MaxInserts)
    /\ solutionSet \subseteq SolutionSets
    /\ {DOMAIN mutation, DOMAIN predData} = {SolutionSets}
    /\ finalized \subseteq block
    /\ \A b, c \in finalized : Number[b] = Number[c] => b = c
    /\ progress \in block \cup {NoBlock}
    /\ failed \subseteq block \X solutionSet
    /\ copies \in [SolutionSets -> 0..inserts] /\ inserts \in 0..MaxInserts
    /\ \A w \in StateWrites : QueryState(w[1], w[2]) \in {Unset} \cup {v[3] : v \in StateWrites}

\* A block as it was given to insert_block.
Written(b) == [header |-> Header(b), sets |-> [i \in DOMAIN Sets[b] |-> Solutions[Sets[b][i]]]]

HasRows(s) == MutationRows[s] # << >> \/ PredDataRows[s] # << >>

\* get_block returns a block with its solution sets, solutions, mutations and
\* predicate data in the order they were inserted, whatever else is stored,
\* exactly if each of its sets that has rows was inserted once.  (This is what
\* Node's Intact takes for granted.)
ReadsBack ==
    \A b \in block :
        Sets[b] # << >> =>
            (GetBlock(b) = Written(b) <=> \A s \in Range(Sets[b]) : HasRows(s) => copies[s] = 1)

\* "Returns the block with given address." (node-db/src/lib.rs, get_block)
ReadsBackIntact == \A b \in block : Sets[b] # << >> => GetBlock(b) = Written(b)

\* What get_block returns for each of the blocks, in order of number and
\* address; one without solution sets spoils the whole listing.
EachOf(bs) ==
    IF \E b \in bs : Sets[b] = << >> THEN QueryError
    ELSE LET seq == InOrder(bs, BlockOrder) IN [i \in DOMAIN seq |-> GetBlock(seq[i])]

\* list_blocks returns every block of its range once, as get_block does, also
\* where several blocks have one number; a subscription and the start-up read
\* blocks this way.
ListsEachBlock == \A r \in Ranges : ListBlocks(r[1], r[2]) = EachOf(InRange(r[1], r[2]))

\* A stored block with solution sets is unchecked or failed, never both and
\* never neither, however many of its sets are recorded and whichever other
\* block has its number; failures are reported once, in order of number.
FailedOrUnchecked ==
    \A r \in Ranges :
        LET failures == ListFailedBlocks(r[1], r[2])
            failedBlocks ==
                {b \in InRange(r[1], r[2]) : \E s \in SolutionSets : <<b, s>> \in failed}
        IN  /\ ListUncheckedBlocks(r[1], r[2]) = EachOf(InRange(r[1], r[2]) \ failedBlocks)
            /\ \A b \in failedBlocks : \E i \in DOMAIN failures : failures[i][1] = Number[b]
            /\ \A i, j \in DOMAIN failures : i < j => failures[i][1] <= failures[j][1]

\* A listing, set by set.
SetBySet(list) ==
    FlattenSeq([i \in DOMAIN list |->
        [j \in DOMAIN list[i].sets |-> <<list[i].header, list[i].sets[j]>>]])

\* The blocks from the second of `from` on and before `to`.
WithinSeconds(from, to) ==
    {b \in block :
        /\ Time[b][1] >= from[1]
        /\ Time[b][1] < to[1] \/ (Time[b][1] = to[1] /\ Time[b][2] < to[2])}

\* The pages of list_blocks_by_time, put one after the other, hold every
\* solution set of every block of the range once and in order, although a page
\* may end within a block.  A reader may fetch them one by one while the chain
\* grows: the rows without a block above all others are a prefix of the rows
\* with it.  (The range begins with the second of its start, whatever its
\* nanoseconds are.)
PagesAddUp ==
    \A t \in TimeRanges :
        LET bs == WithinSeconds(t[1], t[2])
            pages(size) ==
                [p \in 1..MaxInserts |-> SetBySet(ListBlocksByTime(t[1], t[2], size, p - 1))]
        IN  /\ (\A b \in bs : Sets[b] # << >>) =>
                  \A size \in PageSizes : FlattenSeq(pages(size)) = SetBySet(EachOf(bs))
            /\ \A b \in bs :
                  (\A c \in bs \ {b} : Number[c] < Number[b]) =>
                      IsPrefix(Ordered(bs \ {b}), Ordered(bs))

\* What a set writes: <<contract, key, value>>.
Writes ==
    [s \in SolutionSets |->
        FlattenSeq([i \in DOMAIN Solutions[s] |->
            [j \in DOMAIN Solutions[s][i].mutations |->
                <<Solutions[s][i].contract>> \o Solutions[s][i].mutations[j]]])]

\* What the first i sets of block b leave under a key, its last write winning.
LastWrite(b, contract, key, i) ==
    LET writes == FlattenSeq([k \in 1..i |-> Writes[Sets[b][k]]])
        value[n \in 0..Len(writes)] ==
            IF n = 0 THEN Unset
            ELSE IF writes[n][1] = contract /\ writes[n][2] = key THEN writes[n][3]
            ELSE value[n - 1]
    IN  value[Len(writes)]

\* No set of the block gives the key two values.  (A query takes either value of
\* one that does.)
OneValue(b, contract, key) ==
    \A i \in DOMAIN Sets[b] : \A x, y \in Range(Writes[Sets[b][i]]) :
        x[1] = contract /\ y[1] = contract /\ x[2] = key /\ y[2] = key => x = y

\* A query by block address finds the last value that the block's own sets up
\* to the given one leave, in a fork as well as in the finalized block, however
\* often the sets were inserted.
AddressReadsOwnBlock ==
    \A b \in block, w \in StateWrites : \A i \in DOMAIN Sets[b] :
        LET v == LastWrite(b, w[1], w[2], i)
        IN  v # Unset /\ OneValue(b, w[1], w[2]) =>
                /\ AddressInclusiveSolutionSet(b, w[1], w[2], i) = v
                /\ AddressExclusiveSolutionSet(b, w[1], w[2], i + 1) = v
                /\ i = Len(Sets[b]) => AddressInclusiveBlock(b, w[1], w[2]) = v
=============================================================================
