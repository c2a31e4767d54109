-------------------------------- MODULE Node --------------------------------
(***************************************************************************)
(* One node process and its database: the start-up that ensures the big    *)
(* bang block, the relayer that streams blocks from another node into the  *)
(* database, the validation stream that follows it, the watch channel that *)
(* links the two, and the handle through which a program joins or closes   *)
(* them.  Every database transaction is one step; between two of them the  *)
(* other stream may run, the source may disconnect, SQLite may be busy,    *)
(* and the process may die.  `block`, `finalized`, `progress` and `failed` *)
(* survive a crash, everything else is lost.                               *)
(*                                                                         *)
(* A block is its content address.  Whether a block satisfies its          *)
(* predicates is the constant Valid: validation reads only the state left  *)
(* by the finalized blocks below it, which never changes.                  *)
(***************************************************************************)
EXTENDS Integers, Sequences

CONSTANTS
    Blocks,         \* block content addresses
    Number,         \* Number[b]: the block number in b's header
    Sets,           \* Sets[b]: the solution sets of b, in order
    Valid,          \* the blocks whose solution sets satisfy their predicates
    NoBlock,        \* "no block"
    MaxWord,        \* the largest block number, i64::MAX in the code
    BigBangs,       \* the big bang blocks the node may be configured with
    EnsureBigBang,  \* may the program start with / without ensure_big_bang_block
    RunRelayer,     \* may the program start with / without a relayer
    RunValidation,  \* may the program start with / without validation
    Sources,        \* the sets of blocks the relayer's source may serve; it may
                    \* serve another one on each connection
    Orderly,        \* does the source send the blocks it is asked for, in order
    StateReadsFail  \* can a state read fail while predicates are checked

ASSUME NodeAssumption ==
    /\ MaxWord \in Nat \ {0}
    /\ Number \in [Blocks -> 0..MaxWord]
    /\ DOMAIN Sets = Blocks
    /\ Valid \subseteq Blocks
    /\ NoBlock \notin Blocks
    /\ BigBangs \subseteq {b \in Blocks : Number[b] = 0}
    /\ \A S \in Sources : S \subseteq Blocks
    /\ EnsureBigBang \subseteq BOOLEAN
    /\ RunRelayer \subseteq BOOLEAN
    /\ RunValidation \subseteq BOOLEAN
    /\ Orderly \in BOOLEAN
    /\ StateReadsFail \in BOOLEAN

VARIABLES
    \* The database.
    block,      \* table block
    finalized,  \* table finalized_block
    progress,   \* table validation_progress: its one row, or NoBlock
    failed,     \* table failed_block
    \* The program that embeds the node.
    main,       \* start-up and life of the process
    bigBang,    \* the configured big bang block, during start-up
    handle,     \* what the program does with the node's Handle
    \* The relayer task.
    rpc,        \* its position
    rprog,      \* the BlockProgress it read when it last connected
    rsource,    \* the blocks served on its current connection
    rnext,      \* the block number it expects next
    rblock,     \* the block it is writing
    rclose,     \* its shutdown channel has been signalled
    \* The validation task.
    vpc,        \* its position
    vprog,      \* the validation progress it read
    vblock,     \* the block it read next
    vintact,    \* does the block as read back hash to its address
    unseen,     \* its block listener has a change it has not seen
    vclose      \* its shutdown channel has been signalled

dbVars == <<block, finalized, progress, failed>>
rVars == <<rpc, rprog, rsource, rnext, rblock>>
vVars == <<vpc, vprog, vblock, vintact>>
hVars == <<handle, rclose, vclose>>
mVars == <<main, bigBang>>
vars == <<dbVars, mVars, hVars, rVars, vVars, unseen>>

MaybeBlocks == Blocks \cup {NoBlock}

FlagsOK == {rclose, vclose, vintact, unseen} \subseteq BOOLEAN

\* The type invariant: the tables hold blocks, every task stands at one of its
\* positions, and the expected block number stays within the words.
TypeOK ==
    /\ FlagsOK
    /\ block \subseteq Blocks
    /\ finalized \subseteq Blocks
    /\ progress \in MaybeBlocks
    /\ failed \subseteq Blocks
    /\ main \in {"down", "list", "insert", "begin", "set", "spawn", "listen", "run"}
    /\ bigBang \in MaybeBlocks
    /\ handle \in {"none", "held", "joining", "closing_relayer",
                   "closing_validation", "returned", "idle"}
    /\ rpc \in {"off", "absent", "progress", "connect", "first", "stream",
                "write", "notify", "done", "forked", "failed"}
    /\ rprog \in MaybeBlocks
    /\ rsource \in Sources \cup {{}}
    /\ rnext \in 0..MaxWord
    /\ rblock \in MaybeBlocks
    /\ vpc \in {"off", "absent", "progress", "next", "validate", "record",
                "more", "fail", "select", "done", "failed"}
    /\ vprog \in MaybeBlocks
    /\ vblock \in MaybeBlocks

Init ==
    /\ block = {} /\ finalized = {} /\ progress = NoBlock /\ failed = {}
    /\ main = "down" /\ bigBang = NoBlock
    /\ handle = "none" /\ rclose = FALSE /\ vclose = FALSE
    /\ rpc = "off" /\ rprog = NoBlock /\ rsource = {} /\ rnext = 0
    /\ rblock = NoBlock
    /\ vpc = "off" /\ vprog = NoBlock /\ vblock = NoBlock /\ vintact = TRUE
    /\ unseen = FALSE

-----------------------------------------------------------------------------
(* The database.                                                           *)

\* A finalized block is the one with the highest number.
IsLatest(b) == b \in finalized /\ \A c \in finalized : Number[c] <= Number[b]

\* get_next_block_addresses: every block numbered one above b.
NextBlocks(b) == {c \in block : Number[c] = Number[b] + 1}

\* Inserting a solution set that is already stored appends its mutations and
\* predicate data a second time: those tables have no unique constraint.  Both
\* blocks then read back with doubled rows and another content address.  (A
\* solution set stands for one with at least one mutation or predicate datum.)
Intact(b) ==
    \A i \in DOMAIN Sets[b] : \A c \in block : \A j \in DOMAIN Sets[c] :
        Sets[c][j] = Sets[b][i] => c = b /\ i = j

\* finalize_block aborts, and with it the transaction, when the number is
\* taken (primary key) or the block is finalized already (unique block_id).
NumberTaken(b) == \E c \in finalized : Number[c] = Number[b]

\* One transaction: insert_block and finalize_block.
InsertAndFinalize(b) ==
    /\ block' = block \cup {b}
    /\ finalized' = finalized \cup {b}
    /\ UNCHANGED <<progress, failed>>

-----------------------------------------------------------------------------
(* The process.                                                            *)

\* The process is gone: nothing but the database is left.
Halt ==
    /\ main' = "down" /\ bigBang' = NoBlock
    /\ handle' = "none" /\ rclose' = FALSE /\ vclose' = FALSE
    /\ rpc' = "off" /\ rprog' = NoBlock /\ rsource' = {} /\ rnext' = 0
    /\ rblock' = NoBlock
    /\ vpc' = "off" /\ vprog' = NoBlock /\ vblock' = NoBlock /\ vintact' = TRUE
    /\ unseen' = FALSE
    /\ UNCHANGED dbVars

\* The process is started (again), with some big bang configuration.
Start ==
    /\ main = "down"
    /\ \/ /\ TRUE \in EnsureBigBang
          /\ bigBang' \in BigBangs
          /\ main' = "list"
       \/ /\ FALSE \in EnsureBigBang
          /\ main' = "spawn"
          /\ UNCHANGED bigBang
    /\ UNCHANGED <<dbVars, hVars, rVars, vVars, unseen>>

\* Mutant: the start-up does not look for a block 0 before it inserts its own.
ListFirstBlockSkipped ==
    /\ main = "list"
    /\ main' = "insert"
    /\ UNCHANGED <<dbVars, bigBang, hVars, rVars, vVars, unseen>>

\* ensure_big_bang_block lists block 0.  A block that is not the configured
\* big bang block ends the start-up with BigBangError::UnexpectedBlock.
ListFirstBlock ==
    /\ main = "list"
    /\ \/ /\ \A b \in block : Number[b] # 0
          /\ main' = "insert"
          /\ UNCHANGED <<dbVars, bigBang, hVars, rVars, vVars, unseen>>
       \/ \E b \in block :
          /\ Number[b] = 0
          /\ IF b = bigBang /\ Intact(b)
             THEN /\ main' = "begin"
                  /\ UNCHANGED <<dbVars, bigBang, hVars, rVars, vVars, unseen>>
             ELSE Halt

\* ... inserts and finalizes the big bang block in one transaction ...
InsertBigBang ==
    /\ main = "insert"
    /\ InsertAndFinalize(bigBang)
    /\ main' = "begin"
    /\ UNCHANGED <<bigBang, hVars, rVars, vVars, unseen>>

\* ... reads the validation progress ...
ReadProgress ==
    /\ main = "begin"
    /\ main' = IF progress = NoBlock THEN "set" ELSE "spawn"
    /\ UNCHANGED <<dbVars, bigBang, hVars, rVars, vVars, unseen>>

\* ... and starts it at the big bang block if there is none.
SetProgress ==
    /\ main = "set"
    /\ progress' = bigBang
    /\ main' = "spawn"
    /\ UNCHANGED <<block, finalized, failed, bigBang, hVars, rVars, vVars, unseen>>

\* `run`: the relayer task is spawned first ...
SpawnRelayer ==
    /\ main = "spawn"
    /\ \E r \in RunRelayer : rpc' = IF r THEN "progress" ELSE "absent"
    /\ main' = "listen"
    /\ bigBang' = NoBlock
    /\ UNCHANGED <<dbVars, hVars, rprog, rsource, rnext, rblock, vVars, unseen>>

\* ... then the validation task, with a listener that has seen everything the
\* relayer announced so far.  The caller now owns the Handle.
SpawnValidation ==
    /\ main = "listen"
    /\ \E v \in RunValidation : vpc' = IF v THEN "progress" ELSE "absent"
    /\ unseen' = FALSE
    /\ main' = "run"
    /\ handle' = "held"
    /\ UNCHANGED <<dbVars, bigBang, rclose, vclose, rVars, vprog, vblock, vintact>>

\* The process dies at any point: killed, ctrl-c, a failing start-up step.
Crash == main # "down" /\ Halt

-----------------------------------------------------------------------------
(* The relayer task.                                                       *)

RelayerEnded == rpc \in {"absent", "done", "forked", "failed"}

\* The task returned a critical error: DataSyncError::Fork or another one.
RelayerErred == rpc \in {"forked", "failed"}

\* Parts of the state no relayer step touches.
rFrame == <<mVars, hVars, vVars>>

\* Mutant: the expected number does not saturate.
SuccOverflows(n) == n + 1

\* Word::saturating_add(1).
Succ(n) == IF n = MaxWord THEN n ELSE n + 1

\* What the source may send when number n is the next it was asked for.
Offered(n) == {b \in rsource : Orderly => Number[b] = n}

\* get_block_progress: the latest finalized block.
GetBlockProgress ==
    /\ rpc = "progress"
    /\ \/ finalized = {} /\ rprog' = NoBlock
       \/ \E b \in finalized : IsLatest(b) /\ rprog' = b
    /\ rpc' = "connect"
    /\ UNCHANGED <<dbVars, rFrame, rsource, rnext, rblock, unseen>>

\* stream_blocks: the source accepts the subscription.  sync_blocks then
\* expects the last synced block first, if there is one.
StreamBlocks ==
    /\ rpc = "connect"
    /\ rpc' = IF rprog = NoBlock THEN "stream" ELSE "first"
    /\ rnext' = IF rprog = NoBlock THEN 0 ELSE Succ(Number[rprog])
    /\ rsource' \in Sources
    /\ UNCHANGED <<dbVars, rFrame, rprog, rblock, unseen>>

\* Mutant: the first block is skipped without comparing it.
CheckBlockForkSkipped ==
    /\ rpc = "first"
    /\ ~rclose
    /\ Offered(Number[rprog]) # {}
    /\ rpc' = "stream"
    /\ UNCHANGED <<dbVars, rFrame, rprog, rsource, rnext, rblock, unseen>>

\* check_block_fork on the first block: another block at this number is a
\* critical error.
CheckBlockFork ==
    /\ rpc = "first"
    /\ ~rclose
    /\ \E b \in Offered(Number[rprog]) :
          rpc' = IF b = rprog THEN "stream" ELSE "forked"
    /\ UNCHANGED <<dbVars, rFrame, rprog, rsource, rnext, rblock, unseen>>

\* Mutant: the block number is not compared with the expected one.
ReceiveBlockAnyNumber ==
    /\ rpc = "stream"
    /\ ~rclose
    /\ \E b \in Offered(rnext) :
          rnext' = Succ(Number[b]) /\ rpc' = "write" /\ rblock' = b
    /\ UNCHANGED <<dbVars, rFrame, rprog, rsource, unseen>>

\* A block arrives.  One that is not the expected next block is a recoverable
\* error: the relayer reads its progress again and reconnects.
ReceiveBlock ==
    /\ rpc = "stream"
    /\ ~rclose
    /\ \E b \in Offered(rnext) :
          /\ rnext' = Succ(Number[b])
          /\ \/ /\ Number[b] = rnext
                /\ rpc' = "write"
                /\ rblock' = b
             \/ /\ Number[b] # rnext
                /\ rpc' = "progress"
                /\ UNCHANGED rblock
    /\ UNCHANGED <<dbVars, rFrame, rprog, rsource, unseen>>

\* write_block: one transaction.  A number that is taken violates the primary
\* key, rolls the transaction back and is a critical error.
WriteBlock ==
    /\ rpc = "write"
    /\ \/ /\ NumberTaken(rblock)
          /\ rpc' = "failed"
          /\ UNCHANGED dbVars
       \/ /\ ~NumberTaken(rblock)
          /\ InsertAndFinalize(rblock)
          /\ rpc' = "notify"
    /\ UNCHANGED <<rFrame, rprog, rsource, rnext, rblock, unseen>>

\* Mutant: the notification is dropped.
NotifyBlockLost ==
    /\ rpc = "notify"
    /\ rpc' = "stream"
    /\ rblock' = NoBlock
    /\ UNCHANGED <<dbVars, rFrame, rprog, rsource, rnext, unseen>>

\* notify.notify(): every existing listener has an unseen change.
NotifyBlock ==
    /\ rpc = "notify"
    /\ unseen' = (vpc \notin {"off", "absent"})
    /\ rpc' = "stream"
    /\ rblock' = NoBlock
    /\ UNCHANGED <<dbVars, rFrame, rprog, rsource, rnext>>

\* Mutant: the shutdown signal is checked once per connection only.
RelayerShutdownOnce ==
    /\ rclose
    /\ rpc = "first" /\ rpc' = "forked"
    /\ UNCHANGED <<dbVars, rFrame, rprog, rsource, rnext, rblock, unseen>>

\* take_until: the shutdown signal ends the stream.  Before the first block
\* this is reported as a fork (Fork(.., None)), later the task ends normally.
RelayerShutdown ==
    /\ rclose
    /\ \/ rpc = "first" /\ rpc' = "forked"
       \/ rpc = "stream" /\ rpc' = "done"
    /\ UNCHANGED <<dbVars, rFrame, rprog, rsource, rnext, rblock, unseen>>

RelayerStep ==
    \/ GetBlockProgress \/ StreamBlocks \/ CheckBlockFork \/ ReceiveBlock
    \/ WriteBlock \/ NotifyBlock \/ RelayerShutdown

\* The request to the source fails or is answered with a bad status: the task
\* starts over, whether or not it was told to shut down.
ConnectFails ==
    /\ rpc = "connect"
    /\ rpc' = "progress"
    /\ UNCHANGED <<dbVars, rFrame, rprog, rsource, rnext, rblock, unseen>>

\* The connection breaks or carries an undecodable event, or SQLite is busy:
\* recoverable, the task starts over.
RelayerRecovers ==
    /\ \/ rpc \in {"first", "stream"} /\ ~rclose
       \/ rpc = "write"
    /\ rpc' = "progress"
    /\ rblock' = NoBlock
    /\ UNCHANGED <<dbVars, rFrame, rprog, rsource, rnext, unseen>>

\* The source ends the stream.
SourceEnds ==
    /\ ~rclose
    /\ \/ rpc = "first" /\ rpc' = "forked"
       \/ rpc = "stream" /\ rpc' = "done"
    /\ UNCHANGED <<dbVars, rFrame, rprog, rsource, rnext, rblock, unseen>>

\* Any other database error is critical.
RelayerDbError ==
    /\ rpc \in {"progress", "write"}
    /\ rpc' = "failed"
    /\ UNCHANGED <<dbVars, rFrame, rprog, rsource, rnext, rblock, unseen>>

RelayerFault == ConnectFails \/ RelayerRecovers \/ SourceEnds \/ RelayerDbError

-----------------------------------------------------------------------------
(* The validation task.                                                    *)

ValidationEnded == vpc \in {"absent", "done", "failed"}

\* Parts of the state no validation step touches.
vFrame == <<mVars, hVars, rVars>>

\* get_last_progress; no progress at all is a critical error.
GetLastProgress ==
    /\ vpc = "progress"
    /\ vprog' = progress
    /\ vblock' = NoBlock
    /\ vpc' = IF progress = NoBlock THEN "failed" ELSE "next"
    /\ UNCHANGED <<dbVars, vFrame, vintact, unseen>>

\* get_next_block: the block above the progress, read back from the database;
\* two of them are a critical error, none means the head was reached.
GetNextBlock ==
    /\ vpc = "next"
    /\ \/ /\ NextBlocks(vprog) = {}
          /\ vpc' = "select"
          /\ UNCHANGED <<vblock, vintact>>
       \/ \E b \in NextBlocks(vprog) :
          IF NextBlocks(vprog) = {b}
          THEN vblock' = b /\ vintact' = Intact(b) /\ vpc' = "validate"
          ELSE vpc' = "failed" /\ UNCHANGED <<vblock, vintact>>
    /\ UNCHANGED <<dbVars, vFrame, vprog, unseen>>

\* Mutant: every block passes.
ValidateBlockAlways ==
    /\ vpc = "validate"
    /\ vpc' = "record"
    /\ UNCHANGED <<dbVars, vFrame, vprog, vblock, vintact, unseen>>

\* validate: the solution sets are checked one after the other.  What a block
\* that did not read back intact validates to is unknown.
ValidateBlock ==
    /\ vpc = "validate"
    /\ \/ (vblock \in Valid \/ ~vintact) /\ vpc' = "record"
       \/ (vblock \notin Valid \/ ~vintact) /\ vpc' = "fail"
    /\ UNCHANGED <<dbVars, vFrame, vprog, vblock, vintact, unseen>>

\* Valid: update_validation_progress with the address of the block that was
\* read.  An address that is not in the block table violates NOT NULL, a
\* recoverable error.
RecordProgress ==
    /\ vpc = "record"
    /\ IF vintact
       THEN progress' = vblock /\ vpc' = "more"
       ELSE vpc' = "progress" /\ UNCHANGED progress
    /\ UNCHANGED <<block, finalized, failed, vFrame, vprog, vblock, vintact, unseen>>

\* Mutant: after a valid block the stream always waits for a notification.
MoreBlocksWaits ==
    /\ vpc = "more"
    /\ vpc' = "select"
    /\ vblock' = NoBlock
    /\ UNCHANGED <<dbVars, vFrame, vprog, vintact, unseen>>

\* ... then, in a transaction of its own, are there blocks above it?
MoreBlocks ==
    /\ vpc = "more"
    /\ vpc' = IF \E b \in finalized : Number[b] > Number[vblock]
              THEN "progress" ELSE "select"
    /\ vblock' = NoBlock
    /\ UNCHANGED <<dbVars, vFrame, vprog, vintact, unseen>>

\* Mutant: the progress is recorded as failed instead of the block above it.
RecordFailedProgress ==
    /\ vpc = "fail"
    /\ failed' = IF vintact THEN failed \cup {vprog} ELSE failed
    /\ vpc' = "select"
    /\ UNCHANGED <<block, finalized, progress, vFrame, vprog, vblock, vintact, unseen>>

\* Invalid: insert_failed_block; an address that is not in the block table is
\* ignored.  The progress stays below the block.
RecordFailed ==
    /\ vpc = "fail"
    /\ failed' = IF vintact THEN failed \cup {vblock} ELSE failed
    /\ vpc' = "select"
    /\ UNCHANGED <<block, finalized, progress, vFrame, vprog, vblock, vintact, unseen>>

\* Mutant: the closed channel wins over the last notification.
AwaitNewBlockCloses ==
    /\ vpc = "select"
    /\ \/ vclose /\ vpc' = "done" /\ UNCHANGED unseen
       \/ unseen /\ unseen' = FALSE /\ vpc' = "progress"
       \/ RelayerEnded /\ vpc' = "done" /\ UNCHANGED unseen
    /\ UNCHANGED <<dbVars, vFrame, vprog, vblock, vintact>>

\* select!: shutdown, a new block, or every BlockTx was dropped (the relayer
\* task owns the last one).  An unseen change is reported before the closure.
AwaitNewBlock ==
    /\ vpc = "select"
    /\ \/ vclose /\ vpc' = "done" /\ UNCHANGED unseen
       \/ unseen /\ unseen' = FALSE /\ vpc' = "progress"
       \/ ~unseen /\ RelayerEnded /\ vpc' = "done" /\ UNCHANGED unseen
    /\ UNCHANGED <<dbVars, vFrame, vprog, vblock, vintact>>

ValidationStep ==
    \/ GetLastProgress \/ GetNextBlock \/ ValidateBlock \/ RecordProgress
    \/ MoreBlocks \/ RecordFailed \/ AwaitNewBlock

\* A database error while validating or recording is recoverable: the stream
\* starts over.
ValidationRecovers ==
    /\ vpc \in {"validate", "record", "more", "fail"}
    /\ vpc' = "progress"
    /\ UNCHANGED <<dbVars, vFrame, vprog, vblock, vintact, unseen>>

\* Any database error in get_next_block is critical.
NextBlockError ==
    /\ vpc = "next"
    /\ vpc' = "failed"
    /\ UNCHANGED <<dbVars, vFrame, vprog, vblock, vintact, unseen>>

\* An error of a state read made by check_set_predicates is an Err of it like
\* an unsatisfied constraint, and makes the block invalid.
StateReadError ==
    /\ StateReadsFail
    /\ vpc = "validate"
    /\ vpc' = "fail"
    /\ UNCHANGED <<dbVars, vFrame, vprog, vblock, vintact, unseen>>

ValidationFault == ValidationRecovers \/ NextBlockError \/ StateReadError

-----------------------------------------------------------------------------
(* The handle.                                                             *)

\* Parts of the state no step of the handle touches.
hFrame == <<dbVars, mVars, rVars, vVars, unseen>>

\* The program awaits Handle::join, as the CLI does ...
Join ==
    /\ handle = "held"
    /\ handle' = "joining"
    /\ UNCHANGED <<rclose, vclose, hFrame>>

\* ... which returns early when a stream failed, dropping (and so signalling)
\* the others, and otherwise when both ended.  Without a relayer the CLI then
\* idles for the sake of its API.
JoinReturns ==
    /\ handle = "joining"
    /\ \/ /\ RelayerErred \/ vpc = "failed"
          /\ handle' = "returned"
          /\ rclose' = TRUE /\ vclose' = TRUE
       \/ /\ rpc \in {"absent", "done"} /\ vpc \in {"absent", "done"}
          /\ handle' = IF rpc = "absent" THEN "idle" ELSE "returned"
          /\ UNCHANGED <<rclose, vclose>>
    /\ UNCHANGED hFrame

\* Handle::close signals the relayer and awaits it ...
Close ==
    /\ handle = "held"
    /\ handle' = "closing_relayer"
    /\ rclose' = TRUE
    /\ UNCHANGED <<vclose, hFrame>>

\* ... then signals the validation stream, and returns at once if the relayer
\* failed ...
CloseRelayerJoined ==
    /\ handle = "closing_relayer"
    /\ RelayerEnded
    /\ vclose' = TRUE
    /\ handle' = IF RelayerErred THEN "returned" ELSE "closing_validation"
    /\ UNCHANGED <<rclose, hFrame>>

\* ... or when the validation stream has ended.
CloseValidationJoined ==
    /\ handle = "closing_validation"
    /\ ValidationEnded
    /\ handle' = "returned"
    /\ UNCHANGED <<rclose, vclose, hFrame>>

\* The Handle, or the future of join or close, is dropped.
DropHandle ==
    /\ handle \in {"held", "joining", "closing_relayer", "closing_validation"}
    /\ handle' = "returned"
    /\ rclose' = TRUE /\ vclose' = TRUE
    /\ UNCHANGED hFrame

\* The program ends once its node has returned.
Exit == handle = "returned" /\ Halt

HandleStep == Join \/ JoinReturns \/ CloseRelayerJoined \/ CloseValidationJoined

-----------------------------------------------------------------------------
BootStep ==
    \/ ListFirstBlock \/ InsertBigBang \/ ReadProgress \/ SetProgress
    \/ SpawnRelayer \/ SpawnValidation

\* What the program does by itself, once it runs.
CodeStep == BootStep \/ RelayerStep \/ ValidationStep \/ HandleStep

\* What is done to it.
EnvStep == RelayerFault \/ ValidationFault \/ Close \/ DropHandle \/ Crash

Next == Start \/ Exit \/ CodeStep \/ EnvStep

Spec == Init /\ [][Next]_vars

\* Each task is scheduled again and again by the runtime, a request to the
\* source is answered or fails, and an ended process is restarted by its
\* operator.
Fairness ==
    /\ WF_vars(Start)
    /\ WF_vars(Exit)
    /\ WF_vars(BootStep)
    /\ WF_vars(RelayerStep \/ ConnectFails)
    /\ WF_vars(ValidationStep)
    /\ WF_vars(HandleStep)

FairSpec == Spec /\ Fairness

-----------------------------------------------------------------------------
(* Properties.                                                             *)

\* There is one block per number in the database, although the block table
\* itself does not require it: the validation stream never meets a fork
\* (CriticalError::Fork), however often the relayer reconnects to a source
\* that serves something else.
OneBlockPerNumber ==
    \A b, c \in block : Number[b] = Number[c] => b = c

\* Two blocks that follow one another were served together by one source:
\* check_block_fork stops the relayer from growing its chain with the blocks
\* of a source that disagrees about the tip.
NoForkedGrowth ==
    \A b, c \in finalized :
        Number[c] = Number[b] + 1 => \E S \in Sources : {b, c} \subseteq S

\* The validation progress is a finalized block, and every block above the
\* big bang block up to it is finalized and valid: no crash, retry or race
\* with the relayer makes validation skip a block.
ProgressSound ==
    progress # NoBlock =>
        /\ progress \in finalized
        /\ \A n \in 1..Number[progress] :
              \E b \in finalized \cap Valid : Number[b] = n

\* Only blocks that do not satisfy their predicates are recorded as failed.
FailedAreInvalid == failed \cap Valid = {}

\* No wake-up is lost: when the validation stream waits with nothing unseen,
\* and the relayer is not between its commit and its notification, there is no
\* next block except the one the stream has just found invalid.
NoLostWakeup ==
    vpc = "select" /\ ~unseen /\ rpc # "notify" =>
        NextBlocks(progress) \subseteq {vblock}

\* A validation stream that ended because the block channel was dropped has
\* validated everything the relayer left behind.
DrainsBeforeEnding ==
    vpc = "done" /\ ~vclose => NextBlocks(progress) \subseteq {vblock}

\* The node implements the abstract chain.
Abstract == INSTANCE Chain WITH chain <- finalized, validated <- progress

ChainSpec == Abstract!Spec

\* The environment calms down: from some point on there is no crash, no
\* disconnect, no database error and no shutdown.
Calm == <>[][~EnvStep]_vars

\* Every block of every source is finalized, and validated if its predecessors
\* there are valid, once the environment has calmed down: no crash,
\* disconnect, busy database or early shutdown leaves the node stuck.
CatchesUp ==
    Calm =>
        \A S \in Sources : \A b \in S :
            /\ <>[](b \in finalized)
            /\ (\A c \in S : 0 < Number[c] /\ Number[c] <= Number[b] => c \in Valid)
                 => <>[](progress # NoBlock /\ Number[progress] >= Number[b])

\* Handle::close returns once the environment has calmed down: both streams
\* notice their shutdown signal, wherever they are when it is sent.
CloseCompletes ==
    Calm => (handle \in {"closing_relayer", "closing_validation"}
                ~> handle \in {"returned", "none"})
=============================================================================
