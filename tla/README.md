# Verification of essential-node

TLA+ models of the Essential node, the TLC runs that check them on small
instances, and TLAPS proofs of the main results for every instance. Paths are
relative to `src/crates/`.

## The system

A node follows the chain of another node. Its **relayer** streams blocks from
the other node's API into a SQLite database, its **validation stream** checks
them one after the other, its **API** answers queries and streams the same
blocks to further relayers. One process runs all of it on tokio; the parts meet
in the database, in the connection pools and in one watch channel.

| Part | State | Operations | Hard behaviour |
|---|---|---|---|
| Connection pool, `rusqlite-pool` | idle queue, semaphore, lent handles | `acquire`, `try_acquire`, drop, `close` | permit and connection change hands in two steps; cancelled futures; close against everything |
| Block database, `node-db`, `node-db-sql` | tables `block`, `block_solution_set`, `solution_set`, `solution`, `mutation`, `pred_data`, `finalized_block`, `validation_progress`, `failed_block`, `state` | the six writes, `get_block`, `get_solution_set`, listings, queries by block address | survives crashes; constraints decide what a transaction does; blocks are rebuilt from joined rows |
| Start-up, `node/src/lib.rs` | the four tables | `ensure_big_bang_block`, `run` | three transactions, a crash between any two, changed configuration |
| Relayer, `relayer` | its progress, the connection, the expected number | connect, fork check, write, notify, retry, shut down | unreliable source, reconnection, busy database, shutdown at any point |
| Validation stream, `node/src/validation.rs` | the progress and block it read | read, validate, record, wait | races with the relayer's commits and notifications, retries |
| Block validation, `node/src/validate.rs` | none | `validate`, the two dry runs | state reads are separate transactions; dry runs cascade from memory to disk |
| State queries, `query_range/finalized.rs`, `query-state` endpoint | none | five queries | boundaries: block 0, first set, beyond the tip |
| Block notifications, `block_notify.rs` | version per listener | `notify`, `new_listener`, `changed` | clone and fresh listeners, dropped sender |
| Subscriptions, `subscribe_blocks` | block number, listener | poll | committed but not announced blocks, dropped notifier, closed pool, errors, the largest number |
| Stream decoding, `relayer/src/sync/streams.rs` | the read buffer | decode a frame, decode the end | frames cut anywhere, keep-alives, ends and resets, reconnection |
| Handles, `handles/`, `relayer/src/handle.rs` | shutdown channels | `join`, `close`, drop | close while the streams are anywhere |
| API server, `node-api/src/lib.rs` | listener, `JoinSet` of connection tasks | accept, join, serve | connection limit, tasks that panic, failing accepts |
| Command line, `node-cli` | the process | `run` | interrupt, end and error of the node, idle node, panic |
| Types, registry mutations | none | pure | - |

What makes the parts correct: no connection lent twice or lost, a permit backed
by a connection, no lost waiter (pool); one block per number, no growth across a
fork, no lost notification, no skipped or lost block over crashes and retries
(relayer, validation, start-up); a block reads back as it was written, listings
return each block once (database); a read sees exactly the mutations before it
(queries, dry runs); a subscriber sees every block once and in order, and so
does the relayer behind its connection (subscriptions, decoding); the limit is
kept and nobody waits while there is room (server); closing ends (handles).
`PROJECT.json` lists the hazards
behind these at their lines.

## Modules

| Module | Content |
|---|---|
| `ConnPool` | the connection pool and its semaphore |
| `ConnPoolProofs` | its theorems |
| `Chain` | the abstract specification: a chain of finalized blocks that grows block by block, and a validated prefix of it |
| `Node` | one process with its database: start-up, relayer, validation stream, channel, handle; implements `Chain` |
| `NodeProofs` | its theorems, the refinement included |
| `Store` | the database: all tables with their constraints, the writes, listings and queries by block address |
| `StoreProofs` | its theorems: typing and references, reading back, queries by block address |
| `ListingProofs` | its theorems about listings: every block once, failed and unchecked blocks, pages |
| `StateQuery` | state queries, key ranges and dry runs over a growing chain, against a replay of the chain |
| `StateQueryProofs` | lemmas: the searches, the dry runs and the key ranges find what the replay leaves |
| `Validate` | one validation, look-up by look-up; runs the queries and dry runs of `StateQuery` |
| `ValidateProofs` | its theorems, and those about the reads of `StateQuery` |
| `Subscribe` | block subscriptions of one node |
| `Relay` | a subscription on its way to the relayer of another node: SSE, bytes, decoder, reconnection; runs the streams of `Subscribe` |
| `RelayProofs` | its theorems |
| `Serve` | the process around a node: accept loop, connection tasks, interrupt, exit |
| `ServeProofs` | its theorems |
| `MC*` | instances for TLC |

Definitions named `Mutant: ...` in their comment are not part of any
specification. Each is a wrong version of the definition after it; put in its
place it must make a property fail, which shows that the property depends on
that code (`PROJECT.json`, "mutants").

### ConnPool

`queue` is the `ArrayQueue`, `permits` and `waiters` are tokio's semaphore,
`held[t]` the handles of task `t`. `acquire` is three steps: take or wait for a
permit (`Acquire`), be polled with an assigned one (`PollAssigned`), `Pop`. A
drop is two, in field order: `DropConn`, `DropPermit`. `close` closes the
semaphore (`CloseSemaphore`) and then pops one connection per step
(`CloseConn`). `Cancel` drops the future of a waiting `acquire`. The semaphore is
a library and modelled from its documented behaviour: first in, first out; a
released permit goes to the oldest waiter; a closed one refuses at the next
poll. Which idle connection is popped is left open. The one connection pool
of `Memory` (dry runs) is an instance with one connection.

### Node and Chain

The four tables are sets of blocks; a block is its content address, with
constants for its number, its solution sets and whether it satisfies its
predicates. Each database transaction is one step. Positions of the tasks:
`main` walks through `ensure_big_bang_block` and `run`; `rpc` through
`run_blocks` and `sync_blocks`; `vpc` through `validation_stream` and
`validate_next_block`; `handle` through `Handle::join` and `Handle::close`.
`Crash` loses everything but the tables; `Start` may come with another big bang
configuration.

- Errors are split as the code splits them. Relayer: connection, decoding,
  sequence and busy errors restart it (`ConnectFails`, `RelayerRecovers`,
  `ReceiveBlock`), forks and other database errors end it. Validation: errors
  while validating or recording restart it (`ValidationRecovers`); any error
  in `get_next_block` ends it (`NextBlockError`); an error of a state read
  makes the block invalid (`StateReadError`).
- The watch channel is `unseen`: the listener has a version it has not seen.
  As in tokio, an unseen change is reported before the closure of the channel.
  The relayer task owns the last `BlockTx`, as under the CLI.
- `select!` picks any ready branch.
- `Intact` is what the solution set tables come to: a solution set that is
  stored for a second time appends its mutations again. `ReadsBack` in `Store`
  checks this abstraction on the tables themselves.
- Validity is a constant of the block. `VerdictIsReplay` in `Validate` justifies
  that: a verdict depends on the chain below the block only.

`Chain` has no process, no source and no crash: `Finalize`, `Begin`, `Validate`.
The refinement maps `chain` to the finalized blocks and `validated` to the
validation progress.

### Store

The rows of all ten tables, as sets where a `UNIQUE` constraint with `OR IGNORE`
makes them sets, as sequences where none does (`mutation`, `pred_data`: their
`ORDER BY` stands behind a semicolon and is dropped, rows come by row id). Keys
and values are blobs of words in two's complement, with a smaller width. Each
write is one transaction, `InsertAndFinalize` the one that relayer and start-up
use. `update_state`, `delete_state` and the queries by block address are public
but not used by the node. `RowsOf` is the join over `block_solution_set`,
`Collect` the loop that cuts the rows into blocks. `copies` and `inserts` count
the insertions of one set and of all, as history for the properties and as the
bound of the model. `AddressReadsOwnBlock` leaves out keys to which a set of the
block gives two values (`OneValue`): there the SQL takes either.

`parent_block_id` is 0 for every block, since `insert_block` always gives the
zero address as parent: `get_parent_block_address` finds none, and the recursion
of `query_state_block_address.sql` ends at its first block.

### StateQuery

The database stores mutations, not state. A query is a search for the last row
before a bound. The model keeps the searches (`Rows`, `Before`, `LastValue` are
the joins, the order and the limit of the SQL) and compares them with `Replay`,
which applies solution sets in order. `Cascade` asks the in-memory database of a
dry run first. `dry.height` and `dry.kind` are history for the properties. A
key stands for contract and key. A solution set mutates a key at most once:
with two mutations of one key in a set the SQL leaves the choice open.

### Validate

`validate_inner` in its transactions: one per predicate (`QueryPredicate`), one
per program (`QueryProgram`), one per read of a check, with blocks finalized in
between. The registries are contracts, so their entries are keys of the chain's
state: the constants say which key registers a predicate, which holds it, which
holds a program. Values that have a valid length and decode are constants as
well. `check_set_predicates` is a library: it reads some keys of the state
before the set and compares them (`Expects`). The reference judges the sets by
`Replay`. A dry run is compared with it as long as the chain stands still and
its number is not below the tip's successor.

### Subscribe and Relay

`Subscribe` is one stream per subscriber, following `subscribe_blocks`: acquire a
connection, list one block, emit it or drop the connection and wait. The
relayer commits and notifies in two steps. The API clones its own listener,
which never reads, so a new stream may start with an unseen change (`clone`);
other users make a fresh one; an API without notifier ends streams at the head
(`none`). Blocks are numbers, which `OneBlockPerNumber` and `ChainSpec` of
`Node` justify. `block_ix + 1` overflows behind the largest number: a panic or an
empty range, depending on the build.

`Relay` puts the rest of the way around it. `wire` is what hyper has sent, `buf`
and `readable` are tokio-util's `FramedRead`, `have` is what the downstream node
has stored. A block is one token, followed by an empty line of two; `Receive`
delivers any part of what was sent, so frames arrive cut at any token. `Decode`
and `DecodeEof` are `SseDecoder`; two of their habits are kept: a keep-alive is
no item, so that `FramedRead` reads again although a frame may be in the buffer,
and at the end of the response anything left is an error after the frames were
decoded. What `sync_blocks` makes of an item is `SyncBlock` or `RejectBlock`.
After every error, reset or fault the relayer connects again from its last block.

Faults are bounded by `MaxFaults`: a broken connection, a busy database on
either side, a restart downstream, a keep-alive that is not for want of a block
(a stalled pool or connection). The nodes hold prefixes of one chain; forks are
the matter of `Node`.

### Serve

`serve` is a loop of three positions: `check` the limit, `join` a task, `accept`.
A task that ended counts until it is joined. A task that panicked is a join
error, which drops the accept and starts over. `Select` is the `select!` of the
command line's `run`: an interrupt, or `node_future` (`NodeFuture`), drops the
server and its `JoinSet`, which aborts the tasks. A limit of 0 makes the join of
an empty set panic, which unwinds `run` without closing the pools. `close` of the
second pool is skipped if that of the first is an error.

## Runs

| Run | Shows | Bounds and why they suffice |
|---|---|---|
| `pool` | accounting of connections and permits, service of waiters, nothing after close, every queued `acquire` returns | 2 connections, 4 tasks, one with two handles: both connections lent while two tasks wait, one of them is cancelled, a permit is assigned while close runs |
| `node` | all safety of the node, its typing and the refinement | 6 blocks: two big bangs, a chain of three whose last is invalid, a fork at 2; three sources that may replace each other at each connection and send any of their blocks at any time; two configurations, any subset of streams, with and without start-up; failing state reads; numbers saturate at 3, which is reached |
| `node_live` | `CatchesUp`, `CloseCompletes`, and `FailedAreInvalid` while state reads succeed | one source with three blocks above the big bang, the last of them invalid; numbers do not saturate |
| `validate` | the verdict of a validation against the replay, gas within its width; state queries, key ranges, dry runs and validation reads against the replay | 2 blocks of up to 2 sets, keys of two binary words (carry and last key happen), 5 sets that store, register, use, spoil, empty and break one predicate and its program: every outcome occurs; gas overflows with two of the dearer sets |
| `store` | what reads back, the listings and their pages, failed and unchecked blocks, queries by block address | 5 blocks: a big bang, two at number 1 that share a harmless set, one that has a set twice and shares it, one without sets; 6 insertions of sets, which allows each to come twice; 2 failed rows; words of two bits |
| `relay` | order, wake-ups, end of subscriptions, what is in flight, no false alarm, every stored block arrives | 1 connection (they share nothing they change), 3 blocks, one of them unreadable, up to the largest number; two frames on the wire; 1 error per stream, 1 fault; all three kinds of listener; a relayer that starts with any number of blocks |
| `serve` | the limit, the panic of `next_conn`, why the process stops, service of waiting clients, errors end the process | 3 connections, limits 0 to 2, one failing accept: the server is full with somebody waiting, and with tasks that ended in either way |

Runs that end in a violation show what the code does where it differs from
what its documentation, an assertion or a name says. Each checks one property:

- `pool_close_race`: a task between permit and pop panics when the pool is
  closed (`rusqlite-pool/src/tokio.rs:65`). The proofs show that this is the only
  way to that panic.
- `pool_dry_runs`: solution set dry runs hold a connection while they acquire
  another one; as many as there are connections block each other for ever.
- `store_shared_sets`: a solution set in two blocks, or twice in one, doubles its
  rows and its blocks do not read back with their addresses.
- `node_state_read`: a failed read during predicate checking makes a valid block
  a failed one.
- `dry_run_number`: a solution set dry run is numbered like the latest block, not
  after it, and does not see that block's mutations.

More observations, without a run:

- The relayer looks at its shutdown signal only on an established stream: while
  requests to the source fail, `close` does not return (`relayer/src/lib.rs:86`);
  `CloseCompletes` therefore supposes that they stop failing.
- A stream that ends before its first block, through a shutdown or because the
  source closed it, is reported as a fork (`relayer/src/sync.rs:155`), which is
  critical; `NoFalseAlarm` says that this is the only false one.
- An emptied entry under a predicate's registration key still registers it, since
  `query_predicate` only asks whether there is a value (`node/src/validate.rs:510`);
  `QueryPredicate` and the reference follow the code.
- `list_blocks_by_time` takes the start of its range by whole seconds
  (`list_blocks_by_time.sql:14`: the first alternative covers the second), so that
  blocks before the start's nanoseconds are listed as well.
- A query by block address whose key is set by a later set of the block only falls
  back to the finalized state up to and including the block's number; if the
  block is finalized that is the later set's value. A key that the block does
  not set at all is `None`, although the module says that these queries "fall back
  to finalized queries if the value is not found" (`query_range/address.rs:3`).
- A block without solution sets is stored but can be read by no query: the
  `LEFT JOIN` yields a NULL address. Subscriptions do not get past it.
- Several keep-alives left in the decoder's buffer when the response ends are an
  error ("bytes remaining on stream"), which reconnects.

## Fairness

- `ConnPool`: a ready future is polled, and a task that holds a handle goes on
  (tokio's scheduling; queries end). Nobody has to ask for a connection or to
  close the pool.
- `Node`: weak fairness for each task as a whole, start-up and restart. For the
  relayer a failing connection counts as progress: a request is answered or
  fails, nothing more. `CatchesUp` and `CloseCompletes` are stated under `Calm`:
  from some point on no crash, disconnect, database error or shutdown. That
  is a hypothesis of the property, not of the specification.
- `Relay`: weak fairness for each step of a node that runs: the notification
  after a commit, the steps of a polled stream, the timer of the keep-alive, what
  was sent arrives, the relayer decodes, connects and reconnects. Faults are not
  fair, nor are commits. A query that fails for a busy database is a fault,
  one that fails for its block is fair. `EveryBlockDelivered` exempts blocks at
  and behind an unreadable one, closed pools, and an API without notifier.
- `Serve`: the main task is polled. Nobody has to connect, to leave or to
  interrupt. That the tasks of connections end is not assumed: a full server
  may keep a client waiting.

Deadlock is checked in every passing run but `relay` and `serve`, where the
system may stop: every block is stored and the pool closed, or the process has
exited. `pool_dry_runs` switches it off, since its tasks stop, which is the
finding.

## Proofs

**ConnPoolProofs** proves the pool's invariants for all finite sets of
connections and tasks. `PoolInv` joins `TypeOK`, `ConnsConserved`,
`PermitsBacked`, `WaitersConsistent` (the queue holds exactly the waiting tasks, and
no permit is idle while one waits) and, while the pool is open, that nobody
panicked. `PermitsBacked` is a count: idle connections = available permits + tasks
between permit and connection. Its proof counts how a step moves one task
in or out of flight (`FlightCount`, `FlightHandover`) and treats the release of a
permit once for all its callers (`ReleaseKeepsAccount`). It needs
`WaitersConsistent`, as a handover would otherwise pass a permit to a task
that is in flight already, and `ConnsConserved`, as a returned connection must be
new to the queue. `ExpectHolds` follows: a task with a permit is in flight, so
the queue is not empty.

**NodeProofs** proves the node's invariants and the refinement for all sets of
blocks, sources and configurations, ordered or not, with failing state reads or
not. From `NodeAssumption`, in short: numbers are words, big bang blocks have
number 0, sources serve blocks. `NodeInv` adds to typing and the checked
properties:

- `ChainShape`: stored and finalized blocks coincide, have one block per number
  and no gap;
- `StartUpInv`: between the transactions of the start-up, what was already read or
  written still holds, since no stream runs yet;
- `RelayerInv`: from the fork check on, the expected number is the one above the
  tip (`TipNumber`), or saturated, and the tip is a block of the present
  source (`TipServed`); this is what makes the writes extend the chain;
- `FailedNearProgress`: a failed block is at most one above the progress, however
  often validation was retried;
- `ValidationInv`: the progress and the block held by the validation task are what
  the database still says, and a waiting or ended task has nothing left to do
  unless it is being notified.

Each action, or group of actions with one argument, has a lemma. `Refinement`
needs the invariant for writes (`FinalizeImplements`) and for progress
(`ProgressImplements`); everything else stutters.

`OnlyInvalidBlocksFail` proves `FailedAreInvalid` under the assumption that state
reads do not fail, which `node_state_read` shows to be needed. Its invariant
`FailInv` says what the validation task knows of its block: one that is about
to be recorded as failed is invalid or did not read back.

**RelayProofs** proves, for any number of subscribers, blocks, unreadable blocks
and any kind of listener, typing and the three properties of the streams as they
run under `Relay`, with all faults. `StreamInv` adds to them that a stream that is
gone keeps nothing (`OffIsClean`), that a notifier is dropped only after
its last notification (`DroppedIsNotified`), and that between its query and its
wait (`QuietAtTheHead`) and at its end (`EndedByDrop`) a stream has emitted what
is stored unless a notification is unseen or under way. Every step downstream
is one of `Subscribe` or leaves its variables alone, so that each action of
`Subscribe` is proved once.

**ServeProofs** proves typing, `ConnectionLimit` and `StopsForAReason` for all limits
and finite sets of connections, the latter from `PanicsOnlyWithoutLimit`: the join
of an empty set needs a limit of 0. The limit needs
`RoomToAccept`: a server at `accept` has fewer tasks than its limit, which the join
of one task restores because the set never exceeds the limit.

The second half of the module is the way of a block to the other node:
`InFlight`, `NoFalseAlarm` and `DoneAtTheHead`. `DeliveryInv` says of each
connection that what hyper has sent and the decoder has not used, buffer and wire
in one sequence, consists of whole frames, a body at every third token, and that
their blocks are those from the one that `sync_blocks` awaits (`Awaited`) up to the
stream's position, in order. Frames arrive cut anywhere, but a cut moves tokens
from the wire to the buffer and leaves the sequence as it is. So the decoder
finds the awaited block at the front of its buffer or none at all (`FirstFrame`),
and the end of a response leaves nothing of a block behind. Without connection
nothing is under way.

**StateQueryProofs** has the lemmas about the queries, for all chains, keys and
solution sets. The rows below a bound are finite and have a last one
(`LastExists`). Finalizing a block adds rows above the bound only (`RowsStay`), so a
search below it finds the same row with the same value (`SearchIsStable`). One
more solution set either adds a later row for the key or none, and it sets the
key or leaves it, so that search and replay go on alike (`SearchReplays`); from
this follow the five queries (`QueriesReplayed`), the cascade of a dry run from
memory to disk (`DryRunReplayed`), and key ranges, for which `NextKeyFollows` shows
that the increment with its carry leads to the next key in order
(`RangesReplayed`).

**ValidateProofs** proves typing, `ValidationReadsStable`, `ReadsReplay`,
`DryRunReadsReplay` and `VerdictIsReplay`, for all chains and solution sets.
`VerdictInv` joins typing, `TargetInv` (what is validated is a block of the chain or
that of the dry run) and, for as long as the property compares (`Settled`),
`Progress`: the sets before the one under way are in order by the replay, with the
gas they spend, and of that one the predicates, programs and values looked up so
far agree with the replay. A validation reads in many transactions; `Progress`
outlives the blocks that are finalized in between since they are above what is
read (`ProgressStands`).

**StoreProofs** proves `TypeOK`, `ReadsBack` and `AddressReadsOwnBlock`, for all
blocks, solution sets and word sizes. Words read back from their bytes
(`WordReads`, with two's complement) and from their blobs (`BlobReads`).
`StoreInv` says what the tables hold: the mappings of the stored blocks, for each
set as many copies of the rows of one insertion as it was inserted
(`RowsInv`), and references that hold (`ReferencesInv`). `SetReads` rebuilds a set
from one copy; `SetReadsMore` shows that with a second copy it cannot come out
right, which gives `ReadsBack` both its directions. For queries by block
address the matching rows are those of the block's own sets (`HitsAre`), the
last of which is the last write, however many copies there are (`LastOfGroups`).

**ListingProofs** proves `ListsEachBlock`, `FailedOrUnchecked` and `PagesAddUp`.
An order has exactly one way to list a finite set (`InOrderLists`,
`ListsUnique`), so the `ORDER BY` of a listing puts the rows of one block next to
each other, and the loop makes one entry of them (`CollectBlock`,
`CollectBlocks`). Pages are parts of one sequence of rows that join up again
(`PagesJoin`), each row shows one solution set whichever page it is on
(`ListingShows`), and the number of pages suffices, for there are never more rows
than insertions (`Counted`).

The library's induction over numbers cannot be used with the provers, as it takes
an operator. Where a proof goes through a sequence step by step it uses `UpTo`,
induction for a set of numbers, from the well-foundedness of `<`; that
the recursive functions of the model exist is proved the same way
(`Recursion`, `ReplayExists`). So the facts about sequences of any length are
proved too.

Every safety property of every passing run, the action properties and
the refinement included, is now a theorem. Only model-checked are the properties
under fairness, which the prover does not do: `AcquireReturns` of the pool,
`CatchesUp` and `CloseCompletes` of the node, `EveryBlockDelivered` of the relay,
`ServedUnlessFull` and `CriticalErrorEndsNode` of the server.

## Not modelled

The interpreter and `check_set_predicates`, SQLite, tokio, axum, reqwest and
hyper are dependencies, modelled only by how they are used. Tracing, argument
parsing, hashing, JSON and hexadecimal are data without influence on the control
that is modelled; the types of `node-types` and the mutations of the big bang
block are pure and built once. Of `node-db/src/pool.rs` the wrappers are not
repeated: each is one transaction of `Store`, `Node` or `StateQuery` behind an
`acquire` of `ConnPool`. A validation stream whose pool was closed retries without
pause (`node/src/validation.rs:173`): the process exits right after it closes
its pools, and neither `Node` nor `Serve` looks into that moment.

## Plan

Done: 1. `ConnPool`; 2. `Chain` and `Node`; 3. `StateQuery` and `Validate`;
4. `Subscribe`; 5. `Store`; 6. `Relay`; 7. `Serve`; 8. `InFlight` as a theorem;
9. `TypeOK` of `Store` and its other properties as theorems; proofs of all safety
properties that are checked.

Left:

10. A composition of `Relay` with the source of `Node`: two nodes whose chains
    fork, with the addresses of blocks on the wire.
11. The moment between closing the pools and the exit
    (`node/src/validation.rs:173`) in `Node`.
