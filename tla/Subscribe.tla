----------------------------- MODULE Subscribe -----------------------------
(***************************************************************************)
(* Block subscriptions: the stream of subscribe_blocks, as the API serves  *)
(* it to other nodes' relayers.  A stream reads one block after the other  *)
(* until a query finds none, then waits for a notification.  The relayer   *)
(* commits blocks and notifies in two steps, the notifier may be dropped   *)
(* and the connection pool closed at any time.                             *)
(*                                                                         *)
(* Blocks are their numbers: the chain has one block per number and no gap *)
(* (module Node), so `stored` is the number after the last stored block.   *)
(***************************************************************************)
EXTENDS Integers, Sequences

CONSTANTS
    Subs,        \* subscribers
    Listeners,   \* what await_new_block listens with: "none" (an API without
                 \* notifier), "clone" (a clone of the API's own listener, which
                 \* never reads) or "fresh" (a listener of its own)
    Unreadable,  \* the blocks that list_blocks cannot read (no solution set:
                 \* the LEFT JOIN yields a NULL address)
    MaxWord,     \* the largest block number, i64::MAX in the code
    MaxStored,   \* bound: blocks stored
    MaxErrors    \* bound: errors in one stream

ASSUME SubscribeAssumption ==
    /\ Listeners \subseteq {"none", "clone", "fresh"}
    /\ Unreadable \subseteq Nat
    /\ MaxWord \in Nat \ {0}
    /\ MaxStored \in 1..(MaxWord + 1)
    /\ MaxErrors \in Nat

VARIABLES
    stored,    \* how many blocks are stored
    owed,      \* the relayer has committed a block and not yet notified
    notified,  \* there was a notification since the API started
    dropped,   \* the last BlockTx was dropped
    closed,    \* the connection pool was closed
    pc,        \* pc[s]: where the stream of s stands, "off" if there is none
    listener,  \* listener[s]: what it listens with
    unseen,    \* unseen[s]: its listener has a change it has not seen
    start,     \* start[s]: the block number it started from
    ix,        \* ix[s]: the block it emits next (block_ix)
    got,       \* got[s]: the blocks it emitted
    errors     \* errors[s]: how many errors it emitted

dbVars == <<stored, owed, notified, dropped, closed>>
sVars == <<pc, listener, unseen, start, ix, got, errors>>
vars == <<dbVars, sVars>>

\* The type invariant: block_ix stays within the words.
TypeOK ==
    /\ stored \in 0..MaxStored
    /\ {owed, notified, dropped, closed} \subseteq BOOLEAN
    /\ pc \in [Subs -> {"off", "idle", "acquire", "list", "empty", "await", "ended", "panicked"}]
    /\ listener \in [Subs -> {"none", "clone", "fresh"}]
    /\ unseen \in [Subs -> BOOLEAN]
    /\ start \in [Subs -> 0..MaxWord]
    /\ ix \in [Subs -> 0..MaxWord]
    /\ got \in [Subs -> Seq(Nat)]
    /\ errors \in [Subs -> 0..MaxErrors]

Init ==
    /\ stored \in 0..1
    /\ owed = FALSE /\ notified = FALSE /\ dropped = FALSE /\ closed = FALSE
    /\ pc = [s \in Subs |-> "off"]
    /\ listener = [s \in Subs |-> "none"]
    /\ unseen = [s \in Subs |-> FALSE]
    /\ start = [s \in Subs |-> 0]
    /\ ix = [s \in Subs |-> 0]
    /\ got = [s \in Subs |-> << >>]
    /\ errors = [s \in Subs |-> 0]

-----------------------------------------------------------------------------
(* The rest of the node.                                                   *)

\* The relayer commits the next block ...
Commit ==
    /\ stored < MaxStored /\ ~owed /\ ~dropped
    /\ stored' = stored + 1
    /\ owed' = TRUE
    /\ UNCHANGED <<notified, dropped, closed, sVars>>

\* Mutant: only the streams that wait at this moment learn of the block.
NotifyWaitingOnly ==
    /\ owed
    /\ owed' = FALSE
    /\ notified' = TRUE
    /\ unseen' = [s \in Subs |-> unseen[s] \/ (pc[s] = "await" /\ listener[s] # "none")]
    /\ UNCHANGED <<stored, dropped, closed, pc, listener, start, ix, got, errors>>

\* ... and then notifies every listener there is.
Notify ==
    /\ owed
    /\ owed' = FALSE
    /\ notified' = TRUE
    /\ unseen' = [s \in Subs |-> unseen[s] \/ (pc[s] # "off" /\ listener[s] # "none")]
    /\ UNCHANGED <<stored, dropped, closed, pc, listener, start, ix, got, errors>>

\* The relayer ends and with it the last BlockTx.
DropNotifier ==
    /\ ~owed /\ ~dropped
    /\ dropped' = TRUE
    /\ UNCHANGED <<stored, owed, notified, closed, sVars>>

\* The pool is closed.
ClosePool ==
    /\ ~closed
    /\ closed' = TRUE
    /\ UNCHANGED <<stored, owed, notified, dropped, sVars>>

-----------------------------------------------------------------------------
(* A subscription.                                                         *)

\* A stream is opened at block n.  A clone of a listener inherits what that
\* one has seen.
SubscribeBlocks(s, n) ==
    /\ pc[s] = "off"
    /\ \E l \in Listeners :
          /\ listener' = [listener EXCEPT ![s] = l]
          /\ unseen' = [unseen EXCEPT ![s] = l = "clone" /\ notified]
    /\ start' = [start EXCEPT ![s] = n]
    /\ ix' = [ix EXCEPT ![s] = n]
    /\ pc' = [pc EXCEPT ![s] = "idle"]
    /\ UNCHANGED <<dbVars, got, errors>>

\* The subscriber goes away: the stream is dropped with its state.
Unsubscribe(s) ==
    /\ pc[s] # "off"
    /\ pc' = [pc EXCEPT ![s] = "off"]
    /\ listener' = [listener EXCEPT ![s] = "none"]
    /\ unseen' = [unseen EXCEPT ![s] = FALSE]
    /\ start' = [start EXCEPT ![s] = 0]
    /\ ix' = [ix EXCEPT ![s] = 0]
    /\ got' = [got EXCEPT ![s] = << >>]
    /\ errors' = [errors EXCEPT ![s] = 0]
    /\ UNCHANGED dbVars

\* The next item is asked for.  block_ix + 1 overflows behind the largest block
\* number: a build with overflow checks panics, one without them goes on with
\* an empty range.
PollNext(s) ==
    /\ pc[s] = "idle"
    /\ \/ pc' = [pc EXCEPT ![s] = "acquire"]
       \/ ix[s] = MaxWord /\ pc' = [pc EXCEPT ![s] = "panicked"]
    /\ UNCHANGED <<dbVars, listener, unseen, start, ix, got, errors>>

\* acquire_connection: a closed pool ends the stream.
AcquireConnection(s) ==
    /\ pc[s] = "acquire"
    /\ pc' = [pc EXCEPT ![s] = IF closed THEN "ended" ELSE "list"]
    /\ UNCHANGED <<dbVars, listener, unseen, start, ix, got, errors>>

\* Mutant: the block number advances although no block was found.
ListBlockAdvances(s) ==
    /\ pc[s] = "list"
    /\ \/ /\ ix[s] >= stored
          /\ pc' = [pc EXCEPT ![s] = "empty"]
          /\ UNCHANGED got
       \/ /\ ix[s] < stored /\ ix[s] < MaxWord /\ ix[s] \notin Unreadable
          /\ got' = [got EXCEPT ![s] = Append(@, ix[s])]
          /\ pc' = [pc EXCEPT ![s] = "idle"]
    /\ ix' = [ix EXCEPT ![s] = IF @ = MaxWord THEN @ ELSE @ + 1]
    /\ UNCHANGED <<dbVars, listener, unseen, start, errors>>

\* list_blocks(ix..ix + 1): the block is emitted, or there is none yet.
ListBlock(s) ==
    /\ pc[s] = "list"
    /\ \/ /\ ix[s] >= stored \/ ix[s] = MaxWord
          /\ pc' = [pc EXCEPT ![s] = "empty"]
          /\ UNCHANGED <<ix, got>>
       \/ /\ ix[s] < stored /\ ix[s] < MaxWord /\ ix[s] \notin Unreadable
          /\ got' = [got EXCEPT ![s] = Append(@, ix[s])]
          /\ ix' = [ix EXCEPT ![s] = @ + 1]
          /\ pc' = [pc EXCEPT ![s] = "idle"]
    /\ UNCHANGED <<dbVars, listener, unseen, start, errors>>

\* The connection is dropped, then the listener is polled.
DropConnection(s) ==
    /\ pc[s] = "empty"
    /\ pc' = [pc EXCEPT ![s] = "await"]
    /\ UNCHANGED <<dbVars, listener, unseen, start, ix, got, errors>>

\* The query fails, for this block or because the database is busy: the error
\* is emitted and the same block is tried again next time.
ListBlockError(s) ==
    /\ pc[s] = "list"
    /\ errors[s] < MaxErrors
    /\ errors' = [errors EXCEPT ![s] = @ + 1]
    /\ pc' = [pc EXCEPT ![s] = "idle"]
    /\ UNCHANGED <<dbVars, listener, unseen, start, ix, got>>

\* Mutant: a dropped notifier is noticed before its last notification.
AwaitNewBlockCloses(s) ==
    /\ pc[s] = "await"
    /\ \/ /\ unseen[s] /\ ~dropped
          /\ unseen' = [unseen EXCEPT ![s] = FALSE]
          /\ pc' = [pc EXCEPT ![s] = "acquire"]
       \/ /\ listener[s] = "none" \/ dropped
          /\ pc' = [pc EXCEPT ![s] = "ended"]
          /\ UNCHANGED unseen
    /\ UNCHANGED <<dbVars, listener, start, ix, got, errors>>

\* await_new_block: without notifier the stream ends; an unseen notification
\* is reported before the end of the notifier.
AwaitNewBlock(s) ==
    /\ pc[s] = "await"
    /\ \/ /\ unseen[s]
          /\ unseen' = [unseen EXCEPT ![s] = FALSE]
          /\ pc' = [pc EXCEPT ![s] = "acquire"]
       \/ /\ ~unseen[s]
          /\ listener[s] = "none" \/ dropped
          /\ pc' = [pc EXCEPT ![s] = "ended"]
          /\ UNCHANGED unseen
    /\ UNCHANGED <<dbVars, listener, start, ix, got, errors>>

-----------------------------------------------------------------------------
StreamStep(s) == AcquireConnection(s) \/ DropConnection(s) \/ AwaitNewBlock(s)

Next ==
    \/ Commit \/ Notify \/ DropNotifier \/ ClosePool
    \/ \E s \in Subs :
          \/ \E n \in 0..MaxWord : SubscribeBlocks(s, n)
          \/ Unsubscribe(s)
          \/ PollNext(s) \/ StreamStep(s) \/ ListBlock(s) \/ ListBlockError(s)

Spec == Init /\ [][Next]_vars

-----------------------------------------------------------------------------
\* A subscriber receives consecutive blocks from its start on, without gap or
\* repetition, across errors and waits; a relayer relies on it (sync_blocks
\* rejects any other number).
Consecutive ==
    \A s \in Subs :
        /\ ix[s] = start[s] + Len(got[s])
        /\ \A i \in 1..Len(got[s]) : got[s][i] = start[s] + i - 1

\* Has s emitted every stored block?  The block with the largest number is
\* never emitted.
AtTheHead(s) == ix[s] >= stored \/ ix[s] = MaxWord

\* No wake-up is lost: a stream waits with nothing unseen only if it has
\* emitted every stored block, or the notification is under way.
SubscriberNotLeftBehind ==
    \A s \in Subs :
        pc[s] = "await" /\ ~unseen[s] /\ ~owed /\ listener[s] # "none" => AtTheHead(s)

\* A stream that ended because the notifier was dropped has emitted every
\* stored block.
EndsAtTheHead ==
    \A s \in Subs : pc[s] = "ended" /\ ~closed /\ listener[s] # "none" => AtTheHead(s)
=============================================================================
