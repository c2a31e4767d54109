------------------------------- MODULE Relay -------------------------------
(***************************************************************************)
(* Nodes that relay from another node: the block stream of Subscribe as it *)
(* travels over HTTP.  Upstream, the API turns every block into an SSE     *)
(* frame and keeps the connection alive with frames of its own;            *)
(* downstream, a relayer splits what arrives into frames, checks the first *)
(* block against its progress and stores those that follow.  Either side   *)
(* may end the connection at any time, and the relayer connects again.     *)
(*                                                                         *)
(* Each s \in Subs is a downstream node and its only connection.  All nodes *)
(* hold a prefix of one chain, whatever comes of forks is in module Node.  *)
(* Every change of the upstream variables is an action of Subscribe.       *)
(***************************************************************************)
EXTENDS Subscribe

CONSTANTS
    MaxWire,        \* bound: tokens on the wire; the event stream is not polled
                    \* while there is no room for a frame
    MaxFaults       \* bound: broken or stalled connections, failed reads,
                    \* restarts

ASSUME RelayAssumption ==
    /\ MaxWire \in Nat /\ MaxWire >= 3
    /\ MaxFaults \in Nat

VARIABLES
    wire,      \* wire[s]: tokens sent and not yet received
    buf,       \* buf[s]: the buffer of the FramedRead
    readable,  \* readable[s]: its is_readable, whether it decodes or reads next
    down,      \* down[s]: where the relayer stands
    have,      \* have[s]: how many blocks the downstream node has stored
    faults     \* how many faults there were

downVars == <<wire, buf, readable, down, have, faults>>
relayVars == <<vars, downVars>>

\* A token is the JSON of a block, which stands for its number, or one of:
Newline == -1
Colon == -2

\* An SSE event and the keep-alive comment end with an empty line.
Frame(body) == <<body, Newline, Newline>>

Tokens == 0..MaxWord \cup {Newline, Colon}

\* The type invariant: the block number that is asked for is never below 0.
RelayTypeOK ==
    /\ TypeOK
    /\ wire \in [Subs -> Seq(Tokens)]
    /\ buf \in [Subs -> Seq(Tokens)]
    /\ readable \in [Subs -> BOOLEAN]
    /\ down \in [Subs -> {"off", "first", "stream", "nonsequential", "forked", "done"}]
    /\ have \in [Subs -> 0..(MaxWord + 1)]
    /\ faults \in 0..MaxFaults

\* A downstream node may be ahead of the node it relays from.
RelayInit ==
    /\ Init
    /\ wire = [s \in Subs |-> << >>]
    /\ buf = [s \in Subs |-> << >>]
    /\ readable = [s \in Subs |-> FALSE]
    /\ down = [s \in Subs |-> "off"]
    /\ have \in [Subs -> 0..(MaxWord + 1)]
    /\ faults = 0

Connected(s) == down[s] \in {"first", "stream"}

Fault ==
    /\ faults < MaxFaults
    /\ faults' = faults + 1

-----------------------------------------------------------------------------
(* Upstream.                                                               *)

HasRoom(s) == Len(wire[s]) + 3 <= MaxWire

\* hyper polls the event stream, unless it failed: an error ends the body.
PollEvents(s) ==
    /\ HasRoom(s) /\ errors[s] = 0
    /\ PollNext(s)
    /\ UNCHANGED downVars

\* A block becomes an event.
SendBlock(s) ==
    /\ ListBlock(s)
    /\ wire' = [wire EXCEPT ![s] = IF ix'[s] # ix[s] THEN @ \o Frame(ix[s]) ELSE @]
    /\ UNCHANGED <<buf, readable, down, have, faults>>

\* A block cannot be read, or the database is busy.
FailBlock(s) ==
    /\ ListBlockError(s)
    /\ \/ ix[s] < stored /\ ix[s] \in Unreadable /\ UNCHANGED faults
       \/ Fault
    /\ UNCHANGED <<wire, buf, readable, down, have>>

\* The stream has been pending for the keep-alive interval.  If it is not for
\* want of a block, or what was sent before is not decoded by then, the pool or
\* the connection has stalled that long.
KeepAlive(s) ==
    /\ pc[s] \in {"acquire", "await"} /\ HasRoom(s)
    /\ wire' = [wire EXCEPT ![s] = @ \o Frame(Colon)]
    /\ IF pc[s] = "await" /\ wire[s] = << >> /\ ~readable[s]
       THEN UNCHANGED faults
       ELSE Fault
    /\ UNCHANGED <<vars, buf, readable, down, have>>

-----------------------------------------------------------------------------
(* Downstream.                                                             *)

\* Mutant: the relayer asks for the block after the last one it has.
ConnectNext(s) ==
    /\ down[s] \in {"off", "nonsequential"}
    /\ SubscribeBlocks(s, IF have[s] > MaxWord THEN MaxWord ELSE have[s])
    /\ down' = [down EXCEPT ![s] = IF have[s] = 0 THEN "stream" ELSE "first"]
    /\ UNCHANGED <<wire, buf, readable, have, faults>>

\* Mutant: without progress the last block is taken to be number -1.
ConnectWithoutDefault(s) ==
    /\ down[s] \in {"off", "nonsequential"}
    /\ SubscribeBlocks(s, have[s] - 1)
    /\ down' = [down EXCEPT ![s] = IF have[s] = 0 THEN "stream" ELSE "first"]
    /\ UNCHANGED <<wire, buf, readable, have, faults>>

\* run_blocks: the progress is read, and the stream requested from the last
\* block on, which is expected to come first.
Connect(s) ==
    /\ down[s] \in {"off", "nonsequential"}
    /\ SubscribeBlocks(s, IF have[s] = 0 THEN 0 ELSE have[s] - 1)
    /\ down' = [down EXCEPT ![s] = IF have[s] = 0 THEN "stream" ELSE "first"]
    /\ UNCHANGED <<wire, buf, readable, have, faults>>

\* sync_blocks returns and the connection is dropped, with all that was on
\* its way; `mode` is what the relayer makes of it.
Leave(s, mode) ==
    /\ Unsubscribe(s)
    /\ down' = [down EXCEPT ![s] = mode]
    /\ wire' = [wire EXCEPT ![s] = << >>]
    /\ buf' = [buf EXCEPT ![s] = << >>]
    /\ readable' = [readable EXCEPT ![s] = FALSE]
    /\ UNCHANGED have

\* FramedRead reads: any part of what is on the wire.
Receive(s) ==
    /\ Connected(s) /\ ~readable[s]
    /\ \E k \in 1..Len(wire[s]) :
          /\ buf' = [buf EXCEPT ![s] = @ \o SubSeq(wire[s], 1, k)]
          /\ wire' = [wire EXCEPT ![s] = SubSeq(@, k + 1, Len(@))]
    /\ readable' = [readable EXCEPT ![s] = TRUE]
    /\ UNCHANGED <<vars, down, have, faults>>

\* The positions at which an empty line starts.
Ends(b) == {i \in 1..(Len(b) - 1) : b[i] = Newline /\ b[i + 1] = Newline}

\* Where the first frame of buffer b ends, and what follows it.
End(b) == CHOOSE i \in Ends(b) : \A j \in Ends(b) : i <= j

\* Mutant: the buffer is cleared instead of advanced.
AdvanceAll(b) == << >>

Advance(b) == SubSeq(b, End(b) + 2, Len(b))

\* The first frame of buffer b, without its line ends, is token t.
FrameIs(b, t) ==
    /\ Ends(b) # {}
    /\ \E i \in 1..(End(b) - 1) :
          b[i] = t /\ \A j \in 1..(End(b) - 1) : j # i => b[j] = Newline

\* Is a block the next item of buffer b?
BlockFirst(b) == \E n \in 0..MaxWord : FrameIs(b, n)

\* sync_blocks takes block n: the first one must be the last one stored, the
\* others must be in sequence and are stored.
SyncBlock(s, n) ==
    /\ buf' = [buf EXCEPT ![s] = Advance(@)]
    /\ \/ /\ down[s] = "first" /\ n = have[s] - 1
          /\ down' = [down EXCEPT ![s] = "stream"]
          /\ UNCHANGED have
       \/ /\ down[s] = "stream" /\ n = have[s]
          /\ have' = [have EXCEPT ![s] = @ + 1]
          /\ UNCHANGED down
    /\ UNCHANGED <<vars, wire, readable, faults>>

\* sync_blocks rejects block n: a fork is critical, a block out of sequence
\* makes the relayer connect again.
RejectBlock(s, n) ==
    /\ \/ down[s] = "first" /\ n # have[s] - 1 /\ Leave(s, "forked")
       \/ down[s] = "stream" /\ n # have[s] /\ Leave(s, "nonsequential")
    /\ UNCHANGED faults

\* The block at the front of the buffer is the next item of the stream.
TakeBlock(s) ==
    \E n \in 0..MaxWord : FrameIs(buf[s], n) /\ (SyncBlock(s, n) \/ RejectBlock(s, n))

\* decode: the first frame is taken off the buffer.  A keep-alive is no item,
\* which makes FramedRead read again although a frame may be left.  (What
\* the API sends is valid UTF-8.)
Decode(s) ==
    /\ Connected(s) /\ readable[s]
    /\ IF BlockFirst(buf[s])
       THEN TakeBlock(s)
       ELSE IF Ends(buf[s]) # {} /\ ~FrameIs(buf[s], Colon)
       THEN Leave(s, "off") /\ UNCHANGED faults
       ELSE /\ readable' = [readable EXCEPT ![s] = FALSE]
            /\ buf' = [buf EXCEPT ![s] = IF Ends(@) = {} THEN @ ELSE Advance(@)]
            /\ UNCHANGED <<vars, wire, down, have, faults>>

\* Mutant: the stream ends with the response, whatever the buffer holds.
DecodeEofDropsRest(s) ==
    /\ Connected(s) /\ ~readable[s] /\ pc[s] = "ended" /\ wire[s] = << >>
    /\ down' = [down EXCEPT ![s] = IF @ = "first" THEN "forked" ELSE "done"]
    /\ buf' = [buf EXCEPT ![s] = << >>]
    /\ UNCHANGED <<vars, wire, readable, have, faults>>

\* decode_eof: the response has ended and all of it was received.  What is
\* left is decoded, then a remaining byte is an error and nothing an end; an
\* end before the first block is a fork.  The stream stays ended.
DecodeEof(s) ==
    /\ Connected(s) /\ ~readable[s] /\ pc[s] = "ended" /\ wire[s] = << >>
    /\ LET rest == IF Ends(buf[s]) = {} THEN buf[s] ELSE Advance(buf[s])
       IN IF BlockFirst(buf[s])
          THEN TakeBlock(s)
          ELSE IF rest # << >>
          THEN Leave(s, "off") /\ UNCHANGED faults
          ELSE /\ down' = [down EXCEPT ![s] = IF @ = "first" THEN "forked" ELSE "done"]
               /\ buf' = [buf EXCEPT ![s] = << >>]
               /\ UNCHANGED <<vars, wire, readable, have, faults>>

\* Mutant: a stream error is critical.
ResetEnds(s) ==
    /\ Connected(s) /\ ~readable[s] /\ wire[s] = << >>
    /\ pc[s] = "panicked" \/ (pc[s] = "idle" /\ errors[s] > 0)
    /\ Leave(s, "done")
    /\ UNCHANGED faults

\* The event stream failed or panicked and the response is reset: a frame left
\* in the buffer is lost, and the relayer connects again.  (A reset that
\* overtakes what was sent is a Disconnect.)
Reset(s) ==
    /\ Connected(s) /\ ~readable[s] /\ wire[s] = << >>
    /\ pc[s] = "panicked" \/ (pc[s] = "idle" /\ errors[s] > 0)
    /\ Leave(s, "off")
    /\ UNCHANGED faults

\* The connection breaks, a write downstream finds its database busy, or the
\* downstream node restarts: only what it stored is left.
Disconnect(s) ==
    /\ Connected(s) /\ Fault
    /\ Leave(s, "off")

-----------------------------------------------------------------------------
RelayNext ==
    \/ (Commit \/ Notify \/ DropNotifier \/ ClosePool) /\ UNCHANGED downVars
    \/ \E s \in Subs :
          \/ StreamStep(s) /\ UNCHANGED downVars
          \/ PollEvents(s) \/ SendBlock(s) \/ FailBlock(s) \/ KeepAlive(s)
          \/ Connect(s) \/ Receive(s) \/ Decode(s) \/ DecodeEof(s)
          \/ Reset(s) \/ Disconnect(s)

RelaySpec == RelayInit /\ [][RelayNext]_relayVars

\* The node goes on where nothing stops it: tasks are polled, timers fire,
\* what was sent arrives.  Blocks need not be committed, and nothing has to
\* fail, except to read a block that cannot be read.
RelayFairness ==
    /\ WF_relayVars(Notify /\ UNCHANGED downVars)
    /\ \A s \in Subs :
          /\ WF_relayVars(StreamStep(s) /\ UNCHANGED downVars)
          /\ WF_relayVars(PollEvents(s))
          /\ WF_relayVars(SendBlock(s))
          /\ WF_relayVars(FailBlock(s) /\ UNCHANGED faults)
          /\ WF_relayVars(KeepAlive(s) /\ UNCHANGED faults)
          /\ WF_relayVars(Connect(s))
          /\ WF_relayVars(Receive(s))
          /\ WF_relayVars(Decode(s))
          /\ WF_relayVars(DecodeEof(s))
          /\ WF_relayVars(Reset(s))

RelayFairSpec == RelaySpec /\ RelayFairness

-----------------------------------------------------------------------------
\* What a connection carries, received and not, are exactly the blocks between
\* the relayer's progress and the stream's position, each before the next:
\* reconnections, frames cut anywhere and keep-alives in between neither lose
\* nor repeat a block.  (All other tokens are below 0.)
InFlight ==
    \A s \in Subs :
        Connected(s) =>
            LET next == IF down[s] = "first" THEN have[s] - 1 ELSE have[s]
                sent == buf[s] \o wire[s]
            IN  /\ {sent[i] : i \in DOMAIN sent} \cap Nat = next..(ix[s] - 1)
                /\ \A i, j \in DOMAIN sent : i < j /\ sent[j] >= 0 => sent[i] < sent[j]

\* With one chain there is no false alarm: no block is out of sequence, and a
\* fork is reported only where the stream ended before its first block.
NoFalseAlarm ==
    \A s \in Subs :
        /\ down[s] # "nonsequential"
        /\ down[s] = "forked" => pc[s] = "ended"

\* A relayer that ends without an error has every block the other node ever
\* stored, if that one did not close its pool.
DoneAtTheHead ==
    \A s \in Subs :
        down[s] = "done" /\ ~closed /\ listener[s] # "none" =>
            have[s] >= stored \/ have[s] >= MaxWord

\* A stored block arrives downstream in the end, across faults, lost
\* notifications and frames that the decoder leaves in its buffer, unless the
\* pool is closed, the API has no notifier, or a block before it cannot be read.
EveryBlockDelivered ==
    \A s \in Subs : \A n \in 0..(MaxStored - 1) :
        n < stored /\ n < MaxWord /\ (\A u \in Unreadable : u > n)
            ~> have[s] > n \/ closed \/ (pc[s] = "ended" /\ listener[s] = "none")
=============================================================================
