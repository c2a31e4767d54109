---------------------------- MODULE RelayProofs ----------------------------
(***************************************************************************)
(* Theorems about the streams of Subscribe and their relays, for any       *)
(* number of subscribers, stored blocks and errors: no block is skipped    *)
(* and no wake-up lost.  The invariant says of every stream that is about  *)
(* to wait what has to hold once it waits; that a relay leaves the streams *)
(* to the actions of Subscribe carries the results over.  Then, for any    *)
(* number of tokens on the wire and faults, that the relays deliver every  *)
(* block, and raise no false alarm.                                        *)
(***************************************************************************)
EXTENDS Relay, SequenceTheorems, WellFoundedInduction, TLAPS

\* A subscriber without a stream has none of a stream's state.
OffIsClean ==
    \A s \in Subs :
        pc[s] = "off" =>
            got[s] = << >> /\ listener[s] = "none" /\ unseen[s] = FALSE /\ errors[s] = 0

\* The notifier is dropped after its last notification.
DroppedIsNotified == dropped => ~owed

\* SubscriberNotLeftBehind, from the moment on that no block is found.
QuietAtTheHead ==
    \A s \in Subs :
        pc[s] \in {"empty", "await"} /\ ~unseen[s] /\ ~owed /\ listener[s] # "none" => AtTheHead(s)

\* EndsAtTheHead, with the reason for the end.
EndedByDrop ==
    \A s \in Subs :
        pc[s] = "ended" /\ ~closed /\ listener[s] # "none" => dropped /\ AtTheHead(s)

StreamInv ==
    /\ TypeOK
    /\ OffIsClean
    /\ Consecutive
    /\ DroppedIsNotified
    /\ QuietAtTheHead
    /\ EndedByDrop

-----------------------------------------------------------------------------
\* The invariant holds initially.
LEMMA InitStreams == Init => StreamInv
<1> SUFFICES ASSUME Init PROVE StreamInv
  OBVIOUS
<1>1. TypeOK
  <2>1. << >> \in Seq(Nat) /\ 0 \in 0..MaxErrors /\ 0 \in 0..MaxWord /\ 0..1 \subseteq 0..MaxStored
    BY SubscribeAssumption DEF SubscribeAssumption
  <2>2. stored \in 0..MaxStored /\ {owed, notified, dropped, closed} \subseteq BOOLEAN
    BY <2>1 DEF Init
  <2> QED
    BY <2>1, <2>2 DEF Init, TypeOK
<1>2. Consecutive
  <2>1. Len(<< >>) = 0
    OBVIOUS
  <2> SUFFICES ASSUME NEW s \in Subs
               PROVE  /\ ix[s] = start[s] + Len(got[s])
                      /\ \A i \in 1..Len(got[s]) : got[s][i] = start[s] + i - 1
    BY DEF Consecutive
  <2>2. ix[s] = 0 /\ start[s] = 0 /\ got[s] = << >>
    BY DEF Init
  <2> QED
    BY <2>1, <2>2
<1> QED
  BY <1>1, <1>2 DEF Init, StreamInv, OffIsClean, DroppedIsNotified, QuietAtTheHead, EndedByDrop

\* The actions of the rest of the node keep it: a block is stored only with a
\* notification owed, and a notification reaches every listener there is.
LEMMA NodeKeepsStreams ==
    ASSUME StreamInv, Commit \/ Notify \/ DropNotifier \/ ClosePool
    PROVE  StreamInv'
<1> USE DEF StreamInv, dbVars, sVars
<1>1. CASE Commit
  <2>1. TypeOK'
    BY <1>1, SubscribeAssumption DEF Commit, TypeOK, SubscribeAssumption
  <2> QED
    BY <1>1, <2>1 DEF Commit, OffIsClean, Consecutive, DroppedIsNotified, QuietAtTheHead,
                      EndedByDrop, AtTheHead
<1>2. CASE Notify
  <2>1. TypeOK'
    BY <1>2 DEF Notify, TypeOK
  <2>2. OffIsClean'
    BY <1>2 DEF Notify, OffIsClean, TypeOK
  <2>3. Consecutive' /\ DroppedIsNotified' /\ EndedByDrop'
    BY <1>2 DEF Notify, Consecutive, DroppedIsNotified, EndedByDrop, AtTheHead
  <2>4. QuietAtTheHead'
    BY <1>2 DEF Notify, QuietAtTheHead, TypeOK
  <2> QED
    BY <2>1, <2>2, <2>3, <2>4
<1>3. CASE DropNotifier \/ ClosePool
  <2>1. TypeOK'
    BY <1>3 DEF DropNotifier, ClosePool, TypeOK
  <2>2. OffIsClean' /\ Consecutive' /\ QuietAtTheHead'
    BY <1>3 DEF DropNotifier, ClosePool, OffIsClean, Consecutive, QuietAtTheHead, AtTheHead
  <2>3. DroppedIsNotified'
    BY <1>3 DEF DropNotifier, ClosePool, DroppedIsNotified
  <2>4. EndedByDrop'
    BY <1>3 DEF DropNotifier, ClosePool, EndedByDrop, AtTheHead, TypeOK
  <2> QED
    BY <2>1, <2>2, <2>3, <2>4
<1> QED
  BY <1>1, <1>2, <1>3

\* The actions that open and close a stream keep it.
LEMMA OpeningKeepsStreams ==
    ASSUME StreamInv, NEW s \in Subs,
           Unsubscribe(s) \/ \E n \in 0..MaxWord : SubscribeBlocks(s, n)
    PROVE  StreamInv'
<1> USE DEF StreamInv, dbVars
<1>1. CASE Unsubscribe(s)
  <2>1. TypeOK'
    BY <1>1, SubscribeAssumption DEF Unsubscribe, TypeOK, SubscribeAssumption
  <2>2. Consecutive'
    BY <1>1 DEF Unsubscribe, Consecutive, TypeOK
  <2> QED
    BY <1>1, <2>1, <2>2 DEF Unsubscribe, TypeOK, OffIsClean, DroppedIsNotified, QuietAtTheHead,
                            EndedByDrop, AtTheHead
<1>2. ASSUME NEW n \in 0..MaxWord, SubscribeBlocks(s, n) PROVE StreamInv'
  <2>1. TypeOK'
    BY <1>2, SubscribeAssumption DEF SubscribeBlocks, TypeOK, SubscribeAssumption
  <2>2. Consecutive'
    BY <1>2 DEF SubscribeBlocks, Consecutive, OffIsClean, TypeOK
  <2> QED
    BY <1>2, <2>1, <2>2 DEF SubscribeBlocks, TypeOK, OffIsClean, DroppedIsNotified, QuietAtTheHead,
                            EndedByDrop, AtTheHead
<1> QED
  BY <1>1, <1>2

\* The steps of a stream keep it.
LEMMA StreamKeepsStreams ==
    ASSUME StreamInv, NEW s \in Subs,
           PollNext(s) \/ StreamStep(s) \/ ListBlock(s) \/ ListBlockError(s)
    PROVE  StreamInv'
<1> USE DEF StreamInv, dbVars
<1>1. CASE PollNext(s)
  BY <1>1 DEF PollNext, TypeOK, OffIsClean, Consecutive, DroppedIsNotified, QuietAtTheHead,
              EndedByDrop, AtTheHead
<1>2. CASE AcquireConnection(s)
  BY <1>2 DEF AcquireConnection, TypeOK, OffIsClean, Consecutive, DroppedIsNotified,
              QuietAtTheHead, EndedByDrop, AtTheHead
<1>3. CASE ListBlock(s)
  <2>1. CASE ix[s] >= stored \/ ix[s] = MaxWord
    <3>1. /\ pc' = [pc EXCEPT ![s] = "empty"]
          /\ UNCHANGED <<stored, owed, notified, dropped, closed, listener, unseen, start, ix,
                         got, errors>>
      BY <1>3, <2>1, SubscribeAssumption DEF ListBlock, TypeOK, SubscribeAssumption
    <3> QED
      BY <2>1, <3>1 DEF TypeOK, OffIsClean, Consecutive, DroppedIsNotified, QuietAtTheHead,
                        EndedByDrop, AtTheHead
  <2>2. CASE ix[s] < stored /\ ix[s] < MaxWord
    <3>1. /\ pc' = [pc EXCEPT ![s] = "idle"]
          /\ got' = [got EXCEPT ![s] = Append(@, ix[s])]
          /\ ix' = [ix EXCEPT ![s] = @ + 1]
          /\ UNCHANGED <<stored, owed, notified, dropped, closed, listener, unseen, start, errors>>
      BY <1>3, <2>2, SubscribeAssumption DEF ListBlock, TypeOK, SubscribeAssumption
    <3>2. TypeOK'
      BY <2>2, <3>1, SubscribeAssumption DEF TypeOK, SubscribeAssumption
    <3>3. Consecutive'
      <4>1. ASSUME NEW t \in Subs, t # s
            PROVE  /\ ix'[t] = start'[t] + Len(got'[t])
                   /\ \A i \in 1..Len(got'[t]) : got'[t][i] = start'[t] + i - 1
        BY <3>1, <4>1 DEF Consecutive, TypeOK
      <4>2. /\ got[s] \in Seq(Nat) /\ ix[s] \in Nat /\ start[s] \in Nat
            /\ got'[s] = Append(got[s], ix[s]) /\ ix'[s] = ix[s] + 1 /\ start'[s] = start[s]
        BY <3>1 DEF TypeOK
      <4>3. ix[s] = start[s] + Len(got[s]) /\ \A i \in 1..Len(got[s]) : got[s][i] = start[s] + i - 1
        BY DEF Consecutive
      <4>4. Len(got'[s]) = Len(got[s]) + 1 /\ Len(got[s]) \in Nat
        BY <4>2
      <4>5. \A i \in 1..Len(got'[s]) : got'[s][i] = start'[s] + i - 1
        BY <4>2, <4>3, <4>4
      <4>6. ix'[s] = start'[s] + Len(got'[s])
        BY <4>2, <4>3, <4>4
      <4> QED
        BY <4>1, <4>5, <4>6 DEF Consecutive
    <3> QED
      BY <3>1, <3>2, <3>3 DEF TypeOK, OffIsClean, DroppedIsNotified, QuietAtTheHead, EndedByDrop,
                              AtTheHead
  <2> QED
    BY <1>3, <2>1, <2>2 DEF ListBlock
<1>4. CASE DropConnection(s)
  BY <1>4 DEF DropConnection, TypeOK, OffIsClean, Consecutive, DroppedIsNotified, QuietAtTheHead,
              EndedByDrop, AtTheHead
<1>5. CASE ListBlockError(s)
  BY <1>5, SubscribeAssumption
     DEF ListBlockError, TypeOK, OffIsClean, Consecutive, DroppedIsNotified, QuietAtTheHead,
         EndedByDrop, AtTheHead, SubscribeAssumption
<1>6. CASE AwaitNewBlock(s)
  <2>1. TypeOK'
    BY <1>6 DEF AwaitNewBlock, TypeOK
  <2>2. OffIsClean' /\ Consecutive' /\ DroppedIsNotified'
    BY <1>6 DEF AwaitNewBlock, TypeOK, OffIsClean, Consecutive, DroppedIsNotified
  <2>3. QuietAtTheHead'
    BY <1>6 DEF AwaitNewBlock, TypeOK, QuietAtTheHead, AtTheHead
  <2>4. EndedByDrop'
    BY <1>6 DEF AwaitNewBlock, TypeOK, QuietAtTheHead, DroppedIsNotified, EndedByDrop, AtTheHead
  <2> QED
    BY <2>1, <2>2, <2>3, <2>4
<1> QED
  BY <1>1, <1>2, <1>3, <1>4, <1>5, <1>6 DEF StreamStep

\* Every step keeps the invariant.
LEMMA StepKeepsStreams == StreamInv /\ [Next]_vars => StreamInv'
<1> SUFFICES ASSUME StreamInv, [Next]_vars PROVE StreamInv'
  OBVIOUS
<1>1. CASE UNCHANGED vars
  BY <1>1 DEF vars, dbVars, sVars, StreamInv, TypeOK, OffIsClean, Consecutive, DroppedIsNotified,
              QuietAtTheHead, EndedByDrop, AtTheHead
<1>2. CASE Next
  BY <1>2, NodeKeepsStreams, OpeningKeepsStreams, StreamKeepsStreams DEF Next
<1> QED
  BY <1>1, <1>2

\* The three properties follow.
LEMMA StreamsAreGood ==
    StreamInv => TypeOK /\ Consecutive /\ SubscriberNotLeftBehind /\ EndsAtTheHead
BY DEF StreamInv, QuietAtTheHead, EndedByDrop, SubscriberNotLeftBehind, EndsAtTheHead

-----------------------------------------------------------------------------
\* What the relay adds to the state, typed.
RelayTypes ==
    /\ wire \in [Subs -> Seq(Tokens)]
    /\ buf \in [Subs -> Seq(Tokens)]
    /\ readable \in [Subs -> BOOLEAN]
    /\ down \in [Subs -> {"off", "first", "stream", "nonsequential", "forked", "done"}]
    /\ have \in [Subs -> 0..(MaxWord + 1)]
    /\ faults \in 0..MaxFaults

RelayInv == StreamInv /\ RelayTypes

\* A part of a sequence of tokens is one.
LEMMA SubSeqTokens ==
    ASSUME NEW b \in Seq(Tokens), NEW k \in 1..(Len(b) + 1), NEW m \in 0..Len(b)
    PROVE  SubSeq(b, k, m) \in Seq(Tokens)
<1>1. \A i \in k..m : b[i] \in Tokens
  OBVIOUS
<1> QED
  BY <1>1, SubSeqProperties

\* An event or a keep-alive, sent behind what is on the wire.
LEMMA FrameTokens ==
    ASSUME NEW b \in Seq(Tokens), NEW t \in 0..MaxWord \cup {Colon}
    PROVE  b \o Frame(t) \in Seq(Tokens)
<1>1. {t, Newline} \subseteq Tokens
  BY DEF Tokens
<1>2. Frame(t) \in Seq(Tokens)
  BY <1>1 DEF Frame
<1> QED
  BY <1>2, ConcatProperties

\* A buffer with an empty line has a first one, and what follows it.
LEMMA AdvanceTokens ==
    ASSUME NEW b \in Seq(Tokens), Ends(b) # {}
    PROVE  Advance(b) \in Seq(Tokens)
<1>1. Ends(b) \subseteq Nat
  BY DEF Ends
<1>2. \E i \in Ends(b) : \A j \in Ends(b) : i <= j
  <2>1. PICK i \in Ends(b) : \A j \in Ends(b) : ~(<<j, i>> \in OpToRel(<, Nat))
    BY <1>1, WFMin, NatLessThanWellFounded, Zenon
  <2>2. \A j \in Ends(b) : i <= j
    <3> SUFFICES ASSUME NEW j \in Ends(b) PROVE i <= j
      OBVIOUS
    <3>1. i \in Nat /\ j \in Nat
      BY <1>1
    <3>2. ~(<<j, i>> \in OpToRel(<, Nat))
      BY <2>1
    <3>3. ~(j < i)
      BY <3>1, <3>2 DEF OpToRel
    <3> QED
      BY <3>1, <3>3
  <2> QED
    BY <2>2
<1>3. End(b) \in Ends(b)
  BY <1>2 DEF End
<1>4. End(b) + 2 \in 1..(Len(b) + 1)
  BY <1>3 DEF Ends
<1> QED
  BY <1>4, SubSeqTokens DEF Advance

-----------------------------------------------------------------------------
\* The actions upstream are actions of Subscribe, and put whole frames on the
\* wire.
LEMMA UpstreamKeepsRelay ==
    ASSUME RelayInv, NEW s \in Subs,
           \/ StreamStep(s) /\ UNCHANGED downVars
           \/ PollEvents(s) \/ SendBlock(s) \/ FailBlock(s) \/ KeepAlive(s)
    PROVE  RelayInv'
<1>1. CASE StreamStep(s) /\ UNCHANGED downVars
  <2>1. StreamInv'
    BY <1>1, StreamKeepsStreams DEF RelayInv
  <2> QED
    BY <1>1, <2>1 DEF RelayInv, RelayTypes, downVars
<1>2. CASE PollEvents(s)
  <2>1. StreamInv'
    BY <1>2, StreamKeepsStreams DEF RelayInv, PollEvents
  <2> QED
    BY <1>2, <2>1 DEF RelayInv, RelayTypes, downVars, PollEvents
<1>3. CASE SendBlock(s)
  <2>1. StreamInv'
    BY <1>3, StreamKeepsStreams DEF RelayInv, SendBlock
  <2>2. ix[s] \in 0..MaxWord /\ wire[s] \in Seq(Tokens)
    BY DEF RelayInv, StreamInv, TypeOK, RelayTypes
  <2>3. wire[s] \o Frame(ix[s]) \in Seq(Tokens)
    BY <2>2, FrameTokens
  <2>4. wire' \in [Subs -> Seq(Tokens)]
    BY <1>3, <2>2, <2>3 DEF SendBlock, RelayInv, RelayTypes
  <2> QED
    BY <1>3, <2>1, <2>4 DEF RelayInv, RelayTypes, SendBlock
<1>4. CASE FailBlock(s)
  <2>1. StreamInv'
    BY <1>4, StreamKeepsStreams DEF RelayInv, FailBlock
  <2>2. faults' \in 0..MaxFaults
    BY <1>4, RelayAssumption DEF FailBlock, Fault, RelayInv, RelayTypes, RelayAssumption
  <2> QED
    BY <1>4, <2>1, <2>2 DEF RelayInv, RelayTypes, FailBlock
<1>5. CASE KeepAlive(s)
  <2>1. StreamInv'
    BY <1>5, StepKeepsStreams DEF RelayInv, KeepAlive
  <2>2. wire[s] \in Seq(Tokens)
    BY DEF RelayInv, RelayTypes
  <2>3. wire[s] \o Frame(Colon) \in Seq(Tokens)
    BY <2>2, FrameTokens
  <2>4. wire' \in [Subs -> Seq(Tokens)]
    BY <1>5, <2>3 DEF KeepAlive, RelayInv, RelayTypes
  <2>5. faults' \in 0..MaxFaults
    BY <1>5, RelayAssumption DEF KeepAlive, Fault, RelayInv, RelayTypes, RelayAssumption
  <2> QED
    BY <1>5, <2>1, <2>4, <2>5 DEF RelayInv, RelayTypes, KeepAlive
<1> QED
  BY <1>1, <1>2, <1>3, <1>4, <1>5

\* Dropping a connection drops its stream.
LEMMA LeaveKeepsRelay ==
    ASSUME RelayInv, NEW s \in Subs, NEW mode \in {"off", "forked", "nonsequential"},
           Leave(s, mode), faults' \in 0..MaxFaults
    PROVE  RelayInv'
<1>1. StreamInv'
  BY OpeningKeepsStreams DEF RelayInv, Leave
<1>2. << >> \in Seq(Tokens)
  OBVIOUS
<1> QED
  BY <1>1, <1>2 DEF RelayInv, RelayTypes, Leave

\* Taking a block off the buffer, whatever sync_blocks makes of it.
LEMMA TakeBlockKeepsRelay ==
    ASSUME RelayInv, NEW s \in Subs, TakeBlock(s)
    PROVE  RelayInv'
<1>1. PICK n \in 0..MaxWord : FrameIs(buf[s], n) /\ (SyncBlock(s, n) \/ RejectBlock(s, n))
  BY DEF TakeBlock
<1>2. Advance(buf[s]) \in Seq(Tokens)
  <2>1. buf[s] \in Seq(Tokens) /\ Ends(buf[s]) # {}
    BY <1>1 DEF FrameIs, RelayInv, RelayTypes
  <2> QED
    BY <2>1, AdvanceTokens
<1>3. CASE SyncBlock(s, n)
  <2>1. StreamInv'
    BY <1>3, StepKeepsStreams DEF RelayInv, SyncBlock
  <2>2. buf' \in [Subs -> Seq(Tokens)]
    BY <1>2, <1>3 DEF SyncBlock, RelayInv, RelayTypes
  <2>3. have' \in [Subs -> 0..(MaxWord + 1)]
    <3>1. MaxWord \in Nat /\ have \in [Subs -> 0..(MaxWord + 1)]
      BY SubscribeAssumption DEF RelayInv, RelayTypes, SubscribeAssumption
    <3>2. CASE have' = have
      BY <3>1, <3>2
    <3>3. CASE n = have[s] /\ have' = [have EXCEPT ![s] = @ + 1]
      <4>1. have[s] + 1 \in 0..(MaxWord + 1)
        BY <3>1, <3>3
      <4> QED
        BY <3>1, <3>3, <4>1
    <3> QED
      BY <1>3, <3>2, <3>3 DEF SyncBlock
  <2>4. down' \in [Subs -> {"off", "first", "stream", "nonsequential", "forked", "done"}]
    BY <1>3 DEF SyncBlock, RelayInv, RelayTypes
  <2> QED
    BY <1>3, <2>1, <2>2, <2>3, <2>4 DEF RelayInv, RelayTypes, SyncBlock
<1>4. CASE RejectBlock(s, n)
  BY <1>4, LeaveKeepsRelay DEF RejectBlock, RelayInv, RelayTypes
<1> QED
  BY <1>1, <1>3, <1>4

\* The other actions of the relayer leave the streams alone or open, close or
\* drop one.
LEMMA DownstreamKeepsRelay ==
    ASSUME RelayInv, NEW s \in Subs,
           Connect(s) \/ Receive(s) \/ Decode(s) \/ DecodeEof(s) \/ Reset(s) \/ Disconnect(s)
    PROVE  RelayInv'
<1> DEFINE modes == {"off", "first", "stream", "nonsequential", "forked", "done"}
<1>1. CASE Connect(s)
  <2>1. have[s] \in 0..(MaxWord + 1) /\ MaxWord \in Nat
    BY SubscribeAssumption DEF RelayInv, RelayTypes, SubscribeAssumption
  <2>2. (IF have[s] = 0 THEN 0 ELSE have[s] - 1) \in 0..MaxWord
    BY <2>1
  <2>3. StreamInv'
    BY <1>1, <2>2, OpeningKeepsStreams DEF Connect, RelayInv
  <2>4. down' \in [Subs -> modes]
    BY <1>1 DEF Connect, RelayInv, RelayTypes
  <2> QED
    BY <1>1, <2>3, <2>4 DEF RelayInv, RelayTypes, Connect
<1>2. CASE Receive(s)
  <2>1. StreamInv'
    BY <1>2, StepKeepsStreams DEF RelayInv, Receive
  <2>2. PICK k \in 1..Len(wire[s]) :
           /\ buf' = [buf EXCEPT ![s] = @ \o SubSeq(wire[s], 1, k)]
           /\ wire' = [wire EXCEPT ![s] = SubSeq(@, k + 1, Len(@))]
    BY <1>2 DEF Receive
  <2>3. wire[s] \in Seq(Tokens) /\ buf[s] \in Seq(Tokens)
    BY DEF RelayInv, RelayTypes
  <2>4. Len(wire[s]) \in Nat /\ 1 \in 1..(Len(wire[s]) + 1) /\ k + 1 \in 1..(Len(wire[s]) + 1)
        /\ k \in 0..Len(wire[s]) /\ Len(wire[s]) \in 0..Len(wire[s])
    BY <2>3
  <2>5. /\ SubSeq(wire[s], 1, k) \in Seq(Tokens)
        /\ SubSeq(wire[s], k + 1, Len(wire[s])) \in Seq(Tokens)
    BY <2>3, <2>4, SubSeqTokens
  <2>6. buf[s] \o SubSeq(wire[s], 1, k) \in Seq(Tokens)
    BY <2>3, <2>5, ConcatProperties
  <2>7. wire' \in [Subs -> Seq(Tokens)] /\ buf' \in [Subs -> Seq(Tokens)]
    BY <2>2, <2>5, <2>6 DEF RelayInv, RelayTypes
  <2> QED
    BY <1>2, <2>1, <2>7 DEF RelayInv, RelayTypes, Receive
<1>3. CASE Decode(s)
  <2>1. CASE BlockFirst(buf[s])
    BY <1>3, <2>1, TakeBlockKeepsRelay DEF Decode
  <2>2. CASE Leave(s, "off") /\ UNCHANGED faults
    BY <2>2, LeaveKeepsRelay DEF RelayInv, RelayTypes
  <2>3. CASE /\ readable' = [readable EXCEPT ![s] = FALSE]
             /\ buf' = [buf EXCEPT ![s] = IF Ends(@) = {} THEN @ ELSE Advance(@)]
             /\ UNCHANGED <<vars, wire, down, have, faults>>
    <3>1. StreamInv'
      BY <2>3, StepKeepsStreams DEF RelayInv
    <3>2. (IF Ends(buf[s]) = {} THEN buf[s] ELSE Advance(buf[s])) \in Seq(Tokens)
      BY AdvanceTokens DEF RelayInv, RelayTypes
    <3>3. buf' \in [Subs -> Seq(Tokens)]
      BY <2>3, <3>2 DEF RelayInv, RelayTypes
    <3> QED
      BY <2>3, <3>1, <3>3 DEF RelayInv, RelayTypes
  <2> QED
    BY <1>3, <2>1, <2>2, <2>3 DEF Decode
<1>4. CASE DecodeEof(s)
  <2>1. CASE BlockFirst(buf[s])
    BY <1>4, <2>1, TakeBlockKeepsRelay DEF DecodeEof
  <2>2. CASE Leave(s, "off") /\ UNCHANGED faults
    BY <2>2, LeaveKeepsRelay DEF RelayInv, RelayTypes
  <2>3. CASE /\ down' = [down EXCEPT ![s] = IF @ = "first" THEN "forked" ELSE "done"]
             /\ buf' = [buf EXCEPT ![s] = << >>]
             /\ UNCHANGED <<vars, wire, readable, have, faults>>
    <3>1. StreamInv'
      BY <2>3, StepKeepsStreams DEF RelayInv
    <3>2. << >> \in Seq(Tokens)
      OBVIOUS
    <3> QED
      BY <2>3, <3>1, <3>2 DEF RelayInv, RelayTypes
  <2> QED
    BY <1>4, <2>1, <2>2, <2>3 DEF DecodeEof
<1>5. CASE Reset(s)
  BY <1>5, LeaveKeepsRelay DEF Reset, RelayInv, RelayTypes
<1>6. CASE Disconnect(s)
  <2>1. faults' \in 0..MaxFaults
    BY <1>6, RelayAssumption DEF Disconnect, Fault, RelayInv, RelayTypes, RelayAssumption
  <2> QED
    BY <1>6, <2>1, LeaveKeepsRelay DEF Disconnect
<1> QED
  BY <1>1, <1>2, <1>3, <1>4, <1>5, <1>6

\* Every step keeps the invariant.
LEMMA StepKeepsRelay == RelayInv /\ [RelayNext]_relayVars => RelayInv'
<1> SUFFICES ASSUME RelayInv, [RelayNext]_relayVars PROVE RelayInv'
  OBVIOUS
<1>1. CASE UNCHANGED relayVars
  <2>1. StreamInv'
    BY <1>1, StepKeepsStreams DEF RelayInv, relayVars
  <2> QED
    BY <1>1, <2>1 DEF RelayInv, RelayTypes, relayVars, downVars
<1>2. CASE (Commit \/ Notify \/ DropNotifier \/ ClosePool) /\ UNCHANGED downVars
  <2>1. StreamInv'
    BY <1>2, NodeKeepsStreams DEF RelayInv
  <2> QED
    BY <1>2, <2>1 DEF RelayInv, RelayTypes, downVars
<1>3. CASE RelayNext
  BY <1>2, <1>3, UpstreamKeepsRelay, DownstreamKeepsRelay DEF RelayNext
<1> QED
  BY <1>1, <1>3

\* The invariant holds initially.
LEMMA RelayInitInv == RelayInit => RelayInv
<1> SUFFICES ASSUME RelayInit PROVE RelayInv
  OBVIOUS
<1>1. StreamInv
  BY InitStreams DEF RelayInit
<1>2. << >> \in Seq(Tokens) /\ 0 \in 0..MaxFaults
  BY RelayAssumption DEF RelayAssumption
<1> QED
  BY <1>1, <1>2 DEF RelayInit, RelayInv, RelayTypes

\* It holds in every state of nodes that relay.
LEMMA RelayInvariant == RelaySpec => []RelayInv
BY RelayInitInv, StepKeepsRelay, PTL DEF RelaySpec

-----------------------------------------------------------------------------
\* Every variable keeps its type: the relayer never asks for a block number
\* outside of the range of a word, and never holds anything but whole tokens.
THEOREM RelayTypeCorrect == RelaySpec => []RelayTypeOK
<1>1. RelayInv => RelayTypeOK
  BY DEF RelayInv, StreamInv, RelayTypes, RelayTypeOK
<1> QED
  BY <1>1, RelayInvariant, PTL

\* A stream emits consecutive blocks from its start on (the loop of
\* subscribe_blocks), however it is interrupted, waited for and reopened.
THEOREM StreamsAreConsecutive == RelaySpec => []Consecutive
<1>1. RelayInv => Consecutive
  BY DEF RelayInv, StreamInv
<1> QED
  BY <1>1, RelayInvariant, PTL

\* No wake-up is lost between a stream's last query and its wait in
\* await_new_block.
THEOREM NoSubscriberLeftBehind == RelaySpec => []SubscriberNotLeftBehind
<1>1. RelayInv => SubscriberNotLeftBehind
  BY StreamsAreGood DEF RelayInv
<1> QED
  BY <1>1, RelayInvariant, PTL

\* A stream that ends with the notifier has emitted every stored block: the
\* last notification is seen before the end.
THEOREM StreamsEndAtTheHead == RelaySpec => []EndsAtTheHead
<1>1. RelayInv => EndsAtTheHead
  BY StreamsAreGood DEF RelayInv
<1> QED
  BY <1>1, RelayInvariant, PTL

-----------------------------------------------------------------------------
(* What the relays deliver.  The invariant says of each connection what    *)
(* the tokens between the two nodes look like: whole frames from the front *)
(* of the relayer's buffer to the end of the wire, however the reads cut   *)
(* them, with the blocks the relayer has not taken yet.  A relayer         *)
(* therefore finds the block it waits for at the front of its buffer, or   *)
(* none.                                                                   *)

\* Every third token is a body, from the first one on.
Framed(b) ==
    /\ b \in Seq(Tokens)
    /\ \A i \in 1..Len(b) : b[i] # Newline <=> i % 3 = 1

\* Nothing but frames.
Whole(b) == Framed(b) /\ Len(b) % 3 = 0

\* The blocks of b are those from lo on and below hi, each before the next.
Carried(b, lo, hi) ==
    /\ {b[i] : i \in DOMAIN b} \cap Nat = lo..(hi - 1)
    /\ \A i, j \in DOMAIN b : i < j /\ b[j] >= 0 => b[i] < b[j]

Sent(s) == buf[s] \o wire[s]

\* The block that sync_blocks of s takes next.
Awaited(s) == IF down[s] = "first" THEN have[s] - 1 ELSE have[s]

\* A relayer that is connected: its stream is open, and what is under way are
\* the blocks between it and the stream.
Flowing(s) ==
    /\ pc[s] # "off"
    /\ down[s] = "first" => have[s] >= 1
    /\ Awaited(s) <= ix[s]
    /\ Whole(Sent(s))
    /\ Carried(Sent(s), Awaited(s), ix[s])

\* One that is not: nothing is under way, and its last stream was dropped or
\* has come to its end.
AtRest(s) ==
    /\ wire[s] = << >> /\ buf[s] = << >>
    /\ down[s] \in {"off", "forked", "done"}
    /\ down[s] = "off" => pc[s] = "off"
    /\ down[s] # "off" => pc[s] = "ended"
    /\ down[s] = "done" => ix[s] = have[s]

Flight(s) == IF Connected(s) THEN Flowing(s) ELSE AtRest(s)

DeliveryInv == RelayInv /\ \A s \in Subs : Flight(s)

-----------------------------------------------------------------------------
(* Sequences of frames.                                                    *)

\* The first frame of a buffer is where the decoder finds it.
LEMMA FrontFrame ==
    ASSUME NEW b, Framed(b)
    PROVE  /\ Ends(b) = {} <=> Len(b) < 3
           /\ Len(b) >= 3 => Advance(b) = SubSeq(b, 4, Len(b))
           /\ \A t \in 0..MaxWord \cup {Colon} : FrameIs(b, t) <=> Len(b) >= 3 /\ b[1] = t
<1>1. b \in Seq(Tokens) /\ Len(b) \in Nat
  BY DEF Framed
<1>2. 1 \notin Ends(b)
  BY <1>1 DEF Framed, Ends
<1>3. CASE Len(b) < 3
  <2>1. Ends(b) = {}
    BY <1>1, <1>2, <1>3 DEF Ends
  <2> QED
    BY <1>1, <1>3, <2>1 DEF FrameIs
<1>4. CASE Len(b) >= 3
  <2>1. 2 \in Ends(b)
    BY <1>1, <1>4 DEF Framed, Ends
  <2>2. \A i \in Ends(b) : i \in Nat /\ i >= 2
    BY <1>1, <1>2 DEF Ends
  <2>3. End(b) = 2
    <3>1. \A i \in Ends(b) : (\A j \in Ends(b) : i <= j) <=> i = 2
      BY <2>1, <2>2
    <3> QED
      BY <2>1, <3>1 DEF End
  <2>4. Advance(b) = SubSeq(b, 4, Len(b))
    BY <2>3 DEF Advance
  <2>5. \A t : FrameIs(b, t) <=> b[1] = t
    BY <2>1, <2>3 DEF FrameIs
  <2> QED
    BY <1>4, <2>1, <2>4, <2>5
<1> QED
  BY <1>1, <1>3, <1>4

\* Concatenation is associative.
LEMMA Reassociate ==
    ASSUME NEW u \in Seq(Tokens), NEW v \in Seq(Tokens), NEW w \in Seq(Tokens)
    PROVE  u \o (v \o w) = (u \o v) \o w
BY ConcatAssociative, SMT

\* A frame is put behind whole frames.
LEMMA AppendFrame ==
    ASSUME NEW b, Whole(b), NEW t \in 0..MaxWord \cup {Colon}
    PROVE  /\ Whole(b \o Frame(t))
           /\ DOMAIN (b \o Frame(t)) = 1..(Len(b) + 3)
           /\ \A i \in 1..Len(b) : (b \o Frame(t))[i] = b[i]
           /\ (b \o Frame(t))[Len(b) + 1] = t
           /\ (b \o Frame(t))[Len(b) + 2] = Newline
           /\ (b \o Frame(t))[Len(b) + 3] = Newline
<1> DEFINE c == b \o Frame(t)
<1>1. b \in Seq(Tokens) /\ Len(b) \in Nat
  BY DEF Whole, Framed
<1>2. c \in Seq(Tokens)
  BY <1>1, FrameTokens
<1>3. t \in Int /\ t # Newline
  BY SubscribeAssumption DEF SubscribeAssumption, Newline, Colon
<1>4. Frame(t) \in Seq(Tokens) /\ Len(Frame(t)) = 3
      /\ Frame(t)[1] = t /\ Frame(t)[2] = Newline /\ Frame(t)[3] = Newline
  <2>1. t \in Tokens /\ Newline \in Tokens
    BY DEF Tokens
  <2> QED
    BY <2>1 DEF Frame
<1>5. /\ Len(c) = Len(b) + 3
      /\ \A i \in 1..Len(b) : c[i] = b[i]
      /\ c[Len(b) + 1] = t /\ c[Len(b) + 2] = Newline /\ c[Len(b) + 3] = Newline
  <2>1. /\ Len(c) = Len(b) + 3
        /\ \A i \in 1..(Len(b) + 3) :
              c[i] = IF i <= Len(b) THEN b[i] ELSE Frame(t)[i - Len(b)]
    <3>1. /\ Len(c) = Len(b) + Len(Frame(t))
          /\ \A i \in 1..(Len(b) + Len(Frame(t))) :
                c[i] = IF i <= Len(b) THEN b[i] ELSE Frame(t)[i - Len(b)]
      BY <1>1, <1>4, ConcatProperties, Zenon
    <3> QED
      BY <1>4, <3>1, Zenon
  <2>2. ((Len(b) + 1) - Len(b)) = 1 /\ ((Len(b) + 2) - Len(b)) = 2 /\ ((Len(b) + 3) - Len(b)) = 3
    BY <1>1
  <2> HIDE DEF c
  <2> QED
    BY <1>1, <1>4, <2>1, <2>2
<1>6. Whole(c)
  <2>1. Len(b) % 3 = 0 /\ \A i \in 1..Len(b) : b[i] # Newline <=> i % 3 = 1
    BY DEF Whole, Framed
  <2>2. Len(c) % 3 = 0
    BY <1>1, <1>5, <2>1
  <2>3. (Len(b) + 1) % 3 = 1 /\ (Len(b) + 2) % 3 = 2 /\ (Len(b) + 3) % 3 = 0
    BY <1>1, <2>1
  <2>4. ASSUME NEW i \in 1..Len(c) PROVE c[i] # Newline <=> i % 3 = 1
    <3>1. i \in 1..Len(b) \/ i = Len(b) + 1 \/ i = Len(b) + 2 \/ i = Len(b) + 3
      BY <1>1, <1>5
    <3> QED
      BY <1>3, <1>5, <2>1, <2>3, <3>1
  <2> QED
    BY <1>2, <2>2, <2>4 DEF Whole, Framed
<1> QED
  BY <1>2, <1>5, <1>6

\* A keep-alive carries nothing.
LEMMA CarryKeepAlive ==
    ASSUME NEW b, Whole(b), NEW lo, NEW hi, Carried(b, lo, hi)
    PROVE  Carried(b \o Frame(Colon), lo, hi)
<1> DEFINE c == b \o Frame(Colon)
<1>1. /\ DOMAIN c = 1..(Len(b) + 3) /\ DOMAIN b = 1..Len(b) /\ Len(b) \in Nat
      /\ \A i \in 1..Len(b) : c[i] = b[i]
      /\ c[Len(b) + 1] = -2 /\ c[Len(b) + 2] = -1 /\ c[Len(b) + 3] = -1
  <2>1. b \in Seq(Tokens)
    BY DEF Whole, Framed
  <2> QED
    BY <2>1, AppendFrame DEF Colon, Newline
<1> HIDE DEF c
<1>2. \A i \in DOMAIN c : i \in DOMAIN b \/ c[i] \in {-1, -2}
  BY <1>1
<1>3. {c[i] : i \in DOMAIN c} \cap Nat = {b[i] : i \in DOMAIN b} \cap Nat
  BY <1>1, <1>2
<1>4. ASSUME NEW i \in DOMAIN c, NEW j \in DOMAIN c, i < j, c[j] >= 0 PROVE c[i] < c[j]
  <2>1. j \in DOMAIN b
    BY <1>2, <1>4
  <2>2. i \in DOMAIN b
    BY <1>1, <1>4, <2>1
  <2> QED
    BY <1>1, <1>4, <2>1, <2>2 DEF Carried
<1> QED
  BY <1>3, <1>4 DEF Carried, c

\* A block that is sent comes behind those under way.
LEMMA CarryBlock ==
    ASSUME NEW b, Whole(b), NEW lo \in Nat, NEW hi \in 0..MaxWord, lo <= hi, Carried(b, lo, hi)
    PROVE  Carried(b \o Frame(hi), lo, hi + 1)
<1> DEFINE c == b \o Frame(hi)
<1>0. MaxWord \in Nat /\ hi \in Nat
  BY SubscribeAssumption DEF SubscribeAssumption
<1>1. /\ DOMAIN c = 1..(Len(b) + 3) /\ DOMAIN b = 1..Len(b) /\ Len(b) \in Nat
      /\ \A i \in 1..Len(b) : c[i] = b[i]
      /\ c[Len(b) + 1] = hi /\ c[Len(b) + 2] = -1 /\ c[Len(b) + 3] = -1
  <2>1. b \in Seq(Tokens)
    BY DEF Whole, Framed
  <2> QED
    BY <2>1, AppendFrame DEF Colon, Newline
<1>2. \A i \in DOMAIN b : b[i] \in Int
  <2>1. b \in Seq(Tokens) /\ Tokens \subseteq Int
    BY <1>0 DEF Whole, Framed, Tokens, Newline, Colon
  <2>2. \A i \in 1..Len(b) : b[i] \in Tokens
    BY <2>1
  <2> QED
    BY <1>1, <2>1, <2>2
<1> HIDE DEF c
<1>3. \A i \in DOMAIN c : i \in DOMAIN b \/ i = Len(b) + 1 \/ (i > Len(b) + 1 /\ c[i] = -1)
  BY <1>1
<1>4. {c[i] : i \in DOMAIN c} \cap Nat = ({b[i] : i \in DOMAIN b} \cap Nat) \cup {hi}
  <2>1. \A i \in DOMAIN c : c[i] \in Nat => c[i] \in {b[j] : j \in DOMAIN b} \cup {hi}
    BY <1>1, <1>3
  <2>2. \A i \in DOMAIN b : b[i] \in {c[j] : j \in DOMAIN c}
    BY <1>1
  <2>3. hi \in {c[j] : j \in DOMAIN c}
    BY <1>1
  <2> QED
    BY <1>0, <2>1, <2>2, <2>3
<1>5. {c[i] : i \in DOMAIN c} \cap Nat = lo..((hi + 1) - 1)
  BY <1>0, <1>4 DEF Carried
<1>6. ASSUME NEW i \in DOMAIN c, NEW j \in DOMAIN c, i < j, c[j] >= 0 PROVE c[i] < c[j]
  <2>1. CASE j \in DOMAIN b
    BY <1>1, <1>6, <2>1 DEF Carried
  <2>2. CASE j = Len(b) + 1
    <3>1. i \in DOMAIN b /\ c[i] = b[i] /\ c[j] = hi
      BY <1>1, <1>6, <2>2
    <3>2. b[i] \in Nat => b[i] \in lo..(hi - 1)
      BY <3>1 DEF Carried
    <3>3. b[i] < hi
      BY <1>0, <1>2, <3>1, <3>2
    <3> QED
      BY <3>1, <3>3
  <2> QED
    BY <1>3, <1>6, <2>1, <2>2
<1> QED
  BY <1>5, <1>6 DEF Carried, c

\* Taking the first frame off whole frames.
LEMMA DropFrame ==
    ASSUME NEW b, Whole(b), Len(b) >= 3
    PROVE  LET c == SubSeq(b, 4, Len(b))
           IN  /\ Whole(c)
               /\ DOMAIN c = 1..(Len(b) - 3)
               /\ \A i \in DOMAIN c : c[i] = b[i + 3]
               /\ b[2] = Newline /\ b[3] = Newline
<1> DEFINE c == SubSeq(b, 4, Len(b))
<1>1. b \in Seq(Tokens) /\ Len(b) \in Nat
  BY DEF Whole, Framed
<1>2. c \in Seq(Tokens) /\ Len(c) = Len(b) - 3 /\ \A i \in 1..Len(c) : c[i] = b[i + 3]
  <2>1. \A i \in 4..Len(b) : b[i] \in Tokens
    BY <1>1
  <2>2. /\ c \in Seq(Tokens)
        /\ Len(c) = (IF 4 <= Len(b) THEN Len(b) - 4 + 1 ELSE 0)
        /\ \A i \in 1..(Len(b) - 4 + 1) : c[i] = b[4 + i - 1]
    BY <1>1, <2>1, SubSeqProperties
  <2> HIDE DEF c
  <2>3. Len(c) = Len(b) - 3 /\ Len(b) - 4 + 1 = Len(b) - 3
    <3>1. \A n \in Nat :
             n >= 3 => (IF 4 <= n THEN n - 4 + 1 ELSE 0) = n - 3 /\ n - 4 + 1 = n - 3
      OBVIOUS
    <3> QED
      BY <1>1, <2>2, <3>1, Zenon
  <2>4. \A i \in 1..Len(c) : 4 + i - 1 = i + 3
    BY <1>1, <2>3
  <2> QED
    BY <2>2, <2>3, <2>4
<1> HIDE DEF c
<1>3. Len(c) % 3 = 0
  BY <1>1, <1>2 DEF Whole
<1>4. \A i \in 1..Len(c) : c[i] # Newline <=> i % 3 = 1
  <2> SUFFICES ASSUME NEW i \in 1..Len(c) PROVE c[i] # Newline <=> i % 3 = 1
    OBVIOUS
  <2>1. i + 3 \in 1..Len(b) /\ (i + 3) % 3 = i % 3 /\ c[i] = b[i + 3]
    BY <1>1, <1>2
  <2> QED
    BY <2>1 DEF Whole, Framed
<1>5. b[2] = Newline /\ b[3] = Newline
  BY <1>1 DEF Whole, Framed
<1> QED
  <2>1. Whole(c) /\ DOMAIN c = 1..(Len(b) - 3) /\ \A i \in DOMAIN c : c[i] = b[i + 3]
    BY <1>1, <1>2, <1>3, <1>4 DEF Whole, Framed
  <2> QED
    BY <1>5, <2>1 DEF c

\* The block at the front is the first one under way, and leaves the others.
LEMMA CarryRest ==
    ASSUME NEW b, Whole(b), Len(b) >= 3, NEW lo \in Nat, NEW hi \in Nat, Carried(b, lo, hi)
    PROVE  /\ b[1] \in Nat => /\ b[1] = lo /\ lo < hi
                              /\ Carried(SubSeq(b, 4, Len(b)), lo + 1, hi)
           /\ b[1] = Colon => Carried(SubSeq(b, 4, Len(b)), lo, hi)
<1> DEFINE c == SubSeq(b, 4, Len(b))
<1>0. MaxWord \in Nat
  BY SubscribeAssumption DEF SubscribeAssumption
<1>1. /\ DOMAIN c = 1..(Len(b) - 3) /\ DOMAIN b = 1..Len(b) /\ Len(b) \in Nat
      /\ \A i \in DOMAIN c : c[i] = b[i + 3]
      /\ b[2] = -1 /\ b[3] = -1
  <2>1. b \in Seq(Tokens)
    BY DEF Whole, Framed
  <2> QED
    BY <2>1, DropFrame DEF Newline
<1>2. \A i \in DOMAIN b : b[i] \in Int
  <2>1. b \in Seq(Tokens) /\ Tokens \subseteq Int
    BY <1>0 DEF Whole, Framed, Tokens, Newline, Colon
  <2>2. \A i \in 1..Len(b) : b[i] \in Tokens
    BY <2>1
  <2> QED
    BY <1>1, <2>1, <2>2
<1> HIDE DEF c
<1>3. \A i, j \in DOMAIN c : i < j /\ c[j] >= 0 => c[i] < c[j]
  <2> SUFFICES ASSUME NEW i \in DOMAIN c, NEW j \in DOMAIN c, i < j, c[j] >= 0 PROVE c[i] < c[j]
    OBVIOUS
  <2>1. i + 3 \in DOMAIN b /\ j + 3 \in DOMAIN b /\ i + 3 < j + 3
    BY <1>1
  <2>2. c[i] = b[i + 3] /\ c[j] = b[j + 3]
    BY <1>1
  <2> QED
    BY <2>1, <2>2 DEF Carried
<1>4. \A i \in DOMAIN b : i = 1 \/ b[i] = -1 \/ (i - 3 \in DOMAIN c /\ c[i - 3] = b[i])
  BY <1>1
<1>5. \A i \in DOMAIN c : i + 3 \in DOMAIN b /\ c[i] = b[i + 3]
  BY <1>1
<1>6. ASSUME b[1] \in Nat PROVE b[1] = lo /\ lo < hi /\ Carried(c, lo + 1, hi)
  <2>1. b[1] \in lo..(hi - 1)
    BY <1>1, <1>6 DEF Carried
  <2>2. PICK j \in DOMAIN b : b[j] = lo
    BY <2>1 DEF Carried
  <2>3. j = 1
    BY <1>1, <1>2, <2>1, <2>2 DEF Carried
  <2>4. \A i \in DOMAIN c : c[i] \in Nat => c[i] \in (lo + 1)..(hi - 1)
    <3> SUFFICES ASSUME NEW i \in DOMAIN c, c[i] \in Nat PROVE c[i] \in (lo + 1)..(hi - 1)
      OBVIOUS
    <3>1. i + 3 \in DOMAIN b /\ 1 \in DOMAIN b /\ 1 < i + 3 /\ c[i] = b[i + 3]
      BY <1>1
    <3>2. b[1] < b[i + 3] /\ b[i + 3] \in lo..(hi - 1)
      BY <3>1 DEF Carried
    <3> QED
      BY <1>6, <2>2, <2>3, <3>1, <3>2
  <2>5. \A n \in (lo + 1)..(hi - 1) : n \in {c[i] : i \in DOMAIN c}
    <3> SUFFICES ASSUME NEW n \in (lo + 1)..(hi - 1) PROVE n \in {c[i] : i \in DOMAIN c}
      OBVIOUS
    <3>1. n \in lo..(hi - 1) /\ n # lo /\ n # -1
      OBVIOUS
    <3>2. PICK i \in DOMAIN b : b[i] = n
      BY <3>1 DEF Carried
    <3> QED
      BY <1>4, <2>2, <2>3, <3>1, <3>2
  <2>6. {c[i] : i \in DOMAIN c} \cap Nat = (lo + 1)..(hi - 1)
    BY <2>4, <2>5
  <2> QED
    BY <1>3, <2>1, <2>2, <2>3, <2>6 DEF Carried
<1>7. ASSUME b[1] = Colon PROVE Carried(c, lo, hi)
  <2>1. {c[i] : i \in DOMAIN c} \cap Nat = {b[i] : i \in DOMAIN b} \cap Nat
    BY <1>4, <1>5, <1>7 DEF Colon
  <2> QED
    BY <1>3, <2>1 DEF Carried
<1> QED
  BY <1>6, <1>7 DEF c

\* What the front of the buffer says of all that is under way.
LEMMA BufferFront ==
    ASSUME NEW u \in Seq(Tokens), NEW w \in Seq(Tokens), Whole(u \o w)
    PROVE  /\ Framed(u)
           /\ Len(u) >= 3 => /\ Len(u \o w) >= 3
                             /\ (u \o w)[1] = u[1]
                             /\ Advance(u) \o w = SubSeq(u \o w, 4, Len(u \o w))
<1>1. /\ Len(u \o w) = Len(u) + Len(w) /\ Len(u) \in Nat /\ Len(w) \in Nat
      /\ \A i \in 1..Len(u) : (u \o w)[i] = u[i]
  BY ConcatProperties
<1>2. Framed(u)
  <2>1. \A i \in 1..Len(u) : i \in 1..Len(u \o w)
    BY <1>1
  <2> QED
    BY <1>1, <2>1 DEF Whole, Framed
<1>3. ASSUME Len(u) >= 3 PROVE Advance(u) \o w = SubSeq(u \o w, 4, Len(u \o w))
  <2> DEFINE c == SubSeq(u, 4, Len(u))
             d == SubSeq(u \o w, 4, Len(u \o w))
  <2>1. u \o w \in Seq(Tokens)
    BY ConcatProperties
  <2>2. Advance(u) = c
    BY <1>2, <1>3, FrontFrame
  <2>3. /\ c \in Seq(Tokens) /\ Len(c) = Len(u) - 3
        /\ \A i \in 1..Len(c) : c[i] = u[i + 3]
    <3>1. c \in Seq(Tokens) /\ Len(c) = (IF 4 <= Len(u) THEN Len(u) - 4 + 1 ELSE 0)
          /\ \A i \in 1..(Len(u) - 4 + 1) : c[i] = u[4 + i - 1]
      <4>1. \A i \in 4..Len(u) : u[i] \in Tokens
        BY <1>1
      <4> QED
        BY <1>1, <4>1, SubSeqProperties
    <3>2. \A n \in Nat :
             n >= 3 => /\ (IF 4 <= n THEN n - 4 + 1 ELSE 0) = n - 3 /\ n - 4 + 1 = n - 3
                       /\ \A i \in 1..(n - 3) : 4 + i - 1 = i + 3
      OBVIOUS
    <3> HIDE DEF c
    <3>3. Len(c) = Len(u) - 3 /\ Len(u) - 4 + 1 = Len(u) - 3
      BY <1>1, <1>3, <3>1, <3>2, Zenon
    <3>4. \A i \in 1..(Len(u) - 3) : 4 + i - 1 = i + 3
      BY <1>1, <1>3, <3>2, Zenon
    <3>5. \A i \in 1..(Len(u) - 3) : c[i] = u[4 + i - 1]
      BY <3>1, <3>3, Zenon
    <3> QED
      BY <3>1, <3>3, <3>4, <3>5, Zenon
  <2>4. /\ d \in Seq(Tokens) /\ Len(d) = Len(u) + Len(w) - 3
        /\ \A i \in 1..Len(d) : d[i] = (u \o w)[i + 3]
    <3>1. /\ d \in Seq(Tokens)
          /\ DOMAIN d = 1..(Len(u \o w) - 3)
          /\ \A i \in DOMAIN d : d[i] = (u \o w)[i + 3]
      <4>1. Len(u \o w) >= 3
        BY <1>1, <1>3
      <4> QED
        BY <4>1, DropFrame DEF Whole, Framed
    <3> HIDE DEF d
    <3>2. DOMAIN d = 1..Len(d) /\ Len(d) \in Nat
      BY <3>1
    <3>3. \A m, n, k : m \in Nat /\ n \in Nat /\ k \in Nat /\ n >= 3 =>
             (1..m = 1..((n + k) - 3) => m = n + k - 3)
      OBVIOUS
    <3>4. 1..Len(d) = 1..((Len(u) + Len(w)) - 3)
      BY <1>1, <3>1, <3>2, Zenon
    <3>5. Len(d) = Len(u) + Len(w) - 3
      BY <1>1, <1>3, <3>2, <3>3, <3>4, Zenon
    <3> QED
      BY <3>1, <3>2, <3>5
  <2> HIDE DEF c, d
  <2>5. /\ c \o w \in Seq(Tokens) /\ Len(c \o w) = Len(c) + Len(w)
        /\ \A i \in 1..(Len(c) + Len(w)) :
              (c \o w)[i] = IF i <= Len(c) THEN c[i] ELSE w[i - Len(c)]
    BY <2>3, ConcatProperties
  <2>6. \A i \in 1..(Len(u) + Len(w)) :
           (u \o w)[i] = IF i <= Len(u) THEN u[i] ELSE w[i - Len(u)]
    BY ConcatProperties
  <2>7. Len(c \o w) = Len(d)
    BY <1>1, <1>3, <2>3, <2>4, <2>5
  <2>8. ASSUME NEW i \in 1..Len(d) PROVE (c \o w)[i] = d[i]
    <3>1. /\ i + 3 \in 1..(Len(u) + Len(w)) /\ i \in 1..(Len(c) + Len(w))
          /\ i <= Len(c) <=> i + 3 <= Len(u)
          /\ (i + 3) - Len(u) = i - Len(c)
      BY <1>1, <1>3, <2>3, <2>4
    <3>2. d[i] = IF i + 3 <= Len(u) THEN u[i + 3] ELSE w[(i + 3) - Len(u)]
      BY <2>4, <2>6, <3>1
    <3>3. i <= Len(c) => c[i] = u[i + 3]
      BY <2>3
    <3> QED
      BY <2>5, <3>1, <3>2, <3>3
  <2>9. c \o w = d
    BY <2>4, <2>5, <2>7, <2>8, SeqEqual
  <2> QED
    BY <2>2, <2>9 DEF d
<1> QED
  BY <1>1, <1>2, <1>3

-----------------------------------------------------------------------------
(* Steps.                                                                  *)

\* The connection of t is not touched.
Same(t) ==
    /\ pc'[t] = pc[t] /\ ix'[t] = ix[t] /\ wire'[t] = wire[t]
    /\ buf'[t] = buf[t] /\ down'[t] = down[t] /\ have'[t] = have[t]

\* A connection whose variables stay keeps what is in flight.
LEMMA SameFlight ==
    ASSUME NEW t \in Subs, Flight(t), Same(t)
    PROVE  Flight(t)'
BY DEF Flight, Flowing, AtRest, Connected, Same, Sent, Awaited

\* The variables of one connection are in their types.
LEMMA Typed ==
    ASSUME RelayInv, NEW s \in Subs
    PROVE  /\ ix[s] \in 0..MaxWord /\ have[s] \in 0..(MaxWord + 1)
           /\ MaxWord \in Nat /\ ix[s] \in Nat /\ have[s] \in Nat
           /\ wire[s] \in Seq(Tokens) /\ buf[s] \in Seq(Tokens)
           /\ (Connected(s) /\ Flowing(s)) => Awaited(s) \in Nat
<1>1. MaxWord \in Nat
  BY SubscribeAssumption DEF SubscribeAssumption
<1>2. ix[s] \in 0..MaxWord /\ have[s] \in 0..(MaxWord + 1)
      /\ wire[s] \in Seq(Tokens) /\ buf[s] \in Seq(Tokens)
  BY DEF RelayInv, RelayTypes, StreamInv, TypeOK
<1> QED
  BY <1>1, <1>2 DEF Flowing, Awaited

\* A stream that polls, acquires, lists nothing, fails or waits, sends nothing.
LEMMA StreamMovesAlone ==
    ASSUME NEW s \in Subs, Flight(s), pc[s] \notin {"off", "ended"}, pc'[s] # "off",
           ix'[s] = ix[s], wire'[s] = wire[s], buf'[s] = buf[s], down'[s] = down[s],
           have'[s] = have[s]
    PROVE  Flight(s)'
BY DEF Flight, Flowing, AtRest, Connected, Sent, Awaited

\* Upstream, a frame goes behind what is under way.
LEMMA UpstreamDelivers ==
    ASSUME DeliveryInv, NEW s \in Subs,
           \/ StreamStep(s) /\ UNCHANGED downVars
           \/ PollEvents(s) \/ SendBlock(s) \/ FailBlock(s) \/ KeepAlive(s)
    PROVE  \A t \in Subs : Flight(t)'
<1> USE DEF DeliveryInv
<1>1. pc \in [Subs -> {"off", "idle", "acquire", "list", "empty", "await", "ended", "panicked"}]
      /\ ix \in [Subs -> 0..MaxWord] /\ wire \in [Subs -> Seq(Tokens)]
  BY DEF RelayInv, RelayTypes, StreamInv, TypeOK
<1>2. ASSUME NEW t \in Subs, t # s PROVE Flight(t)'
  <2>1. Same(t)
    BY <1>1, <1>2 DEF Same, StreamStep, AcquireConnection, DropConnection, AwaitNewBlock, PollEvents,
                      PollNext, SendBlock, ListBlock, FailBlock, ListBlockError, KeepAlive,
                      downVars, vars, sVars, dbVars
  <2> QED
    BY <2>1, SameFlight
<1>3. ASSUME (StreamStep(s) /\ UNCHANGED downVars) \/ PollEvents(s) \/ FailBlock(s)
      PROVE  Flight(s)'
  <2>1. /\ pc[s] \notin {"off", "ended"} /\ pc'[s] # "off" /\ ix'[s] = ix[s]
        /\ wire'[s] = wire[s] /\ buf'[s] = buf[s] /\ down'[s] = down[s] /\ have'[s] = have[s]
    BY <1>1, <1>3
       DEF StreamStep, AcquireConnection, DropConnection, AwaitNewBlock, PollEvents, PollNext,
           FailBlock, ListBlockError, downVars
  <2> QED
    BY <2>1, StreamMovesAlone
<1>4. ASSUME SendBlock(s) PROVE Flight(s)'
  <2>1. pc[s] = "list" /\ pc'[s] # "off"
        /\ buf'[s] = buf[s] /\ down'[s] = down[s] /\ have'[s] = have[s]
    BY <1>1, <1>4 DEF SendBlock, ListBlock
  <2>2. CASE ix'[s] = ix[s]
    <3>1. wire'[s] = wire[s]
      BY <1>1, <1>4, <2>2 DEF SendBlock
    <3> QED
      BY <2>1, <2>2, <3>1, StreamMovesAlone
  <2>3. CASE ix'[s] # ix[s]
    <3>1. ix'[s] = ix[s] + 1 /\ wire'[s] = wire[s] \o Frame(ix[s])
      BY <1>1, <1>4, <2>3 DEF SendBlock, ListBlock
    <3>2. Connected(s) /\ Flowing(s)
      BY <2>1 DEF Flight, AtRest
    <3>3. Sent(s)' = Sent(s) \o Frame(ix[s])
      <4>1. ix[s] \in Tokens /\ Newline \in Tokens
        BY Typed DEF Tokens
      <4>2. Frame(ix[s]) \in Seq(Tokens)
        BY <4>1 DEF Frame
      <4>3. buf[s] \o (wire[s] \o Frame(ix[s])) = Sent(s) \o Frame(ix[s])
        BY <4>2, Typed, Reassociate, Zenon DEF Sent
      <4> QED
        BY <2>1, <3>1, <4>3, Zenon DEF Sent
    <3>4. Whole(Sent(s)')
      BY <3>2, <3>3, Typed, AppendFrame DEF Flowing
    <3>5. Carried(Sent(s)', Awaited(s), ix'[s])
      BY <3>1, <3>2, <3>3, Typed, CarryBlock DEF Flowing
    <3>6. Awaited(s)' = Awaited(s) /\ Awaited(s) <= ix'[s]
      BY <2>1, <3>1, <3>2, Typed DEF Flowing, Awaited
    <3>7. Connected(s)' /\ (down'[s] = "first" => have'[s] >= 1)
      BY <2>1, <3>2 DEF Connected, Flowing
    <3> QED
      BY <2>1, <3>4, <3>5, <3>6, <3>7 DEF Flight, Flowing
  <2> QED
    BY <2>2, <2>3
<1>5. ASSUME KeepAlive(s) PROVE Flight(s)'
  <2>1. /\ pc[s] \notin {"off", "ended"} /\ pc'[s] = pc[s] /\ ix'[s] = ix[s]
        /\ buf'[s] = buf[s] /\ down'[s] = down[s] /\ have'[s] = have[s]
        /\ wire'[s] = wire[s] \o Frame(Colon)
    BY <1>1, <1>5 DEF KeepAlive, vars, sVars
  <2>2. Connected(s) /\ Flowing(s)
    BY <2>1 DEF Flight, AtRest
  <2>3. Sent(s)' = Sent(s) \o Frame(Colon)
    <3>1. Frame(Colon) \in Seq(Tokens)
      BY DEF Tokens, Frame
    <3>2. buf[s] \o (wire[s] \o Frame(Colon)) = Sent(s) \o Frame(Colon)
      BY <3>1, Typed, Reassociate, Zenon DEF Sent
    <3> QED
      BY <2>1, <3>2, Zenon DEF Sent
  <2>4. Whole(Sent(s)') /\ Carried(Sent(s)', Awaited(s), ix[s])
    <3>1. Whole(Sent(s)) /\ Carried(Sent(s), Awaited(s), ix[s])
      BY <2>2 DEF Flowing
    <3>2. Whole(Sent(s) \o Frame(Colon))
      BY <3>1, AppendFrame
    <3> QED
      BY <2>3, <3>1, <3>2, CarryKeepAlive
  <2> QED
    BY <2>1, <2>2, <2>4 DEF Flight, Flowing, Connected, Awaited
<1> QED
  BY <1>2, <1>3, <1>4, <1>5

\* A connection that is dropped leaves nothing under way.
LEMMA LeaveDelivers ==
    ASSUME DeliveryInv, NEW s \in Subs, Leave(s, "off")
    PROVE  \A t \in Subs : Flight(t)'
<1>1. RelayTypes /\ TypeOK
  BY DEF DeliveryInv, RelayInv, StreamInv
<1>2. AtRest(s)' /\ ~Connected(s)'
  BY <1>1 DEF RelayTypes, TypeOK, Leave, Unsubscribe, AtRest, Connected
<1>3. ASSUME NEW t \in Subs, t # s PROVE Same(t)
  BY <1>1, <1>3 DEF RelayTypes, TypeOK, Leave, Unsubscribe, Same
<1> QED
  BY <1>2, <1>3, SameFlight DEF DeliveryInv, Flight

\* The first frame of a relayer that is connected, for the decoder.
LEMMA FirstFrame ==
    ASSUME RelayInv, NEW s \in Subs, Connected(s), Flowing(s)
    PROVE  /\ Ends(buf[s]) = {} <=> Len(buf[s]) < 3
           /\ Ends(buf[s]) # {} =>
                 /\ Len(Sent(s)) >= 3 /\ Sent(s)[1] = buf[s][1]
                 /\ Advance(buf[s]) \o wire[s] = SubSeq(Sent(s), 4, Len(Sent(s)))
                 /\ BlockFirst(buf[s]) \/ FrameIs(buf[s], Colon)
           /\ \A t \in 0..MaxWord \cup {Colon} :
                 FrameIs(buf[s], t) => Ends(buf[s]) # {} /\ buf[s][1] = t
<1>1. buf[s] \in Seq(Tokens) /\ wire[s] \in Seq(Tokens) /\ Whole(buf[s] \o wire[s])
  BY Typed DEF Flowing, Sent
<1>2. /\ Framed(buf[s])
      /\ Len(buf[s]) >= 3 =>
            /\ Len(Sent(s)) >= 3 /\ Sent(s)[1] = buf[s][1]
            /\ Advance(buf[s]) \o wire[s] = SubSeq(Sent(s), 4, Len(Sent(s)))
  BY <1>1, BufferFront DEF Sent
<1>3. /\ Ends(buf[s]) = {} <=> Len(buf[s]) < 3
      /\ \A t \in 0..MaxWord \cup {Colon} : FrameIs(buf[s], t) <=> Len(buf[s]) >= 3 /\ buf[s][1] = t
  BY <1>2, FrontFrame
<1>4. Len(buf[s]) \in Nat
  BY <1>1
<1>5. \A n \in Nat : n < 3 \/ n >= 3
  OBVIOUS
<1>6. \A n \in Nat : ~(n < 3 /\ n >= 3)
  OBVIOUS
<1>7. ASSUME Len(buf[s]) >= 3 PROVE buf[s][1] \in 0..MaxWord \cup {Colon}
  <2>1. 1 \in 1..Len(buf[s]) /\ 1 % 3 = 1
    BY <1>4, <1>7
  <2>2. buf[s][1] # Newline
    BY <1>2, <2>1 DEF Framed
  <2>3. buf[s][1] \in Tokens
    BY <1>1, <2>1
  <2> QED
    BY <2>2, <2>3 DEF Tokens
<1>8. Len(buf[s]) >= 3 => BlockFirst(buf[s]) \/ FrameIs(buf[s], Colon)
  BY <1>3, <1>7 DEF BlockFirst
<1> QED
  BY <1>2, <1>3, <1>4, <1>5, <1>6, <1>8, Zenon

\* sync_blocks takes the block it waits for, and no other.
LEMMA TakeBlockDelivers ==
    ASSUME DeliveryInv, NEW s \in Subs, Connected(s), TakeBlock(s)
    PROVE  /\ Awaited(s) < ix[s]
           /\ SyncBlock(s, Awaited(s))
           /\ Flight(s)'
<1>1. Flowing(s) /\ RelayInv
  BY DEF DeliveryInv, Flight
<1>2. PICK n \in 0..MaxWord : FrameIs(buf[s], n) /\ (SyncBlock(s, n) \/ RejectBlock(s, n))
  BY DEF TakeBlock
<1>3. /\ Len(Sent(s)) >= 3 /\ Sent(s)[1] = n
      /\ Advance(buf[s]) \o wire[s] = SubSeq(Sent(s), 4, Len(Sent(s)))
  BY <1>1, <1>2, FirstFrame
<1>4. n \in Nat /\ Awaited(s) \in Nat /\ ix[s] \in Nat
  BY <1>1, Typed
<1>5. /\ n = Awaited(s) /\ Awaited(s) < ix[s]
      /\ Carried(SubSeq(Sent(s), 4, Len(Sent(s))), Awaited(s) + 1, ix[s])
  BY <1>1, <1>3, <1>4, CarryRest DEF Flowing
<1>6. Whole(SubSeq(Sent(s), 4, Len(Sent(s))))
  BY <1>1, <1>3, DropFrame DEF Flowing
<1>7. SyncBlock(s, n)
  BY <1>2, <1>5 DEF RejectBlock, Awaited
<1>8. Connected(s)' /\ pc'[s] = pc[s] /\ ix'[s] = ix[s] /\ wire'[s] = wire[s]
      /\ buf'[s] = Advance(buf[s]) /\ (down'[s] = "first" => have'[s] >= 1)
      /\ Awaited(s)' = Awaited(s) + 1
  <2>1. down \in [Subs -> {"off", "first", "stream", "nonsequential", "forked", "done"}]
        /\ buf \in [Subs -> Seq(Tokens)] /\ have \in [Subs -> 0..(MaxWord + 1)]
        /\ have[s] \in Nat /\ UNCHANGED <<pc, ix, wire>>
    BY <1>1, <1>7, Typed DEF RelayInv, RelayTypes, SyncBlock, vars, sVars
  <2>2. buf'[s] = Advance(buf[s])
    BY <1>7, <2>1 DEF SyncBlock
  <2>3. CASE /\ down[s] = "first"
             /\ down' = [down EXCEPT ![s] = "stream"]
             /\ UNCHANGED have
    BY <2>1, <2>2, <2>3 DEF Connected, Awaited
  <2>4. CASE /\ down[s] = "stream"
             /\ have' = [have EXCEPT ![s] = @ + 1]
             /\ UNCHANGED down
    BY <2>1, <2>2, <2>4 DEF Connected, Awaited
  <2> QED
    BY <1>7, <2>3, <2>4 DEF SyncBlock
<1>9. Sent(s)' = SubSeq(Sent(s), 4, Len(Sent(s)))
  BY <1>3, <1>8 DEF Sent
<1>10. Awaited(s) + 1 <= ix[s]
  BY <1>4, <1>5
<1> QED
  BY <1>1, <1>5, <1>6, <1>7, <1>8, <1>9, <1>10 DEF Flight, Flowing

\* The relayer of s touches no other connection.
LEMMA DownstreamSame ==
    ASSUME RelayInv, NEW s \in Subs, NEW t \in Subs, t # s,
           Connect(s) \/ Receive(s) \/ Decode(s) \/ DecodeEof(s) \/ Reset(s) \/ Disconnect(s)
    PROVE  Same(t)
<1>1. TypeOK /\ RelayTypes
  BY DEF RelayInv, StreamInv
<1>2. ASSUME NEW mode, Leave(s, mode) PROVE Same(t)
  BY <1>1, <1>2 DEF Leave, Unsubscribe, Same, TypeOK, RelayTypes
<1>3. ASSUME NEW n, SyncBlock(s, n) PROVE Same(t)
  BY <1>1, <1>3 DEF SyncBlock, Same, TypeOK, RelayTypes, vars, sVars
<1>4. TakeBlock(s) => Same(t)
  BY <1>2, <1>3 DEF TakeBlock, RejectBlock
<1>5. CASE Connect(s)
  BY <1>1, <1>5 DEF Connect, SubscribeBlocks, Same, TypeOK, RelayTypes
<1>6. CASE Receive(s)
  BY <1>1, <1>6 DEF Receive, Same, TypeOK, RelayTypes, vars, sVars
<1>7. CASE Decode(s)
  BY <1>1, <1>2, <1>4, <1>7 DEF Decode, Same, TypeOK, RelayTypes, vars, sVars
<1>8. CASE DecodeEof(s)
  BY <1>1, <1>2, <1>4, <1>8 DEF DecodeEof, Same, TypeOK, RelayTypes, vars, sVars
<1>9. CASE Reset(s) \/ Disconnect(s)
  BY <1>2, <1>9 DEF Reset, Disconnect
<1> QED
  BY <1>5, <1>6, <1>7, <1>8, <1>9

\* A new connection starts at the block the relayer waits for.
LEMMA ConnectDelivers ==
    ASSUME DeliveryInv, NEW s \in Subs, Connect(s)
    PROVE  Flight(s)'
<1>1. TypeOK /\ RelayTypes /\ RelayInv
  BY DEF DeliveryInv, RelayInv, StreamInv
<1>2. AtRest(s)
  BY DEF DeliveryInv, Flight, Connected, Connect
<1>3. /\ pc'[s] = "idle" /\ wire'[s] = << >> /\ buf'[s] = << >> /\ have'[s] = have[s]
      /\ down'[s] = (IF have[s] = 0 THEN "stream" ELSE "first")
      /\ ix'[s] = (IF have[s] = 0 THEN 0 ELSE have[s] - 1)
  BY <1>1, <1>2 DEF Connect, SubscribeBlocks, AtRest, TypeOK, RelayTypes
<1>4. have[s] \in Nat
  BY <1>1, Typed
<1>5. Awaited(s)' = ix'[s] /\ Connected(s)' /\ (down'[s] = "first" => have'[s] >= 1)
      /\ ix'[s] \in Nat
  BY <1>3, <1>4 DEF Awaited, Connected
<1>6. Sent(s)' = << >>
  BY <1>3 DEF Sent
<1>7. Whole(<< >>)
  <2>1. << >> \in Seq(Tokens) /\ Len(<< >>) = 0 /\ 0 % 3 = 0
    OBVIOUS
  <2> QED
    BY <2>1 DEF Whole, Framed
<1>8. \A n \in Nat : Carried(<< >>, n, n)
  BY DEF Carried
<1>9. Awaited(s)' <= ix'[s]
  BY <1>5
<1> QED
  BY <1>3, <1>5, <1>6, <1>7, <1>8, <1>9 DEF Flight, Flowing

\* A read takes tokens from the wire to the buffer.
LEMMA ReceiveDelivers ==
    ASSUME DeliveryInv, NEW s \in Subs, Receive(s)
    PROVE  Flight(s)'
<1>1. RelayInv /\ TypeOK /\ RelayTypes /\ Connected(s) /\ Flowing(s)
  BY DEF DeliveryInv, RelayInv, StreamInv, Flight, Receive
<1>2. PICK k \in 1..Len(wire[s]) :
         /\ buf' = [buf EXCEPT ![s] = @ \o SubSeq(wire[s], 1, k)]
         /\ wire' = [wire EXCEPT ![s] = SubSeq(@, k + 1, Len(@))]
  BY DEF Receive
<1>3. wire[s] \in Seq(Tokens) /\ buf[s] \in Seq(Tokens) /\ Len(wire[s]) \in Nat
  BY <1>1, Typed
<1>4. /\ SubSeq(wire[s], 1, k) \in Seq(Tokens)
      /\ SubSeq(wire[s], k + 1, Len(wire[s])) \in Seq(Tokens)
      /\ SubSeq(wire[s], 1, k) \o SubSeq(wire[s], k + 1, Len(wire[s])) = wire[s]
  <2>1. /\ 1 \in 1..(Len(wire[s]) + 1) /\ k \in 0..Len(wire[s])
        /\ k + 1 \in 1..(Len(wire[s]) + 1) /\ Len(wire[s]) \in 0..Len(wire[s])
    BY <1>3
  <2>2. SubSeq(wire[s], 1, k) \o SubSeq(wire[s], k + 1, Len(wire[s])) = SubSeq(wire[s], 1, Len(wire[s]))
    BY <1>3, <2>1, ConcatAdjacentSubSeq
  <2>3. SubSeq(wire[s], 1, Len(wire[s])) = wire[s]
    BY <1>3, SubSeqFull
  <2> QED
    BY <1>3, <2>1, <2>2, <2>3, SubSeqTokens
<1>5. Sent(s)' = Sent(s)
  <2>1. /\ buf'[s] = buf[s] \o SubSeq(wire[s], 1, k)
        /\ wire'[s] = SubSeq(wire[s], k + 1, Len(wire[s]))
    BY <1>1, <1>2 DEF RelayTypes
  <2> DEFINE read == SubSeq(wire[s], 1, k)
             left == SubSeq(wire[s], k + 1, Len(wire[s]))
  <2>2. buf[s] \o (read \o left) = (buf[s] \o read) \o left
    BY <1>3, <1>4, Reassociate
  <2> HIDE DEF read, left
  <2>3. buf'[s] \o wire'[s] = (buf[s] \o read) \o left
    BY <2>1 DEF read, left
  <2>4. read \o left = wire[s]
    BY <1>4 DEF read, left
  <2> QED
    BY <2>2, <2>3, <2>4, Zenon DEF Sent
<1>6. UNCHANGED <<pc, ix, down, have>>
  BY DEF Receive, vars, sVars
<1> QED
  BY <1>1, <1>5, <1>6 DEF Flight, Flowing, Connected, Awaited

\* decode takes the block that is awaited, drops a keep-alive or waits for more.
LEMMA DecodeDelivers ==
    ASSUME DeliveryInv, NEW s \in Subs, Decode(s)
    PROVE  Flight(s)'
<1>1. RelayInv /\ TypeOK /\ RelayTypes /\ Connected(s) /\ Flowing(s)
  BY DEF DeliveryInv, RelayInv, StreamInv, Flight, Decode
<1>2. CASE BlockFirst(buf[s])
  BY <1>1, <1>2, TakeBlockDelivers DEF Decode
<1>3. CASE ~BlockFirst(buf[s])
  <2>1. Ends(buf[s]) # {} => FrameIs(buf[s], Colon)
    BY <1>1, <1>3, FirstFrame
  <2>2. /\ buf' = [buf EXCEPT ![s] = IF Ends(@) = {} THEN @ ELSE Advance(@)]
        /\ UNCHANGED <<pc, ix, wire, down, have>>
    BY <1>3, <2>1 DEF Decode, vars, sVars
  <2>3. CASE Ends(buf[s]) = {}
    <3>1. buf'[s] = buf[s]
      BY <1>1, <2>2, <2>3 DEF RelayTypes
    <3>2. Same(s)
      BY <2>2, <3>1 DEF Same
    <3> QED
      BY <3>2, SameFlight DEF DeliveryInv
  <2>4. CASE Ends(buf[s]) # {}
    <3>1. buf'[s] = Advance(buf[s])
      BY <1>1, <2>2, <2>4 DEF RelayTypes
    <3>2. /\ Len(Sent(s)) >= 3 /\ Sent(s)[1] = Colon
          /\ Advance(buf[s]) \o wire[s] = SubSeq(Sent(s), 4, Len(Sent(s)))
      BY <1>1, <2>1, <2>4, FirstFrame
    <3>3. Sent(s)' = SubSeq(Sent(s), 4, Len(Sent(s)))
      BY <2>2, <3>1, <3>2 DEF Sent
    <3>4. Awaited(s) \in Nat /\ ix[s] \in Nat
      BY <1>1, Typed
    <3>5. Whole(Sent(s)') /\ Carried(Sent(s)', Awaited(s), ix[s])
      BY <1>1, <3>2, <3>3, <3>4, DropFrame, CarryRest DEF Flowing
    <3> QED
      BY <1>1, <2>2, <3>5 DEF Flight, Flowing, Connected, Awaited
  <2> QED
    BY <2>3, <2>4
<1> QED
  BY <1>2, <1>3

\* At the end of the response a relayer whose buffer holds no block has taken
\* all that its stream emitted.
LEMMA DecodeEofDelivers ==
    ASSUME DeliveryInv, NEW s \in Subs, DecodeEof(s)
    PROVE  Flight(s)'
<1>1. /\ RelayInv /\ TypeOK /\ RelayTypes /\ Connected(s) /\ Flowing(s)
      /\ pc[s] = "ended" /\ wire[s] = << >>
  BY DEF DeliveryInv, RelayInv, StreamInv, Flight, DecodeEof
<1> DEFINE rest == IF Ends(buf[s]) = {} THEN buf[s] ELSE Advance(buf[s])
<1>2. CASE BlockFirst(buf[s])
  BY <1>1, <1>2, TakeBlockDelivers DEF DecodeEof
<1>3. CASE ~BlockFirst(buf[s]) /\ rest # << >>
  BY <1>3, LeaveDelivers DEF DecodeEof
<1>4. CASE ~BlockFirst(buf[s]) /\ rest = << >>
  <2>1. /\ down' = [down EXCEPT ![s] = IF @ = "first" THEN "forked" ELSE "done"]
        /\ buf' = [buf EXCEPT ![s] = << >>]
        /\ UNCHANGED <<pc, ix, wire, have>>
    BY <1>4 DEF DecodeEof, vars, sVars
  <2>2. Awaited(s) \in Nat /\ ix[s] \in Nat
    BY <1>1, Typed
  <2>3. Sent(s) = buf[s]
    BY <1>1, Typed, ConcatEmptySeq DEF Sent
  <2>4. Carried(<< >>, Awaited(s), ix[s])
    <3>1. CASE Ends(buf[s]) = {}
      BY <1>1, <1>4, <2>3, <3>1 DEF Flowing
    <3>2. CASE Ends(buf[s]) # {}
      <4>1. FrameIs(buf[s], Colon)
        BY <1>1, <1>4, <3>2, FirstFrame
      <4>2. /\ Len(Sent(s)) >= 3 /\ Sent(s)[1] = Colon
            /\ Advance(buf[s]) \o wire[s] = SubSeq(Sent(s), 4, Len(Sent(s)))
        BY <1>1, <3>2, <4>1, FirstFrame
      <4>3. Carried(SubSeq(Sent(s), 4, Len(Sent(s))), Awaited(s), ix[s])
        BY <1>1, <2>2, <4>2, CarryRest DEF Flowing
      <4>4. << >> \o << >> = << >>
        OBVIOUS
      <4> QED
        BY <1>1, <1>4, <3>2, <4>2, <4>3, <4>4
    <3> QED
      BY <3>1, <3>2
  <2>5. ix[s] = Awaited(s)
    <3>1. Awaited(s)..(ix[s] - 1) = {}
      BY <2>4 DEF Carried
    <3> QED
      BY <1>1, <2>2, <3>1 DEF Flowing
  <2>6. /\ down'[s] = (IF down[s] = "first" THEN "forked" ELSE "done")
        /\ buf'[s] = << >> /\ wire'[s] = << >> /\ pc'[s] = "ended" /\ ix'[s] = ix[s]
        /\ have'[s] = have[s]
    BY <1>1, <2>1 DEF RelayTypes
  <2> QED
    BY <1>1, <2>5, <2>6 DEF Flight, AtRest, Connected, Awaited
<1> QED
  BY <1>2, <1>3, <1>4

\* A step of one relayer leaves what is in flight right on every connection.
LEMMA DownstreamDelivers ==
    ASSUME DeliveryInv, NEW s \in Subs,
           Connect(s) \/ Receive(s) \/ Decode(s) \/ DecodeEof(s) \/ Reset(s) \/ Disconnect(s)
    PROVE  \A t \in Subs : Flight(t)'
<1>1. ASSUME NEW t \in Subs, t # s PROVE Flight(t)'
  BY <1>1, DownstreamSame, SameFlight DEF DeliveryInv
<1>2. Flight(s)'
  BY ConnectDelivers, ReceiveDelivers, DecodeDelivers, DecodeEofDelivers, LeaveDelivers
     DEF Reset, Disconnect
<1> QED
  BY <1>1, <1>2

\* Every step keeps the invariant.
LEMMA StepDelivers == DeliveryInv /\ [RelayNext]_relayVars => DeliveryInv'
<1> SUFFICES ASSUME DeliveryInv, [RelayNext]_relayVars PROVE DeliveryInv'
  OBVIOUS
<1>1. RelayInv'
  BY StepKeepsRelay DEF DeliveryInv
<1>2. CASE \/ UNCHANGED relayVars
           \/ (Commit \/ Notify \/ DropNotifier \/ ClosePool) /\ UNCHANGED downVars
  <2>1. ASSUME NEW t \in Subs PROVE Same(t)
    BY <1>2 DEF Same, relayVars, vars, sVars, downVars, Commit, Notify, DropNotifier, ClosePool
  <2> QED
    BY <1>1, <2>1, SameFlight DEF DeliveryInv
<1>3. CASE RelayNext
  BY <1>1, <1>2, <1>3, UpstreamDelivers, DownstreamDelivers DEF RelayNext, DeliveryInv
<1> QED
  BY <1>2, <1>3

\* The invariant holds in every state of nodes that relay.
LEMMA DeliveryInvariant == RelaySpec => []DeliveryInv
<1>1. RelayInit /\ RelayInv => DeliveryInv
  BY DEF RelayInit, Init, DeliveryInv, Flight, Connected, AtRest
<1>2. RelayInit => DeliveryInv
  BY <1>1, RelayInitInv
<1> QED
  BY <1>2, StepDelivers, PTL DEF RelaySpec

-----------------------------------------------------------------------------
\* What a connection carries, in the relayer's buffer and before it, are the
\* blocks between the relayer and the stream, in order: the encoding as events
\* (subscribe_blocks of the API), the decoding (streams.rs) and every
\* reconnection keep all of them and none twice.
THEOREM NothingLostInFlight == RelaySpec => []InFlight
<1>1. DeliveryInv => InFlight
  BY DEF DeliveryInv, Flight, Flowing, Sent, Awaited, Carried, InFlight
<1> QED
  BY <1>1, DeliveryInvariant, PTL

\* sync_blocks rejects no block of the chain both nodes share, and run_blocks
\* reports a fork only where the stream ended before its first block.
THEOREM AlarmsAreTrue == RelaySpec => []NoFalseAlarm
<1>1. DeliveryInv => NoFalseAlarm
  BY DEF DeliveryInv, Flight, Flowing, AtRest, Connected, NoFalseAlarm
<1> QED
  BY <1>1, DeliveryInvariant, PTL

\* A relayer whose stream ends without an error has every block that the other
\* node stored, unless that one closed its pool: nothing was left in the buffer
\* when decode_eof ended it.
THEOREM DoneMeansComplete == RelaySpec => []DoneAtTheHead
<1>1. DeliveryInv => DoneAtTheHead
  <2> SUFFICES ASSUME DeliveryInv, NEW s \in Subs,
                      down[s] = "done", ~closed, listener[s] # "none"
               PROVE  have[s] >= stored \/ have[s] >= MaxWord
    BY DEF DoneAtTheHead
  <2>1. pc[s] = "ended" /\ ix[s] = have[s]
    BY DEF DeliveryInv, Flight, Connected, AtRest
  <2>2. AtTheHead(s)
    BY <2>1 DEF DeliveryInv, RelayInv, StreamInv, EndedByDrop
  <2>3. MaxWord \in Nat
    BY Typed DEF DeliveryInv
  <2> QED
    BY <2>1, <2>2, <2>3 DEF AtTheHead
<1> QED
  BY <1>1, DeliveryInvariant, PTL
=============================================================================
