---------------------------- MODULE ServeProofs ----------------------------
(***************************************************************************)
(* Theorems about the server of module Serve, for any number of            *)
(* connections and any limits: the limit is kept, and what makes serve's   *)
(* join and the end of the process legitimate.  The invariant counts the   *)
(* tasks that were not joined, ended or not, at every point of the loop.   *)
(***************************************************************************)
EXTENDS Serve, FiniteSetTheorems, TLAPS

\* While the process serves, the set has room for the connection that is
\* accepted next, and is full where a task is joined.
RoomToAccept ==
    run = "serving" =>
        /\ Cardinality(conn_set) <= limit
        /\ pc = "accept" => Cardinality(conn_set) < limit
        /\ pc = "join" => Cardinality(conn_set) >= limit

\* serve's "set cannot be empty" holds at every join, whatever way the tasks
\* ended, unless the limit is 0.
PanicsOnlyWithoutLimit == pc = "panicked" => limit = 0

\* The loop runs only while the process serves.
LoopStops == run # "serving" => pc \in {"dropped", "panicked"}

ServeInv ==
    /\ ServeTypeOK
    /\ RoomToAccept
    /\ LoopStops
    /\ PanicsOnlyWithoutLimit
    /\ StopsForAReason

-----------------------------------------------------------------------------
LEMMA ServeConstants == limit \in Limits => limit \in Nat
BY ServeAssumption DEF ServeAssumption

\* The set of connections is finite.
LEMMA FiniteConns ==
    ASSUME ServeTypeOK
    PROVE  IsFiniteSet(conn_set) /\ Cardinality(conn_set) \in Nat
<1>1. conn_set \subseteq Conns
  BY DEF ServeTypeOK
<1>2. IsFiniteSet(conn_set)
  BY <1>1, ServeAssumption, FS_Subset DEF ServeAssumption
<1> QED
  BY <1>2, FS_CardinalityType

\* The invariant holds initially.
LEMMA InitServe == Init => ServeInv
<1> SUFFICES ASSUME Init PROVE ServeInv
  OBVIOUS
<1>1. << >> \in Seq(Conns) /\ 0 \in 0..MaxFaults
  BY ServeAssumption DEF ServeAssumption
<1>2. conn_set = {c \in Conns : task[c] # "none"}
  BY DEF Init
<1>3. ServeTypeOK
  BY <1>1, <1>2 DEF Init, ServeTypeOK
<1>4. RoomToAccept
  <2>1. Cardinality(conn_set) = 0 /\ pc = "check" /\ limit \in Nat
    BY FS_EmptySet, ServeConstants DEF Init
  <2> QED
    BY <2>1 DEF RoomToAccept
<1> QED
  BY <1>3, <1>4 DEF Init, ServeInv, PanicsOnlyWithoutLimit, LoopStops, StopsForAReason

\* What clients and the node do changes neither the set nor the loop.
LEMMA SurroundingsKeepServe ==
    ASSUME ServeInv, NodeEnds \/ Interrupt \/ \E c \in Conns : Arrive(c) \/ End(c)
    PROVE  ServeInv'
<1> USE DEF config, server
<1>1. ASSUME NEW c \in Conns, Arrive(c) PROVE ServeInv'
  <2>1. backlog' \in Seq(Conns)
    BY <1>1 DEF Arrive, ServeInv, ServeTypeOK
  <2> QED
    BY <1>1, <2>1 DEF Arrive, ServeInv, ServeTypeOK, RoomToAccept, PanicsOnlyWithoutLimit,
       LoopStops,
                      StopsForAReason
<1>2. ASSUME NEW c \in Conns, End(c) PROVE ServeInv'
  <2>1. /\ task' \in [Conns -> {"none", "running", "finished", "panicked"}]
        /\ \A d \in Conns : d # c => task'[d] = task[d]
        /\ task[c] = "running" /\ (c \in conn_set => task'[c] # "none")
    BY <1>2 DEF End, ServeInv, ServeTypeOK
  <2>2. run' = "serving" => conn_set' = {d \in Conns : task'[d] # "none"}
    BY <1>2, <2>1 DEF End, ServeInv, ServeTypeOK
  <2> QED
    BY <1>2, <2>1, <2>2 DEF End, ServeInv, ServeTypeOK, RoomToAccept, PanicsOnlyWithoutLimit,
       LoopStops,
                            StopsForAReason
<1>3. CASE NodeEnds
  BY <1>3 DEF NodeEnds, ServeInv, ServeTypeOK, RoomToAccept, PanicsOnlyWithoutLimit, LoopStops,
              StopsForAReason
<1>4. CASE Interrupt
  BY <1>4 DEF Interrupt, ServeInv, ServeTypeOK, RoomToAccept, PanicsOnlyWithoutLimit, LoopStops,
              StopsForAReason
<1> QED
  BY <1>1, <1>2, <1>3, <1>4

\* The steps of the loop keep the limit.
LEMMA LoopKeepsServe ==
    ASSUME ServeInv, CheckLimit \/ JoinNext \/ Accept \/ AcceptFails
    PROVE  ServeInv'
<1> USE DEF config
<1>1. limit \in Nat /\ IsFiniteSet(conn_set) /\ Cardinality(conn_set) \in Nat
  BY ServeConstants, FiniteConns DEF ServeInv, ServeTypeOK
<1>2. CASE CheckLimit
  <2>1. ServeTypeOK'
    BY <1>2 DEF CheckLimit, ServeInv, ServeTypeOK
  <2>2. RoomToAccept'
    BY <1>1, <1>2 DEF CheckLimit, ServeInv, RoomToAccept
  <2> QED
    BY <1>2, <2>1, <2>2 DEF CheckLimit, ServeInv, PanicsOnlyWithoutLimit, LoopStops, StopsForAReason
<1>3. CASE JoinNext
  <2>1. CASE conn_set = {} /\ pc' = "panicked" /\ UNCHANGED <<conn_set, task>>
    <3>1. Cardinality(conn_set) = 0 /\ run = "serving"
      BY <1>3, <2>1, FS_EmptySet DEF JoinNext, ServeInv, LoopStops
    <3>2. limit = 0
      BY <1>1, <1>3, <3>1 DEF JoinNext, ServeInv, RoomToAccept
    <3> QED
      BY <1>3, <2>1, <3>1, <3>2
         DEF JoinNext, ServeInv, ServeTypeOK, RoomToAccept, PanicsOnlyWithoutLimit, LoopStops,
             StopsForAReason
  <2>2. ASSUME NEW c \in conn_set,
               conn_set' = conn_set \ {c},
               task' = [task EXCEPT ![c] = "none"],
               pc' = IF task[c] = "finished" THEN "accept" ELSE "check"
        PROVE  ServeInv'
    <3>1. Cardinality(conn_set') = Cardinality(conn_set) - 1
      BY <1>1, <2>2, FS_RemoveElement
    <3>2. RoomToAccept'
      BY <1>1, <1>3, <2>2, <3>1 DEF JoinNext, ServeInv, RoomToAccept
    <3>3. ServeTypeOK'
      BY <1>3, <2>2 DEF JoinNext, ServeInv, ServeTypeOK
    <3> QED
      BY <1>3, <2>2, <3>2, <3>3 DEF JoinNext, ServeInv, PanicsOnlyWithoutLimit, LoopStops,
         StopsForAReason
  <2> QED
    BY <1>3, <2>1, <2>2 DEF JoinNext
<1>4. CASE Accept
  <2>1. Head(backlog) \in Conns /\ backlog' \in Seq(Conns)
    BY <1>4 DEF Accept, ServeInv, ServeTypeOK
  <2>2. Cardinality(conn_set') <= Cardinality(conn_set) + 1 /\ Cardinality(conn_set') \in Nat
    <3>1. conn_set' = conn_set \cup {Head(backlog)}
      BY <1>4 DEF Accept
    <3>2. Cardinality(conn_set \cup {Head(backlog)}) =
             IF Head(backlog) \in conn_set THEN Cardinality(conn_set) ELSE Cardinality(conn_set) + 1
      BY <1>1, FS_AddElement
    <3> QED
      BY <1>1, <3>1, <3>2
  <2>3. RoomToAccept'
    BY <1>1, <1>4, <2>2 DEF Accept, ServeInv, RoomToAccept
  <2>4. ServeTypeOK'
    BY <1>4, <2>1 DEF Accept, ServeInv, ServeTypeOK
  <2> QED
    BY <1>4, <2>3, <2>4 DEF Accept, ServeInv, PanicsOnlyWithoutLimit, LoopStops, StopsForAReason
<1>5. CASE AcceptFails
  <2>1. backlog' \in Seq(Conns) /\ faults' \in 0..MaxFaults
    BY <1>5, ServeAssumption DEF AcceptFails, ServeInv, ServeTypeOK, ServeAssumption
  <2> QED
    BY <1>5, <2>1 DEF AcceptFails, ServeInv, ServeTypeOK, RoomToAccept, PanicsOnlyWithoutLimit,
       LoopStops,
                      StopsForAReason
<1> QED
  BY <1>2, <1>3, <1>4, <1>5

\* The end of the process keeps the invariant: only a reason ends it.
LEMMA EndKeepsServe ==
    ASSUME ServeInv, Select \/ Unwind \/ CloseNodeDb \/ Exit
    PROVE  ServeInv'
<1> USE DEF config, server
<1>1. << >> \in Seq(Conns)
  OBVIOUS
<1>2. CASE Select
  BY <1>2 DEF Select, NodeFuture, ServeInv, ServeTypeOK, RoomToAccept, PanicsOnlyWithoutLimit,
     LoopStops,
              StopsForAReason
<1>3. CASE Unwind
  BY <1>1, <1>3 DEF Unwind, ServeInv, ServeTypeOK, RoomToAccept, PanicsOnlyWithoutLimit, LoopStops,
                    StopsForAReason
<1>4. CASE CloseNodeDb
  BY <1>4 DEF CloseNodeDb, ServeInv, ServeTypeOK, RoomToAccept, PanicsOnlyWithoutLimit, LoopStops,
              StopsForAReason
<1>5. CASE Exit
  BY <1>1, <1>5 DEF Exit, ServeInv, ServeTypeOK, RoomToAccept, PanicsOnlyWithoutLimit, LoopStops,
                    StopsForAReason
<1> QED
  BY <1>2, <1>3, <1>4, <1>5

\* The invariant holds in every state.
LEMMA ServeInvariant == Spec => []ServeInv
<1>1. ServeInv /\ [Next]_vars => ServeInv'
  <2> SUFFICES ASSUME ServeInv, [Next]_vars PROVE ServeInv'
    OBVIOUS
  <2>1. CASE UNCHANGED vars
    BY <2>1 DEF vars, config, server, ServeInv, ServeTypeOK, RoomToAccept,
       PanicsOnlyWithoutLimit, LoopStops,
                StopsForAReason
  <2>2. CASE Next
    BY <2>2, SurroundingsKeepServe, LoopKeepsServe, EndKeepsServe DEF Next
  <2> QED
    BY <2>1, <2>2
<1> QED
  BY <1>1, InitServe, PTL DEF Spec

-----------------------------------------------------------------------------
\* Every variable keeps its type, and while the process serves the JoinSet
\* holds exactly the tasks that were not joined.
THEOREM ServeTypeCorrect == Spec => []ServeTypeOK
<1>1. ServeInv => ServeTypeOK
  BY DEF ServeInv
<1> QED
  BY <1>1, ServeInvariant, PTL

\* At most tcp_conn_limit connections are served at once, whatever order
\* serve_next_conn accepts, joins and meets panics in.
THEOREM LimitIsKept == Spec => []ConnectionLimit
<1>1. ServeInv => ConnectionLimit
  <2> SUFFICES ASSUME ServeInv, run = "serving" PROVE Cardinality(Running) <= limit
    BY DEF ConnectionLimit
  <2>1. IsFiniteSet(conn_set) /\ Cardinality(conn_set) \in Nat /\ limit \in Nat
    BY FiniteConns, ServeConstants DEF ServeInv, ServeTypeOK
  <2>2. Running \subseteq conn_set
    BY DEF Running, ServeInv, ServeTypeOK
  <2>3. Cardinality(Running) <= Cardinality(conn_set) /\ Cardinality(Running) \in Nat
    BY <2>1, <2>2, FS_Subset, FS_CardinalityType
  <2>4. Cardinality(conn_set) <= limit
    BY DEF ServeInv, RoomToAccept
  <2> QED
    BY <2>1, <2>3, <2>4
<1> QED
  BY <1>1, ServeInvariant, PTL

\* "set cannot be empty" holds at every join, unless the limit is 0.
THEOREM JoinsAreNotEmpty == Spec => []PanicsOnlyWithoutLimit
<1>1. ServeInv => PanicsOnlyWithoutLimit
  BY DEF ServeInv
<1> QED
  BY <1>1, ServeInvariant, PTL

\* The process stops on an interrupt, an error, the end of a relayer or a
\* limit of 0 only: a node that has finished validating goes on serving.
THEOREM ProcessStopsForAReason == Spec => []StopsForAReason
<1>1. ServeInv => StopsForAReason
  BY DEF ServeInv
<1> QED
  BY <1>1, ServeInvariant, PTL
=============================================================================
