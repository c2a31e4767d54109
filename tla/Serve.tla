------------------------------- MODULE Serve -------------------------------
(***************************************************************************)
(* The process around a node, as the command line runs it: the API server  *)
(* accepts connections up to a limit and serves each in a task of its own, *)
(* next to the node's streams, until the process is interrupted, a stream  *)
(* fails or the node has nothing more to do.  What a connection asks for   *)
(* is in the modules Store, StateQuery and Relay, how the streams end in   *)
(* module Node.                                                            *)
(***************************************************************************)
EXTENDS Integers, Sequences, FiniteSets

CONSTANTS
    Conns,      \* connections; one is taken again when its task was joined
    Limits,     \* the values of tcp_conn_limit
    MaxFaults   \* bound: accepts that fail

ASSUME ServeAssumption ==
    /\ IsFiniteSet(Conns)
    /\ Limits \subseteq Nat
    /\ MaxFaults \in Nat

VARIABLES
    limit,        \* tcp_conn_limit
    relayer,      \* is there a relayer source endpoint?
    validation,   \* is validation enabled?
    node,         \* the node's streams: "running", or how they were joined
    interrupted,  \* was there a ctrl-c?
    pc,           \* where serve stands
    backlog,      \* connections to the listener that are not accepted
    conn_set,     \* the JoinSet: the connections whose task was not joined
    task,         \* task[c]: the state of its task, "none" if there is none
    run,          \* the process
    faults        \* accepts that failed

config == <<limit, relayer, validation>>
server == <<pc, conn_set>>
vars == <<config, node, interrupted, server, backlog, task, run, faults>>

\* The type invariant: while the process serves, the JoinSet holds exactly the
\* tasks that were not joined; no connection is served outside of it.
ServeTypeOK ==
    /\ limit \in Limits
    /\ {relayer, validation, interrupted} \subseteq BOOLEAN
    /\ node \in {"running", "ok", "err"}
    /\ pc \in {"check", "join", "accept", "panicked", "dropped"}
    /\ backlog \in Seq(Conns)
    /\ conn_set \subseteq Conns
    /\ task \in [Conns -> {"none", "running", "finished", "panicked"}]
    /\ run \in {"serving", "close_node_db", "close_api_db", "exited"}
    /\ faults \in 0..MaxFaults
    /\ run = "serving" => conn_set = {c \in Conns : task[c] # "none"}

Init ==
    /\ limit \in Limits
    /\ relayer \in BOOLEAN /\ validation \in BOOLEAN
    /\ node = "running" /\ interrupted = FALSE
    /\ pc = "check" /\ backlog = << >> /\ conn_set = {}
    /\ task = [c \in Conns |-> "none"]
    /\ run = "serving" /\ faults = 0

Waiting(c) == \E i \in 1..Len(backlog) : backlog[i] = c

Running == {c \in Conns : task[c] = "running"}

-----------------------------------------------------------------------------
(* The clients.                                                            *)

\* A client connects to the listener, which is bound until the process exits.
Arrive(c) ==
    /\ run # "exited"
    /\ ~Waiting(c) /\ c \notin conn_set /\ task[c] = "none"
    /\ backlog' = Append(backlog, c)
    /\ UNCHANGED <<config, node, interrupted, server, task, run, faults>>

\* A connection ends, by its client or an error, or its task panics.  When the
\* JoinSet was dropped the task is aborted, or ends before it notices.
End(c) ==
    /\ task[c] = "running"
    /\ \/ c \in conn_set /\ \E how \in {"finished", "panicked"} : task' = [task EXCEPT ![c] = how]
       \/ c \notin conn_set /\ task' = [task EXCEPT ![c] = "none"]
    /\ UNCHANGED <<config, node, interrupted, server, backlog, run, faults>>

-----------------------------------------------------------------------------
(* serve: serve_next_conn in a loop.                                       *)

\* Mutant: the limit is one connection too high.
CheckLimitLate ==
    /\ pc = "check"
    /\ pc' = IF Cardinality(conn_set) > limit THEN "join" ELSE "accept"
    /\ UNCHANGED <<config, node, interrupted, conn_set, backlog, task, run, faults>>

\* Tasks that have ended count until they are joined.
CheckLimit ==
    /\ pc = "check"
    /\ pc' = IF Cardinality(conn_set) >= limit THEN "join" ELSE "accept"
    /\ UNCHANGED <<config, node, interrupted, conn_set, backlog, task, run, faults>>

\* Mutant: all tasks are joined.
JoinAll ==
    /\ pc = "join"
    /\ \/ conn_set = {} /\ pc' = "panicked" /\ UNCHANGED <<conn_set, task>>
       \/ /\ conn_set # {}
          /\ \A c \in conn_set : task[c] \in {"finished", "panicked"}
          /\ conn_set' = {}
          /\ task' = [c \in Conns |-> IF c \in conn_set THEN "none" ELSE task[c]]
          /\ pc' = "accept"
    /\ UNCHANGED <<config, node, interrupted, backlog, run, faults>>

\* join_next: the first task to have ended makes room.  A task that panicked
\* is an error and next_conn starts over; an empty set, a panic of serve.
JoinNext ==
    /\ pc = "join"
    /\ \/ conn_set = {} /\ pc' = "panicked" /\ UNCHANGED <<conn_set, task>>
       \/ \E c \in conn_set :
             /\ task[c] \in {"finished", "panicked"}
             /\ conn_set' = conn_set \ {c}
             /\ task' = [task EXCEPT ![c] = "none"]
             /\ pc' = IF task[c] = "finished" THEN "accept" ELSE "check"
    /\ UNCHANGED <<config, node, interrupted, backlog, run, faults>>

\* Mutant: the task is spawned outside of the JoinSet.
AcceptDetached ==
    /\ pc = "accept" /\ backlog # << >>
    /\ backlog' = Tail(backlog)
    /\ task' = [task EXCEPT ![Head(backlog)] = "running"]
    /\ pc' = "check"
    /\ UNCHANGED <<config, node, interrupted, conn_set, run, faults>>

\* The next connection is accepted and a task spawned that serves it.
Accept ==
    /\ pc = "accept" /\ backlog # << >>
    /\ backlog' = Tail(backlog)
    /\ conn_set' = conn_set \cup {Head(backlog)}
    /\ task' = [task EXCEPT ![Head(backlog)] = "running"]
    /\ pc' = "check"
    /\ UNCHANGED <<config, node, interrupted, run, faults>>

\* accept fails: the next connection was aborted, or there is no descriptor
\* left for it.
AcceptFails ==
    /\ pc = "accept" /\ backlog # << >>
    /\ faults < MaxFaults /\ faults' = faults + 1
    /\ backlog' \in {backlog, Tail(backlog)}
    /\ pc' = "check"
    /\ UNCHANGED <<config, node, interrupted, conn_set, task, run>>

-----------------------------------------------------------------------------
(* run: the first of the server, ctrl-c and the node ends the process.     *)

\* The node's streams are joined.
NodeEnds ==
    /\ relayer \/ validation
    /\ node = "running" /\ run # "exited"
    /\ node' \in {"ok", "err"}
    /\ UNCHANGED <<config, interrupted, server, backlog, task, run, faults>>

Interrupt ==
    /\ run = "serving" /\ ~interrupted
    /\ interrupted' = TRUE
    /\ UNCHANGED <<config, node, server, backlog, task, run, faults>>

\* Mutant: a node without relayer never ends the process.
NodeFutureIdle == node # "running" /\ relayer

\* Mutant: the node has done its work when its streams have.
NodeFutureDone == node # "running"

\* Is node_future ready?  A node that only validated is idle when it is done.
NodeFuture == node = "err" \/ (node = "ok" /\ relayer)

\* select!: the other futures are dropped, serve with its JoinSet, which aborts
\* the tasks.
Select ==
    /\ run = "serving"
    /\ interrupted \/ NodeFuture
    /\ run' = "close_node_db"
    /\ pc' = "dropped"
    /\ conn_set' = {}
    /\ task' = [c \in Conns |-> IF task[c] = "running" THEN task[c] ELSE "none"]
    /\ UNCHANGED <<config, node, interrupted, backlog, faults>>

\* A panic of serve unwinds run: the pools are not closed.
Unwind ==
    /\ run = "serving" /\ pc = "panicked"
    /\ run' = "exited"
    /\ backlog' = << >> /\ conn_set' = {}
    /\ task' = [c \in Conns |-> "none"]
    /\ UNCHANGED <<config, node, interrupted, pc, faults>>

\* The pools are closed, the API's only if closing the node's was no error;
\* then the runtime shuts down, with the tasks that are left.
CloseNodeDb ==
    /\ run = "close_node_db"
    /\ run' = "close_api_db"
    /\ UNCHANGED <<config, node, interrupted, server, backlog, task, faults>>

Exit ==
    /\ run \in {"close_node_db", "close_api_db"}
    /\ run' = "exited"
    /\ backlog' = << >>
    /\ task' = [c \in Conns |-> "none"]
    /\ UNCHANGED <<config, node, interrupted, server, faults>>

-----------------------------------------------------------------------------
Next ==
    \/ \E c \in Conns : Arrive(c) \/ End(c)
    \/ CheckLimit \/ JoinNext \/ Accept \/ AcceptFails
    \/ NodeEnds \/ Interrupt \/ Select \/ Unwind \/ CloseNodeDb \/ Exit

Spec == Init /\ [][Next]_vars

\* The main task is polled.  Nobody has to connect, to leave or to interrupt.
Fairness ==
    /\ WF_vars(CheckLimit) /\ WF_vars(JoinNext) /\ WF_vars(Accept)
    /\ WF_vars(Select) /\ WF_vars(Unwind) /\ WF_vars(CloseNodeDb) /\ WF_vars(Exit)

FairSpec == Spec /\ Fairness

-----------------------------------------------------------------------------
\* The number of connections that are served at once is capped: no order of
\* ends, panics and joins lets one more in.
ConnectionLimit == run = "serving" => Cardinality(Running) <= limit

\* A process only stops for a reason: a node whose validation is done without
\* an error goes on serving if it has no relayer, and "set cannot be empty"
\* ends it with a limit of 0 only, whatever way the tasks ended.
StopsForAReason ==
    run # "serving" =>
        \/ interrupted \/ node = "err" \/ limit = 0
        \/ relayer /\ node = "ok"

\* A client does not wait in vain while there is room: tasks that ended and
\* were not joined, failed accepts and clients that never leave block nobody
\* for good unless the limit is reached by connections that are served.
ServedUnlessFull ==
    \A c \in Conns :
        Waiting(c) ~> ~Waiting(c) \/ Cardinality(Running) >= limit \/ run # "serving"

\* An error of the relayer or the validation stream ends the process.
CriticalErrorEndsNode == node = "err" ~> run = "exited"
=============================================================================
