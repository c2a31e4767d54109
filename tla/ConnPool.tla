------------------------------ MODULE ConnPool ------------------------------
(***************************************************************************)
(* The connection pool shared by the relayer, the validation stream, the   *)
(* dry runs and the API (crates/rusqlite-pool): a fixed-size queue of      *)
(* SQLite connections guarded by a tokio semaphore.  A task first takes a  *)
(* permit and then, in a second step, pops a connection with               *)
(* `expect("permit guarantees availability")`; dropping a handle pushes    *)
(* the connection back and only then drops the permit.                     *)
(*                                                                         *)
(* The queue is modelled as a set (which idle connection is handed out is  *)
(* irrelevant here); the semaphore keeps tokio's order: a released permit  *)
(* goes to the oldest waiter, and only to the counter if nobody waits.     *)
(***************************************************************************)
EXTENDS Integers, Sequences, FiniteSets

CONSTANTS
    Conns,  \* the connections opened by `new`; the capacity is their number
    Tasks,  \* the tasks that use the pool
    Need    \* Need[t]: how many handles task t holds at once (1, or 2 for a
            \* task that acquires while it already holds a handle)

ASSUME PoolAssumption ==
    /\ IsFiniteSet(Conns)
    /\ IsFiniteSet(Tasks)
    /\ Need \in [Tasks -> {1, 2}]

VARIABLES
    queue,    \* idle connections
    permits,  \* permits available in the semaphore
    waiters,  \* tasks queued on the semaphore, oldest first
    pc,       \* pc[t]: where task t stands with the pool
    held,     \* held[t]: the connections of the handles t owns
    closer,   \* progress of `close`
    gone      \* connections closed by `close`

vars == <<queue, permits, waiters, pc, held, closer, gone>>

\* "using": owns held[t] (possibly nothing).  "waiting": queued on the
\* semaphore.  "assigned": a released permit was handed to t, whose future has
\* not been polled yet.  "permitted": owns a permit, about to pop.
\* "returning": pushed a connection back, about to drop its permit.
\* "releasing": dropping the handles it still owns.
\* "refused": `acquire` returned AcquireError.  "panicked": the `expect` on
\* `pop` failed.
PCs == {"using", "waiting", "assigned", "permitted", "returning",
        "releasing", "refused", "panicked"}

closed == closer # "open"

\* The type invariant: only connections of the pool are idle or lent, and the
\* semaphore does not go below zero.
TypeOK ==
    /\ queue \subseteq Conns
    /\ permits \in Nat
    /\ waiters \in Seq(Tasks)
    /\ pc \in [Tasks -> PCs]
    /\ held \in [Tasks -> SUBSET Conns]
    /\ closer \in {"open", "draining", "closed"}
    /\ gone \subseteq Conns

Init ==
    /\ queue = Conns
    /\ permits = Cardinality(Conns)
    /\ waiters = << >>
    /\ pc = [t \in Tasks |-> "using"]
    /\ held = [t \in Tasks |-> {}]
    /\ closer = "open"
    /\ gone = {}

-----------------------------------------------------------------------------
\* Where a task goes on that stops using a handle or its queued `acquire`: it
\* drops the other handles it owns.
Resume(t) == IF held[t] = {} THEN "using" ELSE "releasing"

\* The sequence s without its i-th element.
Without(s, i) ==
    [j \in 1..(Len(s) - 1) |-> IF j < i THEN s[j] ELSE s[j + 1]]

\* Mutant: the permit is always added to the counter, waiters are not woken.
ReleasePermitNoWake(t, next) ==
    /\ pc' = [pc EXCEPT ![t] = next]
    /\ permits' = permits + 1
    /\ UNCHANGED waiters

\* Task t gives one permit up and continues in `next`: the permit goes to the
\* oldest waiter if there is one, otherwise to the counter.  A closed
\* semaphore has woken its waiters and assigns nothing.
ReleasePermit(t, next) ==
    \/ /\ waiters # << >>
       /\ ~closed
       /\ pc' = [pc EXCEPT ![t] = next, ![Head(waiters)] = "assigned"]
       /\ waiters' = Tail(waiters)
       /\ UNCHANGED permits
    \/ /\ waiters = << >> \/ closed
       /\ pc' = [pc EXCEPT ![t] = next]
       /\ permits' = permits + 1
       /\ UNCHANGED waiters

-----------------------------------------------------------------------------
\* Mutant: a closed semaphore still hands out its permits.
AcquireIgnoresClose(t) ==
    /\ pc[t] \in {"using", "refused"}
    /\ Cardinality(held[t]) < Need[t]
    /\ permits > 0
    /\ permits' = permits - 1
    /\ pc' = [pc EXCEPT ![t] = "permitted"]
    /\ UNCHANGED <<queue, held, closer, gone, waiters>>

\* `acquire`: take a permit at once, queue for one, or be refused.
Acquire(t) ==
    /\ pc[t] \in {"using", "refused"}
    /\ Cardinality(held[t]) < Need[t]
    /\ \/ /\ closed
          /\ pc' = [pc EXCEPT ![t] = "refused"]
          /\ UNCHANGED <<permits, waiters>>
       \/ /\ ~closed
          /\ permits > 0
          /\ permits' = permits - 1
          /\ pc' = [pc EXCEPT ![t] = "permitted"]
          /\ UNCHANGED waiters
       \/ /\ ~closed
          /\ permits = 0
          /\ waiters' = Append(waiters, t)
          /\ pc' = [pc EXCEPT ![t] = "waiting"]
          /\ UNCHANGED permits
    /\ UNCHANGED <<queue, held, closer, gone>>

\* Mutant: the available permits are not checked.
TryAcquireUnchecked(t) ==
    /\ pc[t] \in {"using", "refused"}
    /\ Cardinality(held[t]) < Need[t]
    /\ ~closed
    /\ permits' = permits - 1
    /\ pc' = [pc EXCEPT ![t] = "permitted"]
    /\ UNCHANGED <<queue, waiters, held, closer, gone>>

\* `try_acquire`: the same without queueing; its failures change nothing.
TryAcquire(t) ==
    /\ pc[t] \in {"using", "refused"}
    /\ Cardinality(held[t]) < Need[t]
    /\ ~closed
    /\ permits > 0
    /\ permits' = permits - 1
    /\ pc' = [pc EXCEPT ![t] = "permitted"]
    /\ UNCHANGED <<queue, waiters, held, closer, gone>>

\* The future of a task that was handed a permit is polled.  The semaphore is
\* checked for closure first; the permit is then given back.
PollAssigned(t) ==
    /\ pc[t] = "assigned"
    /\ \/ /\ ~closed
          /\ pc' = [pc EXCEPT ![t] = "permitted"]
          /\ UNCHANGED <<permits, waiters>>
       \/ closed /\ ReleasePermit(t, "refused")
    /\ UNCHANGED <<queue, held, closer, gone>>

\* `close` wakes the waiters, whose futures return AcquireError.
PollClosed(t) ==
    /\ pc[t] = "waiting"
    /\ closed
    /\ \E i \in 1..Len(waiters) :
          waiters[i] = t /\ waiters' = Without(waiters, i)
    /\ pc' = [pc EXCEPT ![t] = "refused"]
    /\ UNCHANGED <<queue, permits, held, closer, gone>>

\* The future of a queued `acquire` is dropped, its caller was cancelled; a
\* permit that was already assigned to it is passed on.
Cancel(t) ==
    /\ \/ /\ pc[t] = "waiting"
          /\ \E i \in 1..Len(waiters) :
                waiters[i] = t /\ waiters' = Without(waiters, i)
          /\ pc' = [pc EXCEPT ![t] = Resume(t)]
          /\ UNCHANGED permits
       \/ pc[t] = "assigned" /\ ReleasePermit(t, Resume(t))
    /\ UNCHANGED <<queue, held, closer, gone>>

\* Mutant: the connection is lent out but stays in the queue.
PopCopies(t) ==
    /\ pc[t] = "permitted"
    /\ \E c \in queue : held' = [held EXCEPT ![t] = @ \cup {c}]
    /\ pc' = [pc EXCEPT ![t] = "using"]
    /\ UNCHANGED <<queue, permits, waiters, closer, gone>>

\* `pop`: the connection is moved from the queue into the handle.
Pop(t) ==
    /\ pc[t] = "permitted"
    /\ \E c \in queue :
          /\ queue' = queue \ {c}
          /\ held' = [held EXCEPT ![t] = @ \cup {c}]
    /\ pc' = [pc EXCEPT ![t] = "using"]
    /\ UNCHANGED <<permits, waiters, closer, gone>>

\* `pop` finds the queue empty: `expect` panics, the permit is dropped.
PopPanics(t) ==
    /\ pc[t] = "permitted"
    /\ queue = {}
    /\ ReleasePermit(t, "panicked")
    /\ UNCHANGED <<queue, held, closer, gone>>

\* Mutant: the fields of the handle are declared in the other order, so the
\* permit is already available while the connection is still lent out.
DropConnPermitFirst(t) ==
    /\ pc[t] \in {"using", "releasing", "refused", "panicked"}
    /\ held[t] # {}
    /\ ReleasePermit(t, "returning")
    /\ UNCHANGED <<queue, held, closer, gone>>

\* Drop of an AsyncConnectionHandle, first field: the connection is pushed
\* back into the queue.  A panicking or refused task drops the handles it owns
\* too.
DropConn(t) ==
    /\ pc[t] \in {"using", "releasing", "refused", "panicked"}
    /\ \E c \in held[t] :
          /\ queue' = queue \cup {c}
          /\ held' = [held EXCEPT ![t] = @ \ {c}]
    /\ pc' = [pc EXCEPT ![t] = "returning"]
    /\ UNCHANGED <<permits, waiters, closer, gone>>

\* Drop of an AsyncConnectionHandle, second field: the permit.
DropPermit(t) ==
    /\ pc[t] = "returning"
    /\ ReleasePermit(t, Resume(t))
    /\ UNCHANGED <<queue, held, closer, gone>>

\* `close`: the semaphore is closed ...
CloseSemaphore ==
    /\ closer = "open"
    /\ closer' = "draining"
    /\ UNCHANGED <<queue, permits, waiters, pc, held, gone>>

\* ... then the queue is popped until it is empty, closing each connection.
CloseConn ==
    /\ closer = "draining"
    /\ \/ \E c \in queue :
            /\ queue' = queue \ {c}
            /\ gone' = gone \cup {c}
            /\ UNCHANGED closer
       \/ queue = {} /\ closer' = "closed" /\ UNCHANGED <<queue, gone>>
    /\ UNCHANGED <<permits, waiters, pc, held>>

-----------------------------------------------------------------------------
Next ==
    \/ \E t \in Tasks :
          \/ Acquire(t) \/ TryAcquire(t) \/ PollAssigned(t) \/ PollClosed(t)
          \/ Cancel(t) \/ Pop(t) \/ PopPanics(t) \/ DropConn(t) \/ DropPermit(t)
    \/ CloseSemaphore
    \/ CloseConn

Spec == Init /\ [][Next]_vars

\* A task whose future is ready is polled again by the runtime, and a task
\* that owns a handle goes on: it acquires what it still needs, or drops what
\* it owns.  Nothing obliges a task to ask for a first connection, to cancel,
\* or anybody to close the pool.
Fairness ==
    \A t \in Tasks :
        /\ WF_vars(PollAssigned(t) \/ PollClosed(t) \/ Pop(t) \/ PopPanics(t)
                     \/ DropPermit(t))
        /\ WF_vars(held[t] # {} /\ (Acquire(t) \/ DropConn(t)))

FairSpec == Spec /\ Fairness

-----------------------------------------------------------------------------
\* Tasks between their permit and their connection, in either direction: they
\* own a permit that no handle stands for.
InFlight == {t \in Tasks : pc[t] \in {"assigned", "permitted", "returning"}}

\* Every connection is in exactly one place: idle in the queue, owned by one
\* handle, or closed.  In particular two tasks never use one connection at the
\* same time, and no connection leaks out of the pool on any path (cancelled
\* acquire, panic, drop after close).
ConnsConserved ==
    /\ queue \cap gone = {}
    /\ \A t \in Tasks : held[t] \cap (queue \cup gone) = {}
    /\ \A t, u \in Tasks : t # u => held[t] \cap held[u] = {}
    /\ Conns = queue \cup gone \cup UNION {held[t] : t \in Tasks}

\* While the pool is open there is an idle connection for every permit that is
\* available or in flight.  This is the accounting behind the `expect` on
\* `pop`; it is what the drop order of AsyncConnectionHandle protects.
PermitsBacked ==
    closer = "open" => Cardinality(queue) = permits + Cardinality(InFlight)

\* The `expect("permit guarantees availability")` of `acquire` and
\* `try_acquire` holds as long as nobody closed the pool.
PermitGuaranteesAvailability ==
    closer = "open" =>
        \A t \in Tasks : /\ pc[t] = "permitted" => queue # {}
                         /\ pc[t] # "panicked"

\* The same claim without the proviso, as the `expect` message states it.
NeverPanics == \A t \in Tasks : pc[t] # "panicked"

\* Once `close` was called no task obtains a permit: "All following calls to
\* `acquire` or `try_acquire` will return immediately with `Err`"
\* (rusqlite-pool/src/tokio.rs, `close`).
NoPermitAfterClose ==
    [][closed => \A t \in Tasks :
                    pc'[t] = "permitted" => pc[t] = "permitted"]_vars

\* A queued `acquire` returns: "In the case that all connections are busy,
\* waits for the first available connection" (node-db/src/pool.rs, `acquire`).
AcquireReturns == \A t \in Tasks : pc[t] = "waiting" ~> pc[t] # "waiting"
=============================================================================
