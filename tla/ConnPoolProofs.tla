--------------------------- MODULE ConnPoolProofs ---------------------------
(***************************************************************************)
(* Theorems about ConnPool, for any number of connections and tasks.  The  *)
(* result that matters is that the `expect` on `pop` holds until the pool  *)
(* is closed; it rests on the accounting of permits in PermitsBacked, which*)
(* in turn needs the waiter queue to name waiting tasks only.              *)
(***************************************************************************)
EXTENDS ConnPool, FiniteSetTheorems, TLAPS

\* The semaphore's queue is the set of the waiting tasks, each once, and a
\* permit is never left in the counter of an open pool while a task waits.
WaitersConsistent ==
    /\ \A i \in 1..Len(waiters) : pc[waiters[i]] = "waiting"
    /\ \A i, j \in 1..Len(waiters) : waiters[i] = waiters[j] => i = j
    /\ \A t \in Tasks : pc[t] = "waiting" =>
          \E i \in 1..Len(waiters) : waiters[i] = t
    /\ waiters # << >> /\ ~closed => permits = 0

\* Nobody panicked while the pool is open.
NoPanicYet == closer = "open" => \A t \in Tasks : pc[t] # "panicked"

PoolInv ==
    /\ TypeOK
    /\ ConnsConserved
    /\ WaitersConsistent
    /\ PermitsBacked
    /\ NoPanicYet

\* The positions of InFlight.
Flying == {"assigned", "permitted", "returning"}

-----------------------------------------------------------------------------
(* Facts about the sets that are counted.                                  *)

LEMMA Finiteness ==
    ASSUME TypeOK
    PROVE  /\ IsFiniteSet(queue) /\ Cardinality(queue) \in Nat
           /\ IsFiniteSet(InFlight) /\ Cardinality(InFlight) \in Nat
<1>1. queue \in SUBSET Conns /\ InFlight \in SUBSET Tasks
  BY DEF TypeOK, InFlight
<1>2. IsFiniteSet(queue) /\ IsFiniteSet(InFlight)
  BY <1>1, PoolAssumption, FS_Subset DEF PoolAssumption
<1> QED
  BY <1>2, FS_CardinalityType

\* How one task's move changes the number of tasks in flight.
LEMMA FlightCount ==
    ASSUME TypeOK, NEW t \in Tasks, NEW x \in PCs, pc' = [pc EXCEPT ![t] = x]
    PROVE  /\ pc[t] \notin Flying /\ x \in Flying =>
                Cardinality(InFlight') = Cardinality(InFlight) + 1
           /\ pc[t] \in Flying /\ x \notin Flying =>
                Cardinality(InFlight') = Cardinality(InFlight) - 1
           /\ (pc[t] \in Flying <=> x \in Flying) =>
                Cardinality(InFlight') = Cardinality(InFlight)
<1>1. CASE pc[t] \notin Flying /\ x \in Flying
  <2>1. InFlight' = InFlight \cup {t} /\ t \notin InFlight
    BY <1>1 DEF InFlight, Flying, TypeOK
  <2> QED
    BY <1>1, <2>1, Finiteness, FS_AddElement
<1>2. CASE pc[t] \in Flying /\ x \notin Flying
  <2>1. InFlight' = InFlight \ {t} /\ t \in InFlight
    BY <1>2 DEF InFlight, Flying, TypeOK
  <2> QED
    BY <1>2, <2>1, Finiteness, FS_RemoveElement
<1>3. CASE pc[t] \in Flying <=> x \in Flying
  <2>1. InFlight' = InFlight
    BY <1>3 DEF InFlight, Flying, TypeOK
  <2> QED
    BY <1>3, <2>1
<1> QED
  BY <1>1, <1>2, <1>3

\* A permit handed from one task to another keeps the number in flight.
LEMMA FlightHandover ==
    ASSUME TypeOK, NEW t \in Tasks, NEW u \in Tasks, t # u, NEW x \in PCs,
           pc[t] \in Flying, pc[u] \notin Flying, x \notin Flying,
           pc' = [pc EXCEPT ![t] = x, ![u] = "assigned"]
    PROVE  Cardinality(InFlight') = Cardinality(InFlight)
<1>1. InFlight' = (InFlight \ {t}) \cup {u} /\ t \in InFlight /\ u \notin InFlight
  BY DEF InFlight, Flying, TypeOK
<1>2. /\ IsFiniteSet(InFlight \ {t})
      /\ Cardinality(InFlight \ {t}) = Cardinality(InFlight) - 1
  BY <1>1, Finiteness, FS_RemoveElement
<1>3. u \notin InFlight \ {t}
  BY <1>1
<1>4. Cardinality((InFlight \ {t}) \cup {u}) = Cardinality(InFlight \ {t}) + 1
  BY <1>2, <1>3, FS_AddElement
<1> QED
  BY <1>1, <1>2, <1>4, Finiteness

-----------------------------------------------------------------------------
(* Giving up a permit.                                                     *)

\* Releasing a permit, to the oldest waiter or to the counter, keeps the sum
\* of available and flying permits and the order of the semaphore's queue.
LEMMA ReleaseKeepsAccount ==
    ASSUME TypeOK, WaitersConsistent, NEW t \in Tasks, NEW x \in PCs,
           pc[t] \in Flying, x \notin Flying, x # "waiting",
           ReleasePermit(t, x), UNCHANGED closer
    PROVE  /\ pc' \in [Tasks -> PCs] /\ permits' \in Nat /\ waiters' \in Seq(Tasks)
           /\ WaitersConsistent'
           /\ permits' + Cardinality(InFlight') = permits + Cardinality(InFlight)
           /\ \A u \in Tasks : pc'[u] = "panicked" =>
                 pc[u] = "panicked" \/ (u = t /\ x = "panicked")
<1>1. CASE waiters # << >> /\ ~closed
  <2> DEFINE w == Head(waiters)
  <2>1. waiters \in Seq(Tasks) /\ Len(waiters) \in Nat /\ Len(waiters) > 0
    BY <1>1 DEF TypeOK
  <2>2. w \in Tasks /\ w = waiters[1] /\ pc[w] = "waiting" /\ w # t
    BY <2>1 DEF WaitersConsistent, Flying
  <2>3. /\ pc' = [pc EXCEPT ![t] = x, ![w] = "assigned"]
        /\ waiters' = Tail(waiters) /\ permits' = permits
    BY <1>1 DEF ReleasePermit
  <2>4. Cardinality(InFlight') = Cardinality(InFlight)
    BY <2>2, <2>3, FlightHandover DEF Flying
  <2>5. pc' \in [Tasks -> PCs] /\ waiters' \in Seq(Tasks) /\ permits' \in Nat
    BY <2>1, <2>2, <2>3 DEF TypeOK, PCs
  <2>6. /\ Len(waiters') = Len(waiters) - 1
        /\ \A i \in 1..Len(waiters') : i + 1 \in 1..Len(waiters) /\ waiters'[i] = waiters[i + 1]
    BY <2>1, <2>3
  <2>7. \A i \in 1..Len(waiters') : waiters'[i] \in Tasks /\ waiters'[i] # w /\ waiters'[i] # t
    BY <2>1, <2>2, <2>6 DEF WaitersConsistent, Flying
  <2>8. /\ \A i \in 1..Len(waiters') : pc'[waiters'[i]] = "waiting"
        /\ \A i, j \in 1..Len(waiters') : waiters'[i] = waiters'[j] => i = j
    BY <2>1, <2>2, <2>3, <2>6, <2>7 DEF WaitersConsistent, TypeOK
  <2>9. ASSUME NEW u \in Tasks, pc'[u] = "waiting"
        PROVE  \E i \in 1..Len(waiters') : waiters'[i] = u
    <3>1. u # t /\ u # w /\ pc[u] = "waiting"
      BY <2>2, <2>3, <2>9 DEF TypeOK
    <3>2. PICK k \in 1..Len(waiters) : waiters[k] = u
      BY <3>1 DEF WaitersConsistent
    <3>3. k # 1 /\ k - 1 \in 1..Len(waiters')
      BY <2>1, <2>2, <2>6, <3>1, <3>2
    <3>4. waiters'[k - 1] = u
      BY <2>6, <3>2, <3>3
    <3> QED
      BY <3>3, <3>4
  <2>10. permits' = 0
    BY <1>1, <2>3 DEF WaitersConsistent
  <2>11. WaitersConsistent'
    BY <2>8, <2>9, <2>10 DEF WaitersConsistent
  <2>12. \A u \in Tasks : pc'[u] = "panicked" => pc[u] = "panicked" \/ (u = t /\ x = "panicked")
    BY <2>2, <2>3 DEF TypeOK
  <2> QED
    BY <2>3, <2>4, <2>5, <2>11, <2>12
<1>2. CASE waiters = << >> \/ closed
  <2>1. /\ pc' = [pc EXCEPT ![t] = x] /\ permits' = permits + 1 /\ waiters' = waiters
    BY <1>2 DEF ReleasePermit
  <2>2. pc' \in [Tasks -> PCs] /\ waiters' \in Seq(Tasks) /\ permits' \in Nat
    BY <2>1 DEF TypeOK
  <2>3. Cardinality(InFlight') = Cardinality(InFlight) - 1
    BY <2>1, FlightCount
  <2>4. WaitersConsistent'
    BY <1>2, <2>1 DEF WaitersConsistent, TypeOK, Flying, closed
  <2>5. \A u \in Tasks : pc'[u] = "panicked" => pc[u] = "panicked" \/ (u = t /\ x = "panicked")
    BY <2>1 DEF TypeOK
  <2> QED
    BY <2>1, <2>2, <2>3, <2>4, <2>5, Finiteness DEF TypeOK
<1> QED
  BY <1>1, <1>2

-----------------------------------------------------------------------------
(* Every step preserves the invariant.                                     *)

\* Connections stay where they are when no step moves one.
LEMMA ConnsFrame ==
    ASSUME ConnsConserved, UNCHANGED <<queue, held, gone>>
    PROVE  ConnsConserved'
  BY DEF ConnsConserved

\* A step that only gives a permit up keeps the invariant.
LEMMA ReleaseKeepsInv ==
    ASSUME PoolInv, NEW t \in Tasks, NEW x \in PCs,
           pc[t] \in Flying, x \notin Flying, x # "waiting",
           x = "panicked" => closer # "open",
           ReleasePermit(t, x), UNCHANGED <<queue, held, closer, gone>>
    PROVE  PoolInv'
<1>1. /\ pc' \in [Tasks -> PCs] /\ permits' \in Nat /\ waiters' \in Seq(Tasks)
      /\ WaitersConsistent'
      /\ permits' + Cardinality(InFlight') = permits + Cardinality(InFlight)
      /\ \A u \in Tasks : pc'[u] = "panicked" =>
            pc[u] = "panicked" \/ (u = t /\ x = "panicked")
  BY ReleaseKeepsAccount DEF PoolInv
<1>2. TypeOK'
  BY <1>1 DEF PoolInv, TypeOK
<1>3. PermitsBacked' /\ NoPanicYet'
  BY <1>1 DEF PoolInv, PermitsBacked, NoPanicYet
<1> QED
  BY <1>1, <1>2, <1>3, ConnsFrame DEF PoolInv

LEMMA AcquireKeepsInv ==
    ASSUME PoolInv, NEW t \in Tasks, Acquire(t) \/ TryAcquire(t)
    PROVE  PoolInv'
<1>1. TypeOK /\ WaitersConsistent /\ PermitsBacked /\ NoPanicYet
  BY DEF PoolInv
<1>2. /\ UNCHANGED <<queue, held, closer, gone>>
      /\ pc[t] \in {"using", "refused"}
  BY DEF Acquire, TryAcquire
<1>3. CASE closed /\ pc' = [pc EXCEPT ![t] = "refused"] /\ UNCHANGED <<permits, waiters>>
  <2>1. TypeOK' /\ NoPanicYet'
    BY <1>1, <1>2, <1>3 DEF TypeOK, PCs, NoPanicYet
  <2>2. WaitersConsistent' /\ PermitsBacked'
    BY <1>1, <1>2, <1>3 DEF TypeOK, WaitersConsistent, PermitsBacked, closed
  <2> QED
    BY <1>2, <2>1, <2>2, ConnsFrame DEF PoolInv
<1>4. CASE /\ ~closed /\ permits > 0 /\ permits' = permits - 1
           /\ pc' = [pc EXCEPT ![t] = "permitted"] /\ UNCHANGED waiters
  <2>1. TypeOK' /\ NoPanicYet'
    BY <1>1, <1>2, <1>4 DEF TypeOK, PCs, NoPanicYet
  <2>2. waiters = << >>
    BY <1>1, <1>4 DEF WaitersConsistent, TypeOK
  <2>3. WaitersConsistent'
    BY <1>1, <1>2, <1>4, <2>2 DEF TypeOK, WaitersConsistent, closed
  <2>4. Cardinality(InFlight') = Cardinality(InFlight) + 1
    BY <1>1, <1>2, <1>4, FlightCount DEF Flying, PCs
  <2>5. PermitsBacked'
    BY <1>1, <1>2, <1>4, <2>4, Finiteness DEF PermitsBacked, TypeOK
  <2> QED
    BY <1>2, <2>1, <2>3, <2>5, ConnsFrame DEF PoolInv
<1>5. CASE /\ ~closed /\ permits = 0 /\ waiters' = Append(waiters, t)
           /\ pc' = [pc EXCEPT ![t] = "waiting"] /\ UNCHANGED permits
  <2>1. TypeOK' /\ NoPanicYet'
    BY <1>1, <1>2, <1>5 DEF TypeOK, PCs, NoPanicYet
  <2>2. /\ waiters \in Seq(Tasks) /\ Len(waiters) \in Nat
        /\ Len(waiters') = Len(waiters) + 1 /\ waiters'[Len(waiters) + 1] = t
        /\ \A i \in 1..Len(waiters) : waiters'[i] = waiters[i] /\ waiters[i] \in Tasks
    BY <1>1, <1>5 DEF TypeOK
  <2>3. \A i \in 1..Len(waiters) : waiters[i] # t
    BY <1>1, <1>2 DEF WaitersConsistent
  <2>4. \A i \in 1..Len(waiters') : i \in 1..Len(waiters) \/ i = Len(waiters) + 1
    BY <2>2
  <2>5. /\ \A i \in 1..Len(waiters') : pc'[waiters'[i]] = "waiting"
        /\ \A i, j \in 1..Len(waiters') : waiters'[i] = waiters'[j] => i = j
    BY <1>1, <1>5, <2>2, <2>3, <2>4 DEF WaitersConsistent, TypeOK
  <2>6. ASSUME NEW u \in Tasks, pc'[u] = "waiting"
        PROVE  \E i \in 1..Len(waiters') : waiters'[i] = u
    <3>1. CASE u = t
      BY <2>2, <3>1
    <3>2. CASE u # t
      <4>1. PICK i \in 1..Len(waiters) : waiters[i] = u
        BY <1>1, <1>5, <2>6, <3>2 DEF WaitersConsistent, TypeOK
      <4> QED
        BY <2>2, <4>1
    <3> QED
      BY <3>1, <3>2
  <2>7. WaitersConsistent'
    BY <1>5, <2>5, <2>6 DEF WaitersConsistent
  <2>8. Cardinality(InFlight') = Cardinality(InFlight)
    BY <1>1, <1>2, <1>5, FlightCount DEF Flying, PCs
  <2>9. PermitsBacked'
    BY <1>1, <1>2, <1>5, <2>8 DEF PermitsBacked
  <2> QED
    BY <1>2, <2>1, <2>7, <2>9, ConnsFrame DEF PoolInv
<1> QED
  BY <1>3, <1>4, <1>5 DEF Acquire, TryAcquire

\* Leaving the semaphore's queue without a permit.
LEMMA LeaveKeepsInv ==
    ASSUME PoolInv, NEW t \in Tasks, NEW x \in {"refused", "using", "releasing"},
           pc[t] = "waiting", pc' = [pc EXCEPT ![t] = x],
           NEW k \in 1..Len(waiters), waiters[k] = t,
           waiters' = Without(waiters, k),
           UNCHANGED <<queue, permits, held, closer, gone>>
    PROVE  PoolInv'
<1>1. TypeOK /\ WaitersConsistent /\ PermitsBacked /\ NoPanicYet
  BY DEF PoolInv
<1>2. waiters \in Seq(Tasks) /\ Len(waiters) \in Nat
  BY <1>1 DEF TypeOK
<1>3. /\ waiters' \in Seq(Tasks) /\ Len(waiters') = Len(waiters) - 1
      /\ \A i \in 1..Len(waiters') :
            waiters'[i] = IF i < k THEN waiters[i] ELSE waiters[i + 1]
  BY <1>2 DEF Without
<1>4. TypeOK' /\ NoPanicYet'
  BY <1>1, <1>3 DEF TypeOK, PCs, NoPanicYet
<1>5. \A i \in 1..Len(waiters) : i # k => waiters[i] # t
  BY <1>1 DEF WaitersConsistent
<1> DEFINE from(i) == IF i < k THEN i ELSE i + 1
<1>6. ASSUME NEW i \in 1..Len(waiters')
      PROVE  from(i) \in 1..Len(waiters) /\ from(i) # k /\ waiters'[i] = waiters[from(i)]
  <2>1. i \in Int /\ 1 <= i /\ i <= Len(waiters) - 1
    BY <1>2, <1>3
  <2>2. from(i) \in 1..Len(waiters) /\ from(i) # k
    BY <1>2, <2>1
  <2> QED
    BY <1>3, <2>2
<1>7. \A i \in 1..Len(waiters') : pc'[waiters'[i]] = "waiting"
  <2> TAKE i \in 1..Len(waiters')
  <2>1. PICK m \in 1..Len(waiters) : m # k /\ waiters'[i] = waiters[m]
    BY <1>6
  <2> QED
    BY <1>1, <1>2, <1>5, <2>1 DEF WaitersConsistent, TypeOK
<1>8. \A i, j \in 1..Len(waiters') : waiters'[i] = waiters'[j] => i = j
  <2> SUFFICES ASSUME NEW i \in 1..Len(waiters'), NEW j \in 1..Len(waiters'),
                      waiters'[i] = waiters'[j]
               PROVE  i = j
    OBVIOUS
  <2>1. waiters[from(i)] = waiters[from(j)]
    BY <1>6
  <2>2. from(i) \in 1..Len(waiters) /\ from(j) \in 1..Len(waiters)
    BY <1>6
  <2>3. from(i) = from(j)
    <3> HIDE DEF from
    <3> QED
      BY <1>1, <2>1, <2>2 DEF WaitersConsistent
  <2> QED
    BY <1>2, <1>3, <2>3
<1>9. ASSUME NEW u \in Tasks, pc'[u] = "waiting"
      PROVE  \E i \in 1..Len(waiters') : waiters'[i] = u
  <2>1. u # t /\ pc[u] = "waiting"
    BY <1>1, <1>9 DEF TypeOK
  <2>2. PICK m \in 1..Len(waiters) : waiters[m] = u
    BY <1>1, <2>1 DEF WaitersConsistent
  <2>3. m # k
    BY <2>1, <2>2
  <2>4. CASE m < k
    BY <1>2, <1>3, <2>2, <2>4
  <2>5. CASE m > k
    <3>1. m - 1 \in 1..Len(waiters') /\ ~(m - 1 < k) /\ (m - 1) + 1 = m
      BY <1>2, <1>3, <2>5
    <3> QED
      BY <1>3, <2>2, <3>1
  <2> QED
    BY <1>2, <2>3, <2>4, <2>5
<1>10. WaitersConsistent'
  <2>1. waiters' # << >> => waiters # << >>
    BY <1>2
  <2>2. (waiters # << >> /\ ~closed => permits = 0)'
    BY <1>1, <2>1 DEF WaitersConsistent, closed
  <2> QED
    BY <1>7, <1>8, <1>9, <2>2 DEF WaitersConsistent
<1>11. Cardinality(InFlight') = Cardinality(InFlight)
  BY <1>1, FlightCount DEF Flying, PCs
<1>12. PermitsBacked'
  BY <1>1, <1>11 DEF PermitsBacked
<1> QED
  BY <1>4, <1>10, <1>12, ConnsFrame DEF PoolInv

\* While the pool is open, a task in flight finds an idle connection.
LEMMA FlightIsBacked ==
    ASSUME PoolInv, closer = "open", NEW t \in Tasks, pc[t] \in Flying
    PROVE  queue # {}
<1>1. TypeOK /\ Cardinality(queue) = permits + Cardinality(InFlight)
  BY DEF PoolInv, PermitsBacked
<1>2. Cardinality(InFlight) # 0
  <2>1. t \in InFlight
    BY DEF InFlight, Flying
  <2> QED
    BY <1>1, <2>1, Finiteness, FS_EmptySet
<1>3. Cardinality(queue) # 0
  BY <1>1, <1>2, Finiteness DEF TypeOK
<1> QED
  BY <1>3, FS_EmptySet

LEMMA PollKeepsInv ==
    ASSUME PoolInv, NEW t \in Tasks, PollAssigned(t) \/ PollClosed(t) \/ Cancel(t)
    PROVE  PoolInv'
<1>1. UNCHANGED <<queue, held, closer, gone>>
  BY DEF PollAssigned, PollClosed, Cancel
<1>2. Resume(t) \in {"using", "releasing"}
  BY DEF Resume
<1>3. CASE PollAssigned(t) /\ ~closed
  <2>1. /\ pc[t] = "assigned" /\ pc' = [pc EXCEPT ![t] = "permitted"]
        /\ UNCHANGED <<permits, waiters>>
    BY <1>3 DEF PollAssigned
  <2>2. TypeOK' /\ NoPanicYet'
    BY <1>1, <2>1 DEF PoolInv, TypeOK, PCs, NoPanicYet
  <2>3. WaitersConsistent'
    BY <1>1, <2>1 DEF PoolInv, TypeOK, WaitersConsistent, closed
  <2>4. Cardinality(InFlight') = Cardinality(InFlight)
    BY <2>1, FlightCount DEF PoolInv, Flying, PCs
  <2>5. PermitsBacked'
    BY <1>1, <2>1, <2>4 DEF PoolInv, PermitsBacked
  <2> QED
    BY <1>1, <2>2, <2>3, <2>5, ConnsFrame DEF PoolInv
<1>4. CASE PollAssigned(t) /\ closed
  BY <1>1, <1>4, ReleaseKeepsInv DEF PollAssigned, Flying, PCs
<1>5. CASE PollClosed(t)
  BY <1>5, LeaveKeepsInv DEF PollClosed
<1>6. CASE Cancel(t) /\ pc[t] = "waiting"
  BY <1>2, <1>6, LeaveKeepsInv DEF Cancel
<1>7. CASE Cancel(t) /\ pc[t] = "assigned"
  BY <1>1, <1>2, <1>7, ReleaseKeepsInv DEF Cancel, Flying, PCs
<1> QED
  BY <1>3, <1>4, <1>5, <1>6, <1>7 DEF Cancel

\* Moving a connection between the queue and a handle.
LEMMA MoveKeepsInv ==
    ASSUME PoolInv, NEW t \in Tasks, Pop(t) \/ DropConn(t)
    PROVE  PoolInv'
<1>1. TypeOK /\ ConnsConserved /\ WaitersConsistent /\ PermitsBacked /\ NoPanicYet
  BY DEF PoolInv
<1>2. UNCHANGED <<permits, waiters, closer, gone>>
  BY DEF Pop, DropConn
<1>3. PICK x \in {"using", "returning"} :
          /\ pc' = [pc EXCEPT ![t] = x]
          /\ pc[t] # "waiting"
  BY DEF Pop, DropConn
<1>4. WaitersConsistent' /\ NoPanicYet'
  BY <1>1, <1>2, <1>3 DEF WaitersConsistent, NoPanicYet, TypeOK, closed
<1>5. CASE Pop(t)
  <2>1. PICK c \in queue : queue' = queue \ {c} /\ held' = [held EXCEPT ![t] = @ \cup {c}]
    BY <1>5 DEF Pop
  <2>2. pc[t] = "permitted" /\ pc' = [pc EXCEPT ![t] = "using"]
    BY <1>5 DEF Pop
  <2>3. TypeOK'
    BY <1>1, <1>2, <2>1, <2>2 DEF TypeOK, PCs
  <2>4. \A u \in Tasks : held'[u] = IF u = t THEN held[t] \cup {c} ELSE held[u]
    BY <1>1, <2>1 DEF TypeOK
  <2>5. ConnsConserved'
    BY <1>1, <1>2, <2>1, <2>4 DEF ConnsConserved
  <2>6. Cardinality(queue') = Cardinality(queue) - 1
    BY <1>1, <2>1, Finiteness, FS_RemoveElement
  <2>7. Cardinality(InFlight') = Cardinality(InFlight) - 1
    BY <1>1, <2>2, FlightCount DEF Flying, PCs
  <2>8. PermitsBacked'
    BY <1>1, <1>2, <2>6, <2>7, Finiteness DEF PermitsBacked, TypeOK
  <2> QED
    BY <1>4, <2>3, <2>5, <2>8 DEF PoolInv
<1>6. CASE DropConn(t)
  <2>1. PICK c \in held[t] : queue' = queue \cup {c} /\ held' = [held EXCEPT ![t] = @ \ {c}]
    BY <1>6 DEF DropConn
  <2>2. pc[t] \notin Flying /\ pc' = [pc EXCEPT ![t] = "returning"]
    BY <1>6 DEF DropConn, Flying
  <2>3. TypeOK'
    BY <1>1, <1>2, <2>1, <2>2 DEF TypeOK, PCs
  <2>4. \A u \in Tasks : held'[u] = IF u = t THEN held[t] \ {c} ELSE held[u]
    BY <1>1, <2>1 DEF TypeOK
  <2>5. c \notin queue /\ c \notin gone /\ \A u \in Tasks : u # t => c \notin held[u]
    BY <1>1, <2>1 DEF ConnsConserved
  <2>6. ConnsConserved'
    BY <1>1, <1>2, <2>1, <2>4, <2>5 DEF ConnsConserved
  <2>7. Cardinality(queue') = Cardinality(queue) + 1
    BY <1>1, <2>1, <2>5, Finiteness, FS_AddElement
  <2>8. Cardinality(InFlight') = Cardinality(InFlight) + 1
    BY <1>1, <2>2, FlightCount DEF Flying, PCs
  <2>9. PermitsBacked'
    BY <1>1, <1>2, <2>7, <2>8, Finiteness DEF PermitsBacked, TypeOK
  <2> QED
    BY <1>4, <2>3, <2>6, <2>9 DEF PoolInv
<1> QED
  BY <1>5, <1>6

LEMMA DropKeepsInv ==
    ASSUME PoolInv, NEW t \in Tasks, PopPanics(t) \/ DropPermit(t)
    PROVE  PoolInv'
<1>1. CASE PopPanics(t)
  <2>1. closer # "open"
    BY <1>1, FlightIsBacked DEF PopPanics, Flying
  <2> QED
    BY <1>1, <2>1, ReleaseKeepsInv DEF PopPanics, Flying, PCs
<1>2. CASE DropPermit(t)
  <2>1. Resume(t) \in {"using", "releasing"}
    BY DEF Resume
  <2> QED
    BY <1>2, <2>1, ReleaseKeepsInv DEF DropPermit, Flying, PCs
<1> QED
  BY <1>1, <1>2

LEMMA CloseKeepsInv ==
    ASSUME PoolInv, CloseSemaphore \/ CloseConn
    PROVE  PoolInv'
<1>1. /\ UNCHANGED <<permits, waiters, pc, held>> /\ closer' # "open"
      /\ closer' \in {"draining", "closed"}
  BY DEF CloseSemaphore, CloseConn
<1>2. TypeOK'
  BY <1>1 DEF PoolInv, TypeOK, CloseSemaphore, CloseConn
<1>3. WaitersConsistent' /\ PermitsBacked' /\ NoPanicYet'
  BY <1>1 DEF PoolInv, WaitersConsistent, PermitsBacked, NoPanicYet, closed
<1>4. ConnsConserved'
  <2>1. CASE UNCHANGED <<queue, gone>>
    BY <1>1, <2>1, ConnsFrame DEF PoolInv
  <2>2. ASSUME NEW c \in queue, queue' = queue \ {c}, gone' = gone \cup {c}
        PROVE  ConnsConserved'
    BY <1>1, <2>2 DEF PoolInv, ConnsConserved
  <2> QED
    BY <2>1, <2>2 DEF CloseSemaphore, CloseConn
<1> QED
  BY <1>2, <1>3, <1>4 DEF PoolInv

LEMMA InitHasInv == Init => PoolInv
<1> SUFFICES ASSUME Init PROVE PoolInv
  OBVIOUS
<1>1. IsFiniteSet(Conns) /\ Cardinality(Conns) \in Nat
  BY PoolAssumption, FS_CardinalityType DEF PoolAssumption
<1>2. TypeOK
  BY <1>1 DEF Init, TypeOK, PCs
<1>3. ConnsConserved /\ WaitersConsistent /\ NoPanicYet
  BY DEF Init, ConnsConserved, WaitersConsistent, NoPanicYet
<1>4. InFlight = {}
  BY DEF Init, InFlight
<1>5. PermitsBacked
  BY <1>1, <1>4, FS_EmptySet DEF Init, PermitsBacked
<1> QED
  BY <1>2, <1>3, <1>5 DEF PoolInv

LEMMA NextKeepsInv == PoolInv /\ [Next]_vars => PoolInv'
<1> SUFFICES ASSUME PoolInv, [Next]_vars PROVE PoolInv'
  OBVIOUS
<1>1. ASSUME NEW t \in Tasks,
             \/ Acquire(t) \/ TryAcquire(t) \/ PollAssigned(t) \/ PollClosed(t)
             \/ Cancel(t) \/ Pop(t) \/ PopPanics(t) \/ DropConn(t) \/ DropPermit(t)
      PROVE  PoolInv'
  BY <1>1, AcquireKeepsInv, PollKeepsInv, MoveKeepsInv, DropKeepsInv
<1>2. CASE CloseSemaphore \/ CloseConn
  BY <1>2, CloseKeepsInv
<1>3. CASE UNCHANGED vars
  BY <1>3 DEF vars, PoolInv, TypeOK, ConnsConserved, WaitersConsistent,
              PermitsBacked, NoPanicYet, InFlight, closed
<1> QED
  BY <1>1, <1>2, <1>3 DEF Next

-----------------------------------------------------------------------------
(* The theorems.                                                           *)

\* The accounting of the pool holds in every reachable state.
THEOREM Invariance == Spec => []PoolInv
  BY InitHasInv, NextKeepsInv, PTL DEF Spec

\* The counters and queues of the pool stay well-typed: the semaphore never
\* goes below zero and the idle queue never exceeds its fixed size.
THEOREM TypeCorrect == Spec => []TypeOK
<1>1. PoolInv => TypeOK
  BY DEF PoolInv
<1> QED
  BY <1>1, Invariance, PTL

\* No connection is lent to two tasks and none is lost, on any path.
THEOREM ConnectionsAreConserved == Spec => []ConnsConserved
<1>1. PoolInv => ConnsConserved
  BY DEF PoolInv
<1> QED
  BY <1>1, Invariance, PTL

\* The semaphore's queue is exact, and no permit idles while a task waits.
THEOREM WaitersAreServed == Spec => []WaitersConsistent
<1>1. PoolInv => WaitersConsistent
  BY DEF PoolInv
<1> QED
  BY <1>1, Invariance, PTL

\* The `expect("permit guarantees availability")` of acquire and try_acquire
\* cannot fail before the pool is closed, for any capacity and any number of
\* tasks.
THEOREM ExpectHolds == Spec => []PermitGuaranteesAvailability
<1>1. PoolInv => PermitGuaranteesAvailability
  BY FlightIsBacked DEF PermitGuaranteesAvailability, Flying, PoolInv, NoPanicYet
<1> QED
  BY <1>1, Invariance, PTL

\* The accounting itself: as many idle connections as permits, available or
\* in flight, while the pool is open.
THEOREM PermitsAccounted == Spec => []PermitsBacked
<1>1. PoolInv => PermitsBacked
  BY DEF PoolInv
<1> QED
  BY <1>1, Invariance, PTL

\* After `close` no acquire, queued, assigned or new, obtains a permit.
THEOREM ClosedPoolGrantsNothing == Spec => NoPermitAfterClose
<1> DEFINE Grants == \E t \in Tasks : pc'[t] = "permitted" /\ pc[t] # "permitted"
<1>1. PoolInv /\ [Next]_vars => (closed => ~Grants)
  <2> SUFFICES ASSUME PoolInv, [Next]_vars, closed, NEW u \in Tasks,
                      pc'[u] = "permitted", pc[u] # "permitted"
               PROVE  FALSE
    OBVIOUS
  <2>1. pc \in [Tasks -> PCs]
    BY DEF PoolInv, TypeOK
  <2>2. ASSUME NEW t \in Tasks, NEW x \in PCs \ {"permitted"}, ReleasePermit(t, x)
        PROVE  FALSE
    BY <2>1, <2>2 DEF ReleasePermit
  <2>3. \A t \in Tasks : Resume(t) \in PCs \ {"permitted"}
    BY DEF Resume, PCs
  <2>4. ASSUME NEW t \in Tasks,
               Acquire(t) \/ TryAcquire(t) \/ PollClosed(t) \/ Pop(t) \/ DropConn(t)
        PROVE  FALSE
    BY <2>1, <2>4 DEF Acquire, TryAcquire, PollClosed, Pop, DropConn
  <2>5. ASSUME NEW t \in Tasks,
               PollAssigned(t) \/ Cancel(t) \/ PopPanics(t) \/ DropPermit(t)
        PROVE  FALSE
    BY <2>1, <2>2, <2>3, <2>5 DEF PollAssigned, Cancel, PopPanics, DropPermit, PCs
  <2>6. ~(CloseSemaphore \/ CloseConn \/ UNCHANGED vars)
    BY DEF CloseSemaphore, CloseConn, vars
  <2> QED
    BY <2>4, <2>5, <2>6 DEF Next
<1>2. PoolInv /\ [Next]_vars =>
        [closed => \A t \in Tasks : pc'[t] = "permitted" => pc[t] = "permitted"]_vars
  BY <1>1
<1> QED
  BY <1>2, Invariance, PTL DEF Spec, NoPermitAfterClose
=============================================================================
