-------------------------- MODULE TimeSourceProofs --------------------------
(***************************************************************************)
(* Proofs about TimeSource, for any number of queues and items, any clock   *)
(* and any look-ahead, and executors of every kind.                         *)
(*                                                                         *)
(* That a queue is dispatched once at a time, that the list of the worker   *)
(* agrees with the flags of the queues and that no queue with items is      *)
(* forgotten hold one another up.  What join() finds at the end needs to    *)
(* know what items_ counts and when error_ can be set.                      *)
(***************************************************************************)
EXTENDS TimeSource, FiniteSetTheorems, WellFoundedInduction, TLAPS

-----------------------------------------------------------------------------
(* The inductive invariant *)

\* The items that items_ counts: an item is counted off when value() has completed it, but
\* before it is sent an error.
CountedStatus == {"queued", "popped", "value"}
Counted(st) == {i \in Item : st[i] \in CountedStatus}
Counts == items = Cardinality(Counted(status))

\* The items that a receiver of their queue has taken.
Taken == {"popped", "value", "failing_value", "failing_error"}

\* The worker is about to dispatch q.
Chosen(q) == worker = "dispatch" /\ q \in ready

\* A dispatched queue is in one of four hands: the worker's, the executor's before the
\* receiver runs, those of the receiver with an item, or the executor's after it ran.
OneHand ==
  /\ \A q \in Queue :
       queued[q] + returned[q] > 0 =>
         queued[q] + returned[q] = 1 /\ q \in dispatching /\ ~Chosen(q)
  /\ \A q \in Queue : Chosen(q) => q \in dispatching
  /\ \A i \in Item :
       status[i] \in Taken =>
         /\ home[i] \in dispatching /\ ~Chosen(home[i])
         /\ queued[home[i]] = 0 /\ returned[home[i]] = 0
  /\ \A i, j \in Item :
       status[i] \in Taken /\ status[j] \in Taken /\ home[i] = home[j] => i = j

\* dispatching_ is set only for such a queue, until dispatch() has thrown.
NoIdleDispatch ==
  ~error =>
    \A q \in dispatching :
      \/ queued[q] + returned[q] = 1
      \/ Chosen(q)
      \/ \E i \in Item : home[i] = q /\ status[i] \in Taken

\* What the end of the worker has seen, and who may be sending errors.
Endings ==
  /\ error => worker \in {"handler", "exited"} /\ ~joined
  /\ worker = "handler" => error
  /\ joined => worker = "exited" /\ done /\ items = 0
  /\ \A i \in Item :
       /\ status[i] \in {"failing_value", "failing_worker"} => error
       /\ status[i] = "failing_error" => ex[home[i]] = "failing"

\* WakesInTime, item by item.
InTime ==
  ~dirty => \A i \in Item : status[i] = "queued" /\ home[i] \in inPending => earliest <= when[i]

TimeInv ==
  /\ TypeOK /\ Counts /\ OneHand /\ NoIdleDispatch /\ PendingConsistent /\ Endings
  /\ NoTerminate /\ InTime

-----------------------------------------------------------------------------
(* Times, lists and counts *)

\* A set of times that is not empty has a least element.
LEMMA MinOf ==
  ASSUME NEW S, S \subseteq Nat, S # {}
  PROVE  Min(S) \in S /\ \A x \in S : Min(S) <= x
<1>1. PICK m \in S : \A y \in S : ~(<<y, m>> \in OpToRel(<, Nat))
  BY NatLessThanWellFounded, WFMin, Zenon
<1>2. \A y \in S : m <= y
  <2> SUFFICES ASSUME NEW y \in S, y < m PROVE FALSE
    OBVIOUS
  <2>1. <<y, m>> \in OpToRel(<, Nat)
    BY DEF OpToRel
  <2> QED
    BY <1>1, <2>1
<1> QED
  BY <1>2 DEF Min

\* What is left of the list after std::partition() and erase().
LEMMA Partitioned ==
  ASSUME NEW s \in Seq(Queue), NEW S, IsInjective(s), NEW p \in Partition(s, S)
  PROVE  p \in Seq(Queue) /\ IsInjective(p) /\ ToSet(p) = ToSet(s) \cap S
<1> DEFINE at == {k \in DOMAIN s : s[k] \in S}
           n == Cardinality(at)
<1>1. n \in Nat
  <2>1. IsFiniteSet(1..Len(s))
    BY FS_Interval
  <2>2. IsFiniteSet(at)
    BY <2>1, FS_Subset
  <2> QED
    BY <2>2, FS_CardinalityType
<1>2. PICK f \in Bijection(1..n, at) : p = [k \in 1..n |-> s[f[k]]]
  BY DEF Partition
<1>3. /\ f \in [1..n -> at]
      /\ \A a, b \in 1..n : f[a] = f[b] => a = b
      /\ \A k \in at : \E a \in 1..n : f[a] = k
  BY <1>2 DEF Bijection, Injection, Surjection, IsInjective
<1> HIDE DEF n
<1>4. \A k \in 1..n : f[k] \in DOMAIN s /\ p[k] = s[f[k]] /\ p[k] \in S /\ p[k] \in Queue
  BY <1>2, <1>3
<1>5. DOMAIN p = 1..n /\ p \in Seq(Queue)
  BY <1>1, <1>2, <1>4
<1>6. IsInjective(p)
  BY <1>3, <1>4, <1>5 DEF IsInjective
<1>7. ToSet(p) = ToSet(s) \cap S
  BY <1>3, <1>4, <1>5 DEF ToSet
<1> QED
  BY <1>5, <1>6, <1>7

LEMMA AppendedTo ==
  ASSUME NEW s \in Seq(Queue), NEW q \in Queue, IsInjective(s), q \notin ToSet(s)
  PROVE  /\ Append(s, q) \in Seq(Queue) /\ IsInjective(Append(s, q))
         /\ ToSet(Append(s, q)) = ToSet(s) \cup {q}
<1>1. /\ Append(s, q) \in Seq(Queue) /\ DOMAIN Append(s, q) = 1..(Len(s) + 1)
      /\ DOMAIN s = 1..Len(s) /\ Len(s) \in Nat
      /\ Append(s, q)[Len(s) + 1] = q
      /\ \A k \in 1..Len(s) : Append(s, q)[k] = s[k]
  OBVIOUS
<1>2. \A k \in 1..Len(s) : s[k] # q
  BY <1>1 DEF ToSet
<1>3. \A k \in 1..(Len(s) + 1) : k \in 1..Len(s) \/ k = Len(s) + 1
  BY <1>1
<1>4. IsInjective(Append(s, q))
  BY <1>1, <1>2, <1>3 DEF IsInjective
<1>5. ToSet(Append(s, q)) = ToSet(s) \cup {q}
  <2>1. ASSUME NEW x \in ToSet(Append(s, q)) PROVE x \in ToSet(s) \cup {q}
    <3>1. PICK k \in 1..(Len(s) + 1) : x = Append(s, q)[k]
      BY <1>1 DEF ToSet
    <3> QED
      BY <1>1, <1>3, <3>1 DEF ToSet
  <2>2. ASSUME NEW x \in ToSet(s) PROVE x \in ToSet(Append(s, q))
    <3>1. PICK k \in 1..Len(s) : x = s[k]
      BY <1>1 DEF ToSet
    <3>2. k \in 1..(Len(s) + 1)
      BY <1>1
    <3> QED
      BY <1>1, <3>1, <3>2 DEF ToSet
  <2>3. q \in ToSet(Append(s, q))
    <3>1. Len(s) + 1 \in 1..(Len(s) + 1)
      BY <1>1
    <3> QED
      BY <1>1, <3>1 DEF ToSet
  <2> QED
    BY <2>1, <2>2, <2>3
<1> QED
  BY <1>1, <1>4, <1>5

\* How items_ follows the status of the items.
LEMMA CountedFinite ==
  ASSUME NEW st
  PROVE  IsFiniteSet(Counted(st)) /\ Cardinality(Counted(st)) \in Nat
<1>1. IsFiniteSet(Counted(st))
  BY TimeAssumption, FS_Subset DEF Counted
<1> QED
  BY <1>1, FS_CardinalityType

LEMMA CountSame ==
  ASSUME NEW st, NEW su, \A i \in Item : st[i] \in CountedStatus <=> su[i] \in CountedStatus
  PROVE  Cardinality(Counted(su)) = Cardinality(Counted(st))
<1>1. Counted(su) = Counted(st)
  BY DEF Counted
<1> QED
  BY <1>1

LEMMA CountOff ==
  ASSUME NEW st, NEW su, NEW i \in Item, st[i] \in CountedStatus, su[i] \notin CountedStatus,
         \A j \in Item \ {i} : st[j] \in CountedStatus <=> su[j] \in CountedStatus
  PROVE  /\ Cardinality(Counted(su)) = Cardinality(Counted(st)) - 1
         /\ Cardinality(Counted(su)) \in Nat
<1>1. Counted(su) = Counted(st) \ {i} /\ i \in Counted(st)
  BY DEF Counted
<1> QED
  BY <1>1, CountedFinite, FS_RemoveElement

LEMMA CountOn ==
  ASSUME NEW st, NEW su, NEW i \in Item, st[i] \notin CountedStatus, su[i] \in CountedStatus,
         \A j \in Item \ {i} : st[j] \in CountedStatus <=> su[j] \in CountedStatus
  PROVE  Cardinality(Counted(su)) = Cardinality(Counted(st)) + 1
<1>1. Counted(su) = Counted(st) \cup {i} /\ i \notin Counted(st)
  BY DEF Counted
<1> QED
  BY <1>1, CountedFinite, FS_AddElement

-----------------------------------------------------------------------------
(* Steps *)

\* No item enters a heap.
NoneQueued ==
  /\ UNCHANGED <<home, when>>
  /\ \A i \in Item : status'[i] = "queued" => status[i] = "queued"

LEMMA PendingKept ==
  ASSUME PendingConsistent, NoneQueued, UNCHANGED queueVars
  PROVE  PendingConsistent'
<1>1. \A q \in Queue : Heap(q)' \subseteq Heap(q)
  BY DEF Heap, NoneQueued
<1> QED
  BY <1>1 DEF PendingConsistent, queueVars

LEMMA InTimeKept ==
  ASSUME InTime, NoneQueued, UNCHANGED <<inPending, earliest>>, dirty => dirty'
  PROVE  InTime'
BY DEF InTime, NoneQueued

\* Nothing happens to the items, and nothing that needs the lock of a queue.
LEMMA Bystander ==
  ASSUME TimeInv, TypeOK', UNCHANGED <<itemVars, home, ex, queueVars, items, terminated>>
  PROVE  Counts' /\ PendingConsistent' /\ NoTerminate' /\ NoneQueued
<1>1. NoneQueued
  BY DEF NoneQueued, itemVars
<1>2. PendingConsistent'
  BY <1>1, PendingKept DEF TimeInv
<1> QED
  BY <1>1, <1>2 DEF TimeInv, Counts, itemVars, NoTerminate, Never

LEMMA TickInv ==
  ASSUME TimeInv, Tick, UNCHANGED <<home, ex>>
  PROVE  TimeInv'
<1>1. TypeOK'
  BY TimeAssumption DEF TimeInv, TypeOK, Tick, Time, itemVars, queueVars, workerVars, receiverVars
<1>2. Counts' /\ PendingConsistent' /\ NoTerminate' /\ NoneQueued
  BY <1>1, Bystander DEF Tick
<1>3. OneHand' /\ NoIdleDispatch'
  BY DEF TimeInv, OneHand, NoIdleDispatch, Chosen, Tick, itemVars, queueVars, workerVars, receiverVars
<1>4. Endings'
  BY DEF TimeInv, Endings, Tick, itemVars, workerVars
<1>5. InTime'
  BY <1>2, InTimeKept DEF TimeInv, Tick, queueVars, workerVars
<1> QED
  BY <1>1, <1>2, <1>3, <1>4, <1>5 DEF TimeInv

LEMMA JoinInv ==
  ASSUME TimeInv, Join \/ JoinReturns, UNCHANGED <<home, ex>>
  PROVE  TimeInv'
<1> USE DEF Join, JoinReturns
<1>1. TypeOK'
  BY DEF TimeInv, TypeOK, itemVars, queueVars, workerVars, receiverVars
<1>2. Counts' /\ PendingConsistent' /\ NoTerminate' /\ NoneQueued
  BY <1>1, Bystander
<1>3. OneHand' /\ NoIdleDispatch'
  BY DEF TimeInv, OneHand, NoIdleDispatch, Chosen, itemVars, queueVars, workerVars, receiverVars
<1>4. Endings'
  BY DEF TimeInv, Endings, itemVars, workerVars
<1>5. InTime'
  BY <1>2, InTimeKept DEF TimeInv, queueVars, workerVars
<1> QED
  BY <1>1, <1>2, <1>3, <1>4, <1>5 DEF TimeInv

LEMMA DispatchInv ==
  ASSUME TimeInv, NEW q \in Queue, Dispatch(q), UNCHANGED <<home, ex>>
  PROVE  TimeInv'
<1>1. TypeOK'
  BY DEF TimeInv, TypeOK, Dispatch, itemVars, queueVars
<1>2. Counts' /\ PendingConsistent' /\ NoTerminate' /\ NoneQueued
  BY <1>1, Bystander DEF Dispatch
<1>3. /\ Chosen(q) /\ ~Chosen(q)'
      /\ \A p \in Queue \ {q} : Chosen(p)' <=> Chosen(p)
      /\ \A p \in Queue \ {q} : queued'[p] = queued[p]
      /\ queued'[q] = queued[q] + 1
      /\ UNCHANGED <<returned, status, dispatching, error>>
  BY DEF TimeInv, TypeOK, Dispatch, Chosen, itemVars, queueVars
<1>4. /\ queued[q] \in Nat /\ returned[q] \in Nat /\ queued[q] + returned[q] = 0
      /\ \A i \in Item : home[i] \in Queue
      /\ q \in dispatching /\ \A i \in Item : status[i] \in Taken => home[i] # q
  BY <1>3 DEF TimeInv, TypeOK, OneHand
<1>5. OneHand'
  BY <1>3, <1>4 DEF TimeInv, OneHand
<1>6. NoIdleDispatch'
  <2> SUFFICES ASSUME ~error, NEW p \in dispatching
               PROVE  \/ queued'[p] + returned'[p] = 1
                      \/ Chosen(p)'
                      \/ \E i \in Item : home[i] = p /\ status[i] \in Taken
    BY <1>3 DEF NoIdleDispatch
  <2>1. p \in Queue
    BY DEF TimeInv, TypeOK
  <2>2. CASE p = q
    BY <1>3, <1>4, <2>2
  <2>3. CASE p # q
    BY <1>3, <2>1, <2>3 DEF TimeInv, NoIdleDispatch
  <2> QED
    BY <2>2, <2>3
<1>7. Endings'
  BY DEF TimeInv, Endings, Dispatch, itemVars
<1>8. InTime'
  BY <1>2, InTimeKept DEF TimeInv, Dispatch, queueVars
<1> QED
  BY <1>1, <1>2, <1>5, <1>6, <1>7, <1>8 DEF TimeInv

LEMMA EndOfTurnInv ==
  ASSUME TimeInv, EndOfTurn, UNCHANGED <<home, ex>>
  PROVE  TimeInv'
<1>1. TypeOK'
  BY DEF TimeInv, TypeOK, EndOfTurn, AllDone, itemVars, queueVars, receiverVars
<1>2. Counts' /\ PendingConsistent' /\ NoTerminate' /\ NoneQueued
  BY <1>1, Bystander DEF EndOfTurn
<1>3. OneHand' /\ NoIdleDispatch'
  BY DEF TimeInv, OneHand, NoIdleDispatch, Chosen, EndOfTurn, itemVars, queueVars, receiverVars
<1>4. Endings'
  BY DEF TimeInv, Endings, EndOfTurn, AllDone, itemVars
<1>5. InTime'
  BY <1>2, InTimeKept DEF TimeInv, EndOfTurn, queueVars
<1> QED
  BY <1>1, <1>2, <1>3, <1>4, <1>5 DEF TimeInv

LEMMA DispatchThrowsInv ==
  ASSUME TimeInv, DispatchThrows, UNCHANGED <<home, ex>>
  PROVE  TimeInv'
<1>1. TypeOK'
  <2>1. ToSet(pending) \subseteq Queue
    BY DEF TimeInv, TypeOK, ToSet
  <2> QED
    BY <2>1 DEF TimeInv, TypeOK, DispatchThrows, itemVars, queueVars, receiverVars
<1>2. Counts' /\ PendingConsistent' /\ NoTerminate' /\ NoneQueued
  BY <1>1, Bystander DEF DispatchThrows
<1>3. OneHand' /\ NoIdleDispatch'
  BY DEF TimeInv, OneHand, NoIdleDispatch, Chosen, DispatchThrows, itemVars, queueVars, receiverVars
<1>4. Endings'
  BY DEF TimeInv, Endings, DispatchThrows, itemVars
<1>5. InTime'
  BY <1>2, InTimeKept DEF TimeInv, DispatchThrows, queueVars
<1> QED
  BY <1>1, <1>2, <1>3, <1>4, <1>5 DEF TimeInv

LEMMA HandlerEndsInv ==
  ASSUME TimeInv, HandlerEnds, UNCHANGED <<home, ex>>
  PROVE  TimeInv'
<1>1. TypeOK'
  BY DEF TimeInv, TypeOK, HandlerEnds, itemVars, queueVars, receiverVars
<1>2. Counts' /\ PendingConsistent' /\ NoTerminate' /\ NoneQueued
  BY <1>1, Bystander DEF HandlerEnds
<1>3. OneHand' /\ NoIdleDispatch'
  BY DEF TimeInv, OneHand, NoIdleDispatch, Chosen, HandlerEnds, itemVars, queueVars, receiverVars
<1>4. Endings'
  BY DEF TimeInv, Endings, HandlerEnds, itemVars
<1>5. InTime'
  BY <1>2, InTimeKept DEF TimeInv, HandlerEnds, queueVars
<1> QED
  BY <1>1, <1>2, <1>3, <1>4, <1>5 DEF TimeInv

\* An item changes its status, and the counters of its queue do not.
LEMMA OneItem ==
  ASSUME TimeInv, NEW i \in Item, NEW b \in Status, status' = [status EXCEPT ![i] = b]
  PROVE  /\ status' \in [Item -> Status] /\ status'[i] = b
         /\ \A j \in Item \ {i} : status'[j] = status[j]
BY DEF TimeInv, TypeOK

LEMMA HandlerPopInv ==
  ASSUME TimeInv, HandlerPop, UNCHANGED <<home, ex>>
  PROVE  TimeInv'
<1>1. PICK q : q = Visiting
  OBVIOUS
<1>2. CASE Heap(q) = {}
  <2> USE <1>1, <1>2
  <2>0. ready' = ready \ {q} /\ UNCHANGED <<status, items>>
    BY DEF HandlerPop
  <2>1. TypeOK'
    BY <2>0 DEF TimeInv, TypeOK, HandlerPop, queueVars, receiverVars
  <2>2. Counts' /\ PendingConsistent' /\ NoTerminate' /\ NoneQueued
    BY <2>0, <2>1, Bystander DEF HandlerPop, itemVars
  <2>3. OneHand' /\ NoIdleDispatch'
    BY <2>0 DEF TimeInv, OneHand, NoIdleDispatch, Chosen, HandlerPop, queueVars, receiverVars
  <2>4. Endings'
    BY <2>0 DEF TimeInv, Endings, HandlerPop
  <2>5. InTime'
    BY <2>2, InTimeKept DEF TimeInv, HandlerPop, queueVars
  <2> QED
    BY <2>1, <2>2, <2>3, <2>4, <2>5 DEF TimeInv
<1>3. CASE Heap(q) # {}
  <2>0. PICK i \in TopItems(q) : /\ status' = [status EXCEPT ![i] = "failing_worker"]
                                 /\ items' = items - 1 /\ UNCHANGED ready
    BY <1>1, <1>3 DEF HandlerPop
  <2>1. i \in Item /\ status[i] = "queued" /\ home[i] = q
    BY DEF TopItems, Heap
  <2>2. /\ status' \in [Item -> Status] /\ status'[i] = "failing_worker"
        /\ \A j \in Item \ {i} : status'[j] = status[j]
    BY <2>0, <2>1, OneItem DEF Status
  <2>3. Counts' /\ items' \in Nat /\ items # 0
    <3>1. /\ Cardinality(Counted(status')) = Cardinality(Counted(status)) - 1
          /\ Cardinality(Counted(status')) \in Nat
      BY <2>1, <2>2, CountOff DEF CountedStatus
    <3> QED
      BY <2>0, <3>1, CountedFinite DEF TimeInv, Counts
  <2>4. TypeOK'
    BY <2>0, <2>2, <2>3 DEF TimeInv, TypeOK, HandlerPop, queueVars, receiverVars
  <2>5. NoneQueued
    BY <2>1, <2>2 DEF NoneQueued, HandlerPop
  <2>6. PendingConsistent'
    BY <2>5, PendingKept DEF TimeInv, HandlerPop
  <2>7. InTime'
    BY <2>5, InTimeKept DEF TimeInv, HandlerPop, queueVars
  <2>8. \A j \in Item : status'[j] \in Taken <=> status[j] \in Taken
    BY <2>1, <2>2 DEF Taken
  <2>9. OneHand' /\ NoIdleDispatch'
    BY <2>0, <2>8 DEF TimeInv, OneHand, NoIdleDispatch, Chosen, HandlerPop, queueVars, receiverVars
  <2>10. Endings' /\ NoTerminate'
    BY <2>0, <2>1, <2>2, <2>3 DEF TimeInv, Endings, HandlerPop, NoTerminate, Never
  <2> QED
    BY <2>3, <2>4, <2>6, <2>7, <2>9, <2>10 DEF TimeInv
<1> QED
  BY <1>2, <1>3

-----------------------------------------------------------------------------
(* Receivers of dispatched queues *)

\* The queue of an item that a receiver has taken.
LEMMA TakenItem ==
  ASSUME TimeInv, NEW i \in Item, status[i] \in Taken, NEW q, q = home[i]
  PROVE  /\ q \in Queue /\ q \in dispatching /\ q \notin inPending /\ ~Chosen(q)
         /\ queued[q] = 0 /\ returned[q] = 0
         /\ \A j \in Item \ {i} : home[j] = q => status[j] \notin Taken
<1>1. q \in Queue
  BY DEF TimeInv, TypeOK
<1>2. /\ q \in dispatching /\ ~Chosen(q) /\ queued[q] = 0 /\ returned[q] = 0
      /\ \A j \in Item \ {i} : home[j] = q => status[j] \notin Taken
  BY DEF TimeInv, OneHand
<1> QED
  BY <1>1, <1>2 DEF TimeInv, PendingConsistent

\* The queue of a receiver whose value(), error() or done() is called.
LEMMA CalledReceiver ==
  ASSUME TimeInv, NEW q \in Queue, queued[q] > 0 \/ returned[q] > 0
  PROVE  /\ q \in dispatching /\ q \notin inPending /\ Mine(q) /\ ~Chosen(q)
         /\ queued[q] + returned[q] = 1 /\ queued[q] \in Nat /\ returned[q] \in Nat
         /\ \A i \in Item : home[i] = q => status[i] \notin Taken
<1>1. queued[q] \in Nat /\ returned[q] \in Nat
  BY DEF TimeInv, TypeOK
<1>2. queued[q] + returned[q] > 0
  BY <1>1
<1>3. queued[q] + returned[q] = 1 /\ q \in dispatching /\ ~Chosen(q)
  BY <1>2 DEF TimeInv, OneHand
<1>4. ASSUME NEW i \in Item, home[i] = q, status[i] \in Taken PROVE FALSE
  <2>1. queued[q] = 0 /\ returned[q] = 0
    BY <1>4 DEF TimeInv, OneHand
  <2> QED
    BY <1>2, <2>1
<1> QED
  BY <1>1, <1>3, <1>4 DEF TimeInv, PendingConsistent, Mine

\* The hands a queue can be in after a step of its receiver.
Returned(q) ==
  /\ queued'[q] = 0 /\ returned'[q] = 1
  /\ \A i \in Item : home[i] = q => status'[i] \notin Taken

Takes(q) ==
  /\ queued'[q] = 0 /\ returned'[q] = 0
  /\ \E i \in Item : /\ home[i] = q /\ status'[i] \in Taken
                     /\ \A j \in Item \ {i} : home[j] = q => status'[j] \notin Taken

Leaves(q) ==
  /\ queued'[q] = 0 /\ returned'[q] = 0
  /\ \A i \in Item : home[i] = q => status'[i] \notin Taken

\* Nothing happens to the other queues.
OnlyIn(q) ==
  /\ \A p \in Queue \ {q} : queued'[p] = queued[p] /\ returned'[p] = returned[p]
  /\ \A i \in Item : home[i] # q => (status'[i] \in Taken <=> status[i] \in Taken)
  /\ UNCHANGED <<home, worker, ready, error>>

LEMMA HandChosen ==
  ASSUME NEW q, OnlyIn(q)
  PROVE  \A p : Chosen(p)' <=> Chosen(p)
BY DEF OnlyIn, Chosen

LEMMA HandMoved ==
  ASSUME TimeInv, NEW q \in Queue, q \in dispatching, ~Chosen(q), OnlyIn(q),
         Returned(q) \/ Takes(q), UNCHANGED dispatching
  PROVE  OneHand' /\ NoIdleDispatch'
<1>0. \A p \in Queue : Chosen(p)' <=> Chosen(p)
  BY HandChosen
<1> USE <1>0
<1>1. \A i \in Item : home[i] \in Queue
  BY DEF TimeInv, TypeOK
<1>2. ASSUME NEW p \in Queue, queued'[p] + returned'[p] > 0
      PROVE  queued'[p] + returned'[p] = 1 /\ p \in dispatching /\ ~Chosen(p)'
  BY <1>2 DEF TimeInv, OneHand, OnlyIn, Returned, Takes
<1>3. ASSUME NEW i \in Item, status'[i] \in Taken
      PROVE  /\ home[i] \in dispatching /\ ~Chosen(home[i])'
             /\ queued'[home[i]] = 0 /\ returned'[home[i]] = 0
  <2>1. CASE home[i] = q
    <3>1. Takes(q)
      BY <1>3, <2>1 DEF Returned
    <3> QED
      BY <2>1, <3>1 DEF Takes, OnlyIn
  <2>2. CASE home[i] # q
    BY <1>1, <1>3, <2>2 DEF TimeInv, OneHand, OnlyIn
  <2> QED
    BY <2>1, <2>2
<1>4. ASSUME NEW i \in Item, NEW j \in Item, status'[i] \in Taken, status'[j] \in Taken,
             home[i] = home[j]
      PROVE  i = j
  <2>1. CASE home[i] = q
    BY <1>4, <2>1 DEF Returned, Takes
  <2>2. CASE home[i] # q
    BY <1>4, <2>2 DEF TimeInv, OneHand, OnlyIn
  <2> QED
    BY <2>1, <2>2
<1>5. OneHand'
  <2>1. \A p \in Queue : Chosen(p)' => p \in dispatching
    BY DEF TimeInv, OneHand
  <2>2. home' = home
    BY DEF OnlyIn
  <2> QED
    BY <1>2, <1>3, <1>4, <2>1, <2>2 DEF OneHand
<1>6. ASSUME ~error, NEW p \in dispatching
      PROVE  \/ queued'[p] + returned'[p] = 1
             \/ Chosen(p)'
             \/ \E i \in Item : home[i] = p /\ status'[i] \in Taken
  <2>1. CASE p = q
    BY <2>1 DEF Returned, Takes
  <2>2. CASE p # q
    <3>1. p \in Queue
      BY DEF TimeInv, TypeOK
    <3> QED
      BY <1>6, <2>2, <3>1 DEF TimeInv, NoIdleDispatch, OnlyIn
  <2> QED
    BY <2>1, <2>2
<1>7. NoIdleDispatch'
  BY <1>6 DEF NoIdleDispatch, OnlyIn
<1> QED
  BY <1>5, <1>7

LEMMA HandLeft ==
  ASSUME TimeInv, NEW q \in Queue, ~Chosen(q), OnlyIn(q), Leaves(q),
         dispatching' = dispatching \ {q}
  PROVE  OneHand' /\ NoIdleDispatch'
<1>0. \A p \in Queue : Chosen(p)' <=> Chosen(p)
  BY HandChosen
<1> USE <1>0
<1>1. \A i \in Item : home[i] \in Queue
  BY DEF TimeInv, TypeOK
<1>2. ASSUME NEW p \in Queue, queued'[p] + returned'[p] > 0
      PROVE  queued'[p] + returned'[p] = 1 /\ p \in dispatching' /\ ~Chosen(p)'
  BY <1>2 DEF TimeInv, OneHand, OnlyIn, Leaves
<1>3. ASSUME NEW i \in Item, status'[i] \in Taken
      PROVE  home[i] # q /\ status[i] \in Taken
  BY <1>3 DEF Leaves, OnlyIn
<1>4. ASSUME NEW i \in Item, status'[i] \in Taken
      PROVE  /\ home[i] \in dispatching' /\ ~Chosen(home[i])'
             /\ queued'[home[i]] = 0 /\ returned'[home[i]] = 0
  BY <1>1, <1>3, <1>4 DEF TimeInv, OneHand, OnlyIn
<1>5. OneHand'
  <2>1. \A p \in Queue : Chosen(p)' => p \in dispatching'
    BY DEF TimeInv, OneHand
  <2>2. home' = home
    BY DEF OnlyIn
  <2>3. \A i, j \in Item :
          status'[i] \in Taken /\ status'[j] \in Taken /\ home[i] = home[j] => i = j
    BY <1>3 DEF TimeInv, OneHand
  <2> QED
    BY <1>2, <1>4, <2>1, <2>2, <2>3 DEF OneHand
<1>6. ASSUME ~error, NEW p \in dispatching'
      PROVE  \/ queued'[p] + returned'[p] = 1
             \/ Chosen(p)'
             \/ \E i \in Item : home[i] = p /\ status'[i] \in Taken
  <2>1. p \in Queue /\ p # q /\ p \in dispatching
    BY DEF TimeInv, TypeOK
  <2> QED
    BY <1>6, <2>1 DEF TimeInv, NoIdleDispatch, OnlyIn
<1>7. NoIdleDispatch'
  BY <1>6 DEF NoIdleDispatch, OnlyIn
<1> QED
  BY <1>5, <1>7

\* What the steps of receivers have in common.
FailsRightly(i) ==
  /\ status'[i] \in {"failing_value", "failing_worker"} => error
  /\ status'[i] = "failing_error" => ex[home[i]] = "failing"

LEMMA EndingsKept ==
  ASSUME TimeInv, UNCHANGED <<home, ex, worker, joined, done, error>>,
         items' \in Nat, items' <= items, \A i \in Item : FailsRightly(i)
  PROVE  Endings'
BY DEF TimeInv, TypeOK, Endings, FailsRightly

LEMMA ReceiverStep ==
  ASSUME TimeInv, TypeOK', NEW q \in Queue, q \in dispatching, ~Chosen(q), OnlyIn(q),
         Returned(q) \/ Takes(q), NoneQueued,
         UNCHANGED <<queueVars, workerVars, ex, done>>,
         Counts', items' <= items, \A i \in Item : FailsRightly(i),
         dirty => dirty', ~terminated'
  PROVE  TimeInv'
<1>1. OneHand' /\ NoIdleDispatch'
  BY HandMoved DEF queueVars
<1>2. PendingConsistent'
  BY PendingKept DEF TimeInv
<1>3. InTime'
  BY InTimeKept DEF TimeInv, queueVars, workerVars
<1>4. Endings'
  BY EndingsKept DEF OnlyIn, workerVars, TypeOK
<1>5. NoTerminate'
  BY DEF NoTerminate
<1> QED
  BY <1>1, <1>2, <1>3, <1>4, <1>5 DEF TimeInv

LEMMA RunItemInv ==
  ASSUME TimeInv, ~terminated, NEW i \in Item, RunItem(i), UNCHANGED <<home, ex>>
  PROVE  TimeInv'
<1>1. PICK q : q = home[i]
  OBVIOUS
<1>2. status[i] = "popped" /\ status[i] \in Taken
  BY DEF RunItem, Taken
<1>3. /\ q \in Queue /\ q \in dispatching /\ ~Chosen(q)
      /\ queued[q] = 0 /\ returned[q] = 0
      /\ \A j \in Item \ {i} : home[j] = q => status[j] \notin Taken
  BY <1>1, <1>2, TakenItem
<1>4. /\ status' \in [Item -> Status] /\ status'[i] = "value"
      /\ \A j \in Item \ {i} : status'[j] = status[j]
  BY OneItem DEF RunItem, Status
<1>5. TypeOK'
  BY <1>4 DEF TimeInv, TypeOK, RunItem, queueVars, workerVars, receiverVars
<1>6. Counts' /\ items' <= items
  <2>1. Cardinality(Counted(status')) = Cardinality(Counted(status))
    BY <1>2, <1>4, CountSame DEF CountedStatus
  <2> QED
    BY <2>1 DEF TimeInv, TypeOK, Counts, RunItem
<1>7. Takes(q) /\ OnlyIn(q)
  BY <1>1, <1>3, <1>4 DEF Takes, OnlyIn, RunItem, Taken, receiverVars, workerVars
<1>8. NoneQueued
  BY <1>4 DEF NoneQueued, RunItem
<1>9. \A j \in Item : FailsRightly(j)
  BY <1>4 DEF TimeInv, Endings, FailsRightly
<1> QED
  BY <1>3, <1>5, <1>6, <1>7, <1>8, <1>9, ReceiverStep DEF RunItem

\* An item leaves the heap, to be sent an error, and is counted off before.
LEMMA FailsNext ==
  ASSUME TimeInv, NEW st \in [Item -> Status],
         \A i \in Item : st[i] = "queued" <=> status[i] = "queued",
         NEW q, NEW j \in TopItems(q), NEW b \in {"failing_value", "failing_error"},
         status' = [st EXCEPT ![j] = b]
  PROVE  /\ status' \in [Item -> Status] /\ j \in Item /\ home[j] = q /\ status[j] = "queued"
         /\ status'[j] = b /\ \A k \in Item \ {j} : status'[k] = st[k]
         /\ Cardinality(Counted(status')) = Cardinality(Counted(st)) - 1
         /\ Cardinality(Counted(status')) \in Nat
<1>1. j \in Item /\ home[j] = q /\ status[j] = "queued" /\ st[j] = "queued"
  BY DEF TopItems, Heap
<1>2. /\ status' \in [Item -> Status] /\ status'[j] = b
      /\ \A k \in Item \ {j} : status'[k] = st[k]
  BY <1>1 DEF Status
<1>3. /\ Cardinality(Counted(status')) = Cardinality(Counted(st)) - 1
      /\ Cardinality(Counted(status')) \in Nat
  BY <1>1, <1>2, CountOff DEF CountedStatus
<1> QED
  BY <1>1, <1>2, <1>3

\* The end of the loop in value().
LEMMA LeavesValue ==
  ASSUME TimeInv, NEW q \in Queue, NEW st \in [Item -> Status], NEW count,
         \A i \in Item : st[i] = "queued" <=> status[i] = "queued",
         \A i \in Item : home[i] = q => st[i] \notin Taken,
         count = Cardinality(Counted(st)), returned[q] = 0, queued'[q] = 0,
         LeaveValue(q, st, count)
  PROVE  /\ status' \in [Item -> Status] /\ dirty' \in BOOLEAN /\ (dirty => dirty')
         /\ Counts' /\ items' \in Nat /\ items' <= count
         /\ returned' \in [Queue -> Nat] /\ \A p \in Queue \ {q} : returned'[p] = returned[p]
         /\ Returned(q) \/ Takes(q)
         /\ \A i \in Item : \/ status'[i] = st[i]
                            \/ /\ status'[i] = "failing_value" /\ error
                               /\ home[i] = q /\ status[i] = "queued"
<1> DEFINE failing == Heap(q) # {} /\ error
<1>1. dirty' \in BOOLEAN /\ (dirty => dirty')
  BY DEF LeaveValue, TellEmpty, TimeInv, TypeOK
<1>2. returned \in [Queue -> Nat]
  BY DEF TimeInv, TypeOK
<1>3. count \in Nat
  BY CountedFinite
<1>4. CASE failing
  <2>1. PICK j \in TopItems(q) : status' = [st EXCEPT ![j] = "failing_value"]
    BY <1>4 DEF LeaveValue
  <2>2. items' = count - 1 /\ returned' = returned
    BY <1>4 DEF LeaveValue
  <2>3. /\ status' \in [Item -> Status] /\ j \in Item /\ home[j] = q /\ status[j] = "queued"
        /\ status'[j] = "failing_value" /\ \A k \in Item \ {j} : status'[k] = st[k]
        /\ Cardinality(Counted(status')) = Cardinality(Counted(st)) - 1
        /\ Cardinality(Counted(status')) \in Nat
    BY <2>1, FailsNext
  <2>4. Counts' /\ items' \in Nat /\ items' <= count
    BY <1>3, <2>2, <2>3 DEF Counts
  <2>5. Takes(q)
    BY <2>2, <2>3 DEF Takes, Taken
  <2>6. error
    BY <1>4
  <2> QED
    BY <1>1, <1>2, <2>2, <2>3, <2>4, <2>5, <2>6
<1>5. CASE ~failing
  <2>1. status' = st /\ items' = count /\ returned' = [returned EXCEPT ![q] = @ + 1]
    BY <1>5 DEF LeaveValue
  <2>2. /\ returned' \in [Queue -> Nat] /\ returned'[q] = 1
        /\ \A p \in Queue \ {q} : returned'[p] = returned[p]
    BY <1>2, <2>1
  <2>3. Returned(q)
    BY <2>1, <2>2 DEF Returned
  <2>4. Counts' /\ items' \in Nat /\ items' <= count
    BY <1>3, <2>1 DEF Counts
  <2> QED
    BY <1>1, <2>1, <2>2, <2>3, <2>4
<1> QED
  BY <1>4, <1>5

LEMMA ValueInv ==
  ASSUME TimeInv, ~terminated, NEW q \in Queue, Value(q), UNCHANGED <<home, ex>>
  PROVE  TimeInv'
<1>1. /\ q \in dispatching /\ Mine(q) /\ ~Chosen(q) /\ queued[q] = 1 /\ returned[q] = 0
      /\ \A i \in Item : home[i] = q => status[i] \notin Taken
  BY CalledReceiver DEF Value
<1>2. /\ queued' = [queued EXCEPT ![q] = @ - 1] /\ start' = [start EXCEPT ![q] = now + Slack]
      /\ ~terminated' /\ terminated' = FALSE
      /\ UNCHANGED <<queueVars, workerVars, when, now, done, join>>
  BY <1>1 DEF Value
<1>3. /\ queued' \in [Queue -> Nat] /\ queued'[q] = 0
      /\ \A p \in Queue \ {q} : queued'[p] = queued[p]
  BY <1>1, <1>2 DEF TimeInv, TypeOK
<1>4. start' \in [Queue -> 0..(MaxTime + Slack)]
  <2>1. now + Slack \in 0..(MaxTime + Slack)
    BY TimeAssumption DEF TimeInv, TypeOK, Time
  <2> QED
    BY <1>2, <2>1 DEF TimeInv, TypeOK
<1>5. items \in Nat /\ status \in [Item -> Status] /\ dirty \in BOOLEAN
      /\ returned \in [Queue -> Nat]
  BY DEF TimeInv, TypeOK
<1>6. /\ status' \in [Item -> Status] /\ dirty' \in BOOLEAN /\ (dirty => dirty')
      /\ Counts' /\ items' \in Nat /\ items' <= items
      /\ returned' \in [Queue -> Nat] /\ \A p \in Queue \ {q} : returned'[p] = returned[p]
      /\ Returned(q) \/ Takes(q)
      /\ \A i \in Item : \/ status'[i] = status[i]
                         \/ /\ status'[i] = "popped" \/ (status'[i] = "failing_value" /\ error)
                            /\ home[i] = q /\ status[i] = "queued"
  <2>1. CASE Heap(q) = {}
    <3>1. returned' = [returned EXCEPT ![q] = @ + 1] /\ UNCHANGED <<status, dirty, items>>
      BY <1>1, <2>1 DEF Value
    <3>2. /\ returned' \in [Queue -> Nat] /\ returned'[q] = 1
          /\ \A p \in Queue \ {q} : returned'[p] = returned[p]
      BY <1>1, <1>5, <3>1
    <3>3. Returned(q)
      BY <1>1, <1>3, <3>1, <3>2 DEF Returned
    <3>4. Counts' /\ items' <= items
      BY <1>5, <3>1 DEF TimeInv, Counts
    <3> QED
      BY <1>5, <3>1, <3>2, <3>3, <3>4
  <2>2. CASE Heap(q) # {} /\ Top(q) <= now + Slack /\ UNCHANGED <<returned, dirty, items>>
             /\ \E i \in TopItems(q) : status' = [status EXCEPT ![i] = "popped"]
    <3>1. PICK i \in TopItems(q) : status' = [status EXCEPT ![i] = "popped"]
      BY <2>2
    <3>2. i \in Item /\ home[i] = q /\ status[i] = "queued"
      BY DEF TopItems, Heap
    <3>3. /\ status' \in [Item -> Status] /\ status'[i] = "popped"
          /\ \A j \in Item \ {i} : status'[j] = status[j]
      BY <3>1, <3>2, OneItem DEF Status
    <3>4. Cardinality(Counted(status')) = Cardinality(Counted(status))
      BY <3>2, <3>3, CountSame DEF CountedStatus
    <3>5. Counts' /\ items' <= items
      BY <1>5, <2>2, <3>4 DEF TimeInv, Counts
    <3>6. Takes(q)
      BY <1>1, <1>3, <2>2, <3>2, <3>3 DEF Takes, Taken
    <3> QED
      BY <1>5, <2>2, <3>2, <3>3, <3>5, <3>6
  <2>3. CASE LeaveValue(q, status, items)
    <3>1. items = Cardinality(Counted(status))
      BY DEF TimeInv, Counts
    <3>2. /\ status' \in [Item -> Status] /\ dirty' \in BOOLEAN /\ (dirty => dirty')
          /\ Counts' /\ items' \in Nat /\ items' <= items
          /\ returned' \in [Queue -> Nat] /\ \A p \in Queue \ {q} : returned'[p] = returned[p]
          /\ Returned(q) \/ Takes(q)
          /\ \A i \in Item : \/ status'[i] = status[i]
                             \/ /\ status'[i] = "failing_value" /\ error
                                /\ home[i] = q /\ status[i] = "queued"
      BY <1>1, <1>3, <1>5, <2>3, <3>1, LeavesValue
    <3> QED
      BY <3>2
  <2> QED
    BY <1>1, <2>1, <2>2, <2>3 DEF Value
<1>7. TypeOK'
  BY <1>2, <1>3, <1>4, <1>6 DEF TimeInv, TypeOK, queueVars, workerVars
<1>8. OnlyIn(q) /\ NoneQueued
  BY <1>2, <1>3, <1>6 DEF OnlyIn, NoneQueued, workerVars, Taken
<1>9. \A i \in Item : FailsRightly(i)
  BY <1>6 DEF FailsRightly, TimeInv, Endings
<1> QED
  BY <1>1, <1>2, <1>6, <1>7, <1>8, <1>9, ReceiverStep

LEMMA NextItemInv ==
  ASSUME TimeInv, ~terminated, NEW i \in Item, NextItem(i), UNCHANGED <<home, ex>>
  PROVE  TimeInv'
<1>1. PICK q : q = home[i]
  OBVIOUS
<1>2. PICK st : st = [status EXCEPT ![i] = "done"]
  OBVIOUS
<1>3. status[i] = "value" /\ status[i] \in Taken /\ ~terminated'
      /\ UNCHANGED <<queueVars, workerVars, when, queued, start, now, done, join, terminated>>
  BY DEF NextItem, Taken
<1>4. /\ q \in Queue /\ q \in dispatching /\ ~Chosen(q)
      /\ queued[q] = 0 /\ returned[q] = 0
      /\ \A j \in Item \ {i} : home[j] = q => status[j] \notin Taken
  BY <1>1, <1>3, TakenItem
<1>5. /\ st \in [Item -> Status] /\ st[i] = "done" /\ \A j \in Item \ {i} : st[j] = status[j]
      /\ status \in [Item -> Status]
  BY <1>2 DEF TimeInv, TypeOK, Status
<1>6. /\ Cardinality(Counted(st)) = items - 1 /\ items - 1 \in Nat /\ items \in Nat
  <2>1. /\ Cardinality(Counted(st)) = Cardinality(Counted(status)) - 1
        /\ Cardinality(Counted(st)) \in Nat
    BY <1>3, <1>5, CountOff DEF CountedStatus
  <2> QED
    BY <2>1 DEF TimeInv, TypeOK, Counts
<1>7. \A j \in Item : home[j] = q => st[j] \notin Taken
  BY <1>4, <1>5 DEF Taken
<1>8. \A j \in Item : st[j] = "queued" <=> status[j] = "queued"
  BY <1>3, <1>5
<1>9. /\ status' \in [Item -> Status] /\ dirty' \in BOOLEAN /\ (dirty => dirty')
      /\ Counts' /\ items' \in Nat /\ items' <= items
      /\ returned' \in [Queue -> Nat] /\ \A p \in Queue \ {q} : returned'[p] = returned[p]
      /\ Returned(q) \/ Takes(q)
      /\ \A j \in Item : \/ status'[j] = st[j]
                         \/ /\ status'[j] = "popped" \/ (status'[j] = "failing_value" /\ error)
                            /\ home[j] = q /\ status[j] = "queued"
  <2>1. CASE /\ \E j \in TopItems(q) : status' = [st EXCEPT ![j] = "popped"]
             /\ items' = items - 1 /\ UNCHANGED <<dirty, returned>>
    <3>1. PICK j \in TopItems(q) : status' = [st EXCEPT ![j] = "popped"]
      BY <2>1
    <3>2. j \in Item /\ home[j] = q /\ status[j] = "queued" /\ st[j] = "queued"
      BY <1>8 DEF TopItems, Heap
    <3>3. /\ status' \in [Item -> Status] /\ status'[j] = "popped"
          /\ \A k \in Item \ {j} : status'[k] = st[k]
      BY <1>5, <3>1, <3>2 DEF Status
    <3>4. Cardinality(Counted(status')) = Cardinality(Counted(st))
      BY <3>2, <3>3, CountSame DEF CountedStatus
    <3>5. Counts' /\ items' \in Nat /\ items' <= items
      BY <1>6, <2>1, <3>4 DEF Counts
    <3>6. Takes(q)
      BY <1>3, <1>4, <1>7, <2>1, <3>2, <3>3 DEF Takes, Taken
    <3>7. dirty' = dirty /\ dirty \in BOOLEAN /\ returned' = returned
          /\ returned \in [Queue -> Nat]
      BY <2>1 DEF TimeInv, TypeOK
    <3> QED
      BY <3>2, <3>3, <3>5, <3>6, <3>7
  <2>2. CASE LeaveValue(q, st, items - 1)
    <3>1. queued'[q] = 0
      BY <1>3, <1>4
    <3>2. /\ status' \in [Item -> Status] /\ dirty' \in BOOLEAN /\ (dirty => dirty')
          /\ Counts' /\ items' \in Nat /\ items' <= items - 1
          /\ returned' \in [Queue -> Nat] /\ \A p \in Queue \ {q} : returned'[p] = returned[p]
          /\ Returned(q) \/ Takes(q)
          /\ \A j \in Item : \/ status'[j] = st[j]
                             \/ /\ status'[j] = "failing_value" /\ error
                                /\ home[j] = q /\ status[j] = "queued"
      BY <1>4, <1>5, <1>6, <1>7, <1>8, <2>2, <3>1, LeavesValue
    <3>3. items' <= items
      BY <1>6, <3>2
    <3> QED
      BY <3>2, <3>3
  <2> QED
    BY <1>1, <1>2, <2>1, <2>2 DEF NextItem
<1>10. TypeOK'
  BY <1>3, <1>9 DEF TimeInv, TypeOK, queueVars, workerVars
<1>11. OnlyIn(q) /\ NoneQueued
  BY <1>1, <1>3, <1>5, <1>8, <1>9 DEF OnlyIn, NoneQueued, workerVars, Taken
<1>12. \A j \in Item : FailsRightly(j)
  BY <1>5, <1>9 DEF FailsRightly, TimeInv, Endings
<1> QED
  BY <1>3, <1>4, <1>9, <1>10, <1>11, <1>12, ReceiverStep

\* A receiver that has called error() leaves a queue without items and does not hand it
\* back.
LEMMA ReceiverLeaves ==
  ASSUME TimeInv, TypeOK', NEW q \in Queue, ~Chosen(q), OnlyIn(q), Leaves(q), NoneQueued,
         Heap(q) = {}, dispatching' = dispatching \ {q},
         UNCHANGED <<inPending, pending, workerVars, ex, done, dirty>>,
         Counts', items' <= items, \A i \in Item : FailsRightly(i), ~terminated'
  PROVE  TimeInv'
<1>1. OneHand' /\ NoIdleDispatch'
  BY HandLeft
<1>2. PendingConsistent'
  <2>1. \A p \in Queue : Heap(p)' \subseteq Heap(p)
    BY DEF Heap, NoneQueued
  <2> QED
    BY <2>1 DEF TimeInv, PendingConsistent
<1>3. InTime'
  BY InTimeKept DEF TimeInv, workerVars
<1>4. Endings'
  BY EndingsKept DEF OnlyIn, workerVars, TypeOK
<1>5. NoTerminate'
  BY DEF NoTerminate
<1> QED
  BY <1>1, <1>2, <1>3, <1>4, <1>5 DEF TimeInv

LEMMA ErrorInv ==
  ASSUME TimeInv, ~terminated, NEW q \in Queue, Error(q), UNCHANGED <<home, ex>>
  PROVE  TimeInv'
<1>1. /\ q \in dispatching /\ Mine(q) /\ ~Chosen(q) /\ queued[q] = 1 /\ returned[q] = 0
      /\ \A i \in Item : home[i] = q => status[i] \notin Taken
  BY CalledReceiver DEF Error
<1>2. /\ queued' = [queued EXCEPT ![q] = @ - 1] /\ ex[q] = "failing"
      /\ ~terminated' /\ terminated' = FALSE
      /\ UNCHANGED <<workerVars, when, inPending, pending, returned, start, now, dirty, done, join>>
  BY <1>1 DEF Error
<1>3. /\ queued' \in [Queue -> Nat] /\ queued'[q] = 0
      /\ \A p \in Queue \ {q} : queued'[p] = queued[p]
  BY <1>1, <1>2 DEF TimeInv, TypeOK
<1>4. items \in Nat /\ status \in [Item -> Status] /\ dispatching \in SUBSET Queue
  BY DEF TimeInv, TypeOK
<1>5. CASE Heap(q) = {}
  <2>1. dispatching' = dispatching \ {q} /\ UNCHANGED <<status, items>>
    BY <1>1, <1>5 DEF Error
  <2>2. TypeOK'
    BY <1>2, <1>3, <2>1 DEF TimeInv, TypeOK, workerVars
  <2>3. Leaves(q) /\ OnlyIn(q) /\ NoneQueued
    BY <1>1, <1>2, <1>3, <2>1 DEF Leaves, OnlyIn, NoneQueued, workerVars
  <2>4. Counts' /\ items' <= items
    BY <1>4, <2>1 DEF TimeInv, Counts
  <2>5. \A i \in Item : FailsRightly(i)
    BY <2>1 DEF FailsRightly, TimeInv, Endings
  <2> QED
    BY <1>1, <1>2, <1>5, <2>1, <2>2, <2>3, <2>4, <2>5, ReceiverLeaves
<1>6. CASE Heap(q) # {}
  <2>1. PICK j \in TopItems(q) : status' = [status EXCEPT ![j] = "failing_error"]
    BY <1>1, <1>6 DEF Error
  <2>2. items' = items - 1 /\ dispatching' = dispatching
    BY <1>1, <1>6 DEF Error
  <2>3. /\ status' \in [Item -> Status] /\ j \in Item /\ home[j] = q /\ status[j] = "queued"
        /\ status'[j] = "failing_error" /\ \A k \in Item \ {j} : status'[k] = status[k]
        /\ Cardinality(Counted(status')) = Cardinality(Counted(status)) - 1
        /\ Cardinality(Counted(status')) \in Nat
    BY <1>4, <2>1, FailsNext
  <2>4. Counts' /\ items' \in Nat /\ items' <= items
    BY <1>4, <2>2, <2>3 DEF TimeInv, Counts
  <2>5. TypeOK'
    BY <1>2, <1>3, <2>2, <2>3, <2>4 DEF TimeInv, TypeOK, workerVars
  <2>6. Takes(q) /\ OnlyIn(q) /\ NoneQueued
    BY <1>1, <1>2, <1>3, <2>3 DEF Takes, OnlyIn, NoneQueued, Taken, workerVars
  <2>7. \A i \in Item : FailsRightly(i)
    BY <1>2, <2>3 DEF FailsRightly, TimeInv, Endings
  <2>8. UNCHANGED <<queueVars, workerVars, ex, done>> /\ (dirty => dirty')
    BY <1>2, <2>2 DEF queueVars
  <2> QED
    BY <1>1, <1>2, <2>4, <2>5, <2>6, <2>7, <2>8, ReceiverStep
<1> QED
  BY <1>5, <1>6

LEMMA FailItemInv ==
  ASSUME TimeInv, ~terminated, NEW i \in Item, FailItem(i), UNCHANGED <<home, ex>>
  PROVE  TimeInv'
<1>1. PICK q : q = home[i]
  OBVIOUS
<1>2. PICK st : st = [status EXCEPT ![i] = "error"]
  OBVIOUS
<1>3. /\ status[i] \in {"failing_value", "failing_error", "failing_worker"} /\ ~terminated'
      /\ UNCHANGED <<workerVars, when, inPending, pending, queued, start, now, dirty, done,
                     join, terminated>>
  BY DEF FailItem
<1>4. /\ st \in [Item -> Status] /\ st[i] = "error" /\ \A j \in Item \ {i} : st[j] = status[j]
      /\ status \in [Item -> Status] /\ items \in Nat /\ returned \in [Queue -> Nat]
  BY <1>2 DEF TimeInv, TypeOK, Status
<1>5. Cardinality(Counted(st)) = items
  <2>1. Cardinality(Counted(st)) = Cardinality(Counted(status))
    BY <1>3, <1>4, CountSame DEF CountedStatus
  <2> QED
    BY <2>1 DEF TimeInv, Counts
<1>6. \A j \in Item : st[j] = "queued" <=> status[j] = "queued"
  BY <1>3, <1>4
<1>7. CASE status[i] = "failing_worker"
  <2>1. status' = st /\ UNCHANGED <<items, returned, dispatching>>
    BY <1>2, <1>7 DEF FailItem, CountNext
  <2>2. TypeOK'
    BY <1>3, <1>4, <2>1 DEF TimeInv, TypeOK, workerVars
  <2>3. NoneQueued
    BY <1>3, <1>6, <2>1 DEF NoneQueued
  <2>4. PendingConsistent'
    BY <1>3, <2>1, <2>3, PendingKept DEF TimeInv, queueVars
  <2>5. InTime'
    BY <1>3, <2>3, InTimeKept DEF TimeInv, workerVars
  <2>6. \A j \in Item : status'[j] \in Taken <=> status[j] \in Taken
    BY <1>4, <1>7, <2>1 DEF Taken
  <2>7. OneHand' /\ NoIdleDispatch'
    BY <1>3, <2>1, <2>6 DEF TimeInv, OneHand, NoIdleDispatch, Chosen, workerVars
  <2>8. Counts' /\ NoTerminate'
    BY <1>3, <1>5, <2>1 DEF Counts, NoTerminate
  <2>9. \A j \in Item : FailsRightly(j)
    BY <1>4, <2>1 DEF FailsRightly, TimeInv, Endings
  <2>10. Endings'
    BY <1>3, <1>4, <2>1, <2>9, EndingsKept DEF workerVars
  <2> QED
    BY <2>2, <2>4, <2>5, <2>7, <2>8, <2>10 DEF TimeInv
<1>8. CASE status[i] \in {"failing_value", "failing_error"}
  <2>1. /\ q \in Queue /\ q \in dispatching /\ ~Chosen(q)
        /\ queued[q] = 0 /\ returned[q] = 0
        /\ \A j \in Item \ {i} : home[j] = q => status[j] \notin Taken
    BY <1>1, <1>8, TakenItem DEF Taken
  <2>2. \A j \in Item : home[j] = q => st[j] \notin Taken
    BY <1>4, <2>1 DEF Taken
  <2>3. CASE Heap(q) # {}
    <3>1. PICK j \in TopItems(q) : status' = [st EXCEPT ![j] = status[i]]
      BY <1>1, <1>2, <1>8, <2>3 DEF FailItem
    <3>2. items' = items - 1 /\ UNCHANGED <<returned, dispatching>>
      BY <1>1, <1>8, <2>3 DEF FailItem, CountNext
    <3>3. /\ status' \in [Item -> Status] /\ j \in Item /\ home[j] = q /\ status[j] = "queued"
          /\ status'[j] = status[i] /\ \A k \in Item \ {j} : status'[k] = st[k]
          /\ Cardinality(Counted(status')) = Cardinality(Counted(st)) - 1
          /\ Cardinality(Counted(status')) \in Nat
      <4>1. status[i] \in Status /\ status[i] \notin CountedStatus
        BY <1>8 DEF Status, CountedStatus
      <4>2. j \in Item /\ home[j] = q /\ status[j] = "queued" /\ st[j] = "queued"
        BY <1>6 DEF TopItems, Heap
      <4>3. /\ status' \in [Item -> Status] /\ status'[j] = status[i]
            /\ \A k \in Item \ {j} : status'[k] = st[k]
        BY <1>4, <3>1, <4>1, <4>2
      <4>4. st[j] \in CountedStatus
        BY <4>2 DEF CountedStatus
      <4>5. /\ Cardinality(Counted(status')) = Cardinality(Counted(st)) - 1
            /\ Cardinality(Counted(status')) \in Nat
        BY <4>1, <4>2, <4>3, <4>4, CountOff
      <4> QED
        BY <4>2, <4>3, <4>5
    <3>4. Counts' /\ items' \in Nat /\ items' <= items
      BY <1>4, <1>5, <3>2, <3>3 DEF Counts
    <3>5. TypeOK'
      BY <1>3, <3>2, <3>3, <3>4 DEF TimeInv, TypeOK, workerVars
    <3>6. Takes(q) /\ OnlyIn(q) /\ NoneQueued
      <4>1. Takes(q)
        BY <1>3, <1>8, <2>1, <2>2, <3>2, <3>3 DEF Takes, Taken
      <4>2. OnlyIn(q)
        BY <1>1, <1>3, <1>4, <3>2, <3>3 DEF OnlyIn, workerVars
      <4>3. NoneQueued
        BY <1>3, <1>6, <1>8, <3>3 DEF NoneQueued
      <4> QED
        BY <4>1, <4>2, <4>3
    <3>7. \A k \in Item : FailsRightly(k)
      BY <1>1, <1>4, <1>8, <3>3 DEF FailsRightly, TimeInv, Endings
    <3>8. UNCHANGED <<queueVars, workerVars, ex, done>> /\ (dirty => dirty')
      BY <1>3, <3>2 DEF queueVars
    <3> QED
      BY <1>3, <2>1, <3>4, <3>5, <3>6, <3>7, <3>8, ReceiverStep
  <2>4. CASE Heap(q) = {}
    <3>1. status' = st /\ items' = items
      BY <1>1, <1>2, <2>4 DEF FailItem, CountNext
    <3>2. Counts' /\ items' <= items
      BY <1>4, <1>5, <3>1 DEF Counts
    <3>3. NoneQueued /\ \A k \in Item : FailsRightly(k)
      <4>1. NoneQueued
        BY <1>3, <1>6, <3>1 DEF NoneQueued
      <4> QED
        BY <1>4, <3>1, <4>1 DEF FailsRightly, TimeInv, Endings
    <3>4. CASE status[i] = "failing_value"
      <4>1. returned' = [returned EXCEPT ![q] = @ + 1] /\ dispatching' = dispatching
        BY <1>1, <2>4, <3>4 DEF FailItem
      <4>2. /\ returned' \in [Queue -> Nat] /\ returned'[q] = 1
            /\ \A p \in Queue \ {q} : returned'[p] = returned[p]
        BY <1>4, <2>1, <4>1
      <4>3. TypeOK'
        BY <1>3, <1>4, <3>1, <4>1, <4>2 DEF TimeInv, TypeOK, workerVars
      <4>4. Returned(q) /\ OnlyIn(q)
        <5>1. Returned(q)
          BY <1>3, <2>1, <2>2, <3>1, <4>2 DEF Returned
        <5>2. OnlyIn(q)
          BY <1>1, <1>3, <1>4, <3>1, <4>2 DEF OnlyIn, workerVars
        <5> QED
          BY <5>1, <5>2
      <4>5. UNCHANGED <<queueVars, workerVars, ex, done>> /\ (dirty => dirty')
        BY <1>3, <4>1 DEF queueVars
      <4> QED
        BY <1>3, <2>1, <3>2, <3>3, <4>3, <4>4, <4>5, ReceiverStep
    <3>5. CASE status[i] = "failing_error"
      <4>1. returned' = returned /\ dispatching' = dispatching \ {q}
        BY <1>1, <2>4, <3>5 DEF FailItem
      <4>2. TypeOK'
        BY <1>3, <1>4, <3>1, <4>1 DEF TimeInv, TypeOK, workerVars
      <4>3. Leaves(q) /\ OnlyIn(q)
        <5>1. Leaves(q)
          BY <1>3, <2>1, <2>2, <3>1, <4>1 DEF Leaves
        <5>2. OnlyIn(q)
          BY <1>1, <1>3, <1>4, <3>1, <4>1 DEF OnlyIn, workerVars
        <5> QED
          BY <5>1, <5>2
      <4> QED
        BY <1>3, <2>1, <2>4, <3>2, <3>3, <4>1, <4>2, <4>3, ReceiverLeaves
    <3> QED
      BY <1>8, <3>4, <3>5
  <2> QED
    BY <2>3, <2>4
<1> QED
  BY <1>3, <1>7, <1>8

LEMMA DoneInv ==
  ASSUME TimeInv, ~terminated, NEW q \in Queue, Done(q), UNCHANGED <<home, ex>>
  PROVE  TimeInv'
<1>1. /\ q \in dispatching /\ q \notin inPending /\ Mine(q) /\ ~Chosen(q)
      /\ queued[q] = 0 /\ returned[q] = 1
      /\ \A i \in Item : home[i] = q => status[i] \notin Taken
  BY CalledReceiver DEF Done
<1>2. /\ returned' = [returned EXCEPT ![q] = @ - 1] /\ ~terminated' /\ terminated' = FALSE
      /\ HandBack(q) /\ TellTop(q)
      /\ UNCHANGED <<itemVars, workerVars, queued, start, now, items, done, join>>
  BY <1>1 DEF Done
<1>3. /\ returned' \in [Queue -> Nat] /\ returned'[q] = 0
      /\ \A p \in Queue \ {q} : returned'[p] = returned[p]
  BY <1>1, <1>2 DEF TimeInv, TypeOK
<1>4. dirty' \in BOOLEAN /\ (dirty => dirty')
  BY <1>2 DEF TellTop, TimeInv, TypeOK
<1>5. /\ pending' \in Seq(Queue) /\ IsInjective(pending') /\ ToSet(pending') = inPending'
      /\ dispatching' = dispatching \ {q} /\ inPending' = inPending \cup {q}
  BY <1>1, <1>2, AppendedTo DEF HandBack, TimeInv, TypeOK, PendingConsistent
<1>6. TypeOK'
  <2>1. dispatching' \in SUBSET Queue /\ inPending' \in SUBSET Queue /\ terminated' \in BOOLEAN
    BY <1>2, <1>5 DEF TimeInv, TypeOK
  <2> QED
    BY <1>2, <1>3, <1>4, <1>5, <2>1 DEF TimeInv, TypeOK, itemVars, workerVars
<1>7. OneHand' /\ NoIdleDispatch'
  <2>1. Leaves(q) /\ OnlyIn(q)
    BY <1>1, <1>2, <1>3 DEF Leaves, OnlyIn, itemVars, workerVars
  <2> QED
    BY <1>1, <1>5, <2>1, HandLeft
<1>8. PendingConsistent'
  <2>1. \A p \in Queue : Heap(p)' = Heap(p)
    BY <1>2 DEF Heap, itemVars
  <2> QED
    BY <1>5, <2>1 DEF TimeInv, PendingConsistent
<1>9. InTime'
  <2> SUFFICES ASSUME ~dirty', NEW i \in Item, status[i] = "queued", home[i] \in inPending'
               PROVE  earliest <= when[i]
    BY <1>2 DEF InTime, itemVars, workerVars
  <2>1. CASE home[i] \in inPending
    BY <1>4, <2>1 DEF TimeInv, InTime
  <2>2. CASE home[i] = q
    <3>1. i \in Heap(q)
      BY <2>2 DEF Heap
    <3>2. ~(Top(q) <= earliest)
      BY <1>2, <3>1 DEF TellTop
    <3>3. {when[j] : j \in Heap(q)} \subseteq Nat /\ when[i] \in {when[j] : j \in Heap(q)}
          /\ earliest \in Nat
      BY <3>1, TimeAssumption DEF TimeInv, TypeOK, Heap, Time, Far
    <3>4. Top(q) \in Nat /\ Top(q) <= when[i]
      BY <3>3, MinOf DEF Top
    <3>5. when[i] \in Nat
      BY <3>3
    <3> QED
      BY <3>2, <3>3, <3>4, <3>5
  <2> QED
    BY <1>5, <2>1, <2>2
<1>10. Counts' /\ NoTerminate' /\ Endings'
  <2>1. Counts' /\ NoTerminate'
    BY <1>2 DEF TimeInv, Counts, NoTerminate, itemVars
  <2>2. \A i \in Item : FailsRightly(i)
    BY <1>2 DEF FailsRightly, TimeInv, Endings, itemVars
  <2>3. items' \in Nat /\ items' <= items
    BY <1>2 DEF TimeInv, TypeOK
  <2> QED
    BY <1>2, <2>1, <2>2, <2>3, EndingsKept DEF workerVars
<1> QED
  BY <1>6, <1>7, <1>8, <1>9, <1>10 DEF TimeInv

-----------------------------------------------------------------------------
(* Callers and the worker *)

\* After join() has found nothing left, no item is being completed, unless an executor
\* has called error().
LEMMA NothingCompletes ==
  ASSUME TimeInv, joined, Never("failing")
  PROVE  done /\ \A i \in Item : status[i] \in {"new", "done", "error"}
<1>1. items = 0 /\ ~error /\ done
  BY DEF TimeInv, Endings
<1>2. Counted(status) = {}
  BY <1>1, CountedFinite, FS_EmptySet DEF TimeInv, Counts
<1>3. \A i \in Item : status[i] \in Status /\ home[i] \in Queue
  BY DEF TimeInv, TypeOK
<1>4. \A i \in Item : status[i] \notin CountedStatus
  BY <1>2 DEF Counted
<1>5. \A i \in Item : status[i] \notin {"failing_value", "failing_worker", "failing_error"}
  BY <1>1, <1>3 DEF TimeInv, Endings, Never
<1> QED
  BY <1>1, <1>3, <1>4, <1>5 DEF Status, CountedStatus

LEMMA InsertInv ==
  ASSUME TimeInv, ~terminated, NEW i \in Item, NEW w \in Time, Insert(i, w),
         UNCHANGED <<home, ex>>
  PROVE  TimeInv'
<1>1. PICK q : q = home[i]
  OBVIOUS
<1>2. /\ status[i] = "new" /\ MayInsert /\ when' = [when EXCEPT ![i] = w]
      /\ UNCHANGED <<workerVars, receiverVars, dispatching, now, done, join>>
  BY DEF Insert
<1>3. /\ q \in Queue /\ status \in [Item -> Status] /\ items \in Nat /\ pending \in Seq(Queue)
      /\ inPending \in SUBSET Queue /\ dirty \in BOOLEAN /\ earliest \in Nat /\ w \in Nat
      /\ when \in [Item -> Nat]
  BY <1>1, TimeAssumption DEF TimeInv, TypeOK, Time, Far
<1>4. /\ when' \in [Item -> Time] /\ when'[i] = w
      /\ \A j \in Item \ {i} : when'[j] = when[j]
  BY <1>2 DEF TimeInv, TypeOK
<1>5. ASSUME status' \in [Item -> Status], status'[i] \in {"new", "queued", "error"},
             \A j \in Item \ {i} : status'[j] = status[j]
      PROVE  OneHand' /\ NoIdleDispatch' /\ \A j \in Item : FailsRightly(j)
  <2>1. \A j \in Item : status'[j] \in Taken <=> status[j] \in Taken
    BY <1>2, <1>5 DEF Taken
  <2>2. OneHand' /\ NoIdleDispatch'
    BY <1>2, <2>1 DEF TimeInv, OneHand, NoIdleDispatch, Chosen, workerVars, receiverVars
  <2> QED
    BY <1>5, <2>2 DEF FailsRightly, TimeInv, Endings
<1>6. ASSUME status'[i] # "queued", \A j \in Item \ {i} : status'[j] = status[j],
             UNCHANGED <<pending, inPending, dirty>>
      PROVE  PendingConsistent' /\ InTime'
  <2>1. \A p \in Queue : Heap(p)' = Heap(p)
    BY <1>2, <1>6 DEF Heap
  <2>2. PendingConsistent'
    BY <1>2, <1>6, <2>1 DEF TimeInv, PendingConsistent
  <2> QED
    BY <1>2, <1>4, <1>6, <2>2 DEF TimeInv, InTime, workerVars
<1>7. CASE error
  <2>1. status' = [status EXCEPT ![i] = "error"]
        /\ UNCHANGED <<pending, inPending, dirty, items, terminated>>
    BY <1>7 DEF Insert
  <2>2. /\ status' \in [Item -> Status] /\ status'[i] = "error"
        /\ \A j \in Item \ {i} : status'[j] = status[j]
    BY <2>1, OneItem DEF Status
  <2>3. TypeOK'
    BY <1>2, <1>4, <2>1, <2>2 DEF TimeInv, TypeOK, workerVars, receiverVars
  <2>4. Counts'
    <3>1. Cardinality(Counted(status')) = Cardinality(Counted(status))
      BY <1>2, <2>2, CountSame DEF CountedStatus
    <3> QED
      BY <2>1, <3>1 DEF TimeInv, Counts
  <2>5. OneHand' /\ NoIdleDispatch' /\ Endings'
    <3>1. items' \in Nat /\ items' <= items
      BY <1>3, <2>1
    <3> QED
      BY <1>2, <1>5, <2>2, <3>1, EndingsKept DEF workerVars
  <2>6. NoTerminate'
    BY <2>1 DEF NoTerminate
  <2> QED
    BY <1>6, <2>1, <2>2, <2>3, <2>4, <2>5, <2>6 DEF TimeInv
<1>8. CASE ~error /\ joined
  <2>1. terminated' = TRUE /\ UNCHANGED <<status, pending, inPending, dirty, items>>
    BY <1>8 DEF Insert
  <2>2. TypeOK'
    BY <1>2, <1>4, <2>1 DEF TimeInv, TypeOK, workerVars, receiverVars
  <2>3. OneHand' /\ NoIdleDispatch' /\ Endings'
    <3>1. items' \in Nat /\ items' <= items
      BY <1>3, <2>1
    <3> QED
      BY <1>2, <1>3, <1>5, <2>1, <3>1, EndingsKept DEF workerVars
  <2>4. Counts'
    BY <2>1 DEF TimeInv, Counts
  <2>5. NoTerminate'
    <3>1. ASSUME Never("failing") PROVE FALSE
      BY <1>2, <1>8, <3>1, NothingCompletes DEF MayInsert, Completing
    <3> QED
      BY <3>1 DEF NoTerminate, Never
  <2> QED
    BY <1>2, <1>6, <2>1, <2>2, <2>3, <2>4, <2>5 DEF TimeInv
<1>9. CASE ~error /\ ~joined
  <2>1. /\ status' = [status EXCEPT ![i] = "queued"] /\ items' = items + 1
        /\ IF Unlisted(q)
           THEN pending' = Append(pending, q) /\ inPending' = inPending \cup {q}
           ELSE UNCHANGED <<pending, inPending>>
        /\ dirty' = (dirty \/ BeforeEarliest(q, w)) /\ UNCHANGED terminated
    BY <1>1, <1>9 DEF Insert
  <2>2. /\ status' \in [Item -> Status] /\ status'[i] = "queued"
        /\ \A j \in Item \ {i} : status'[j] = status[j]
    BY <2>1, OneItem DEF Status
  <2>3. Counts' /\ items' \in Nat
    <3>1. Cardinality(Counted(status')) = Cardinality(Counted(status)) + 1
      BY <1>2, <2>2, CountOn DEF CountedStatus
    <3> QED
      BY <1>3, <2>1, <3>1 DEF TimeInv, Counts
  <2>4. /\ pending' \in Seq(Queue) /\ IsInjective(pending') /\ ToSet(pending') = inPending'
        /\ inPending' \subseteq inPending \cup {q} /\ inPending \subseteq inPending'
        /\ inPending' \cap dispatching = {} /\ q \in inPending' \cup dispatching
    <3>1. CASE Unlisted(q)
      <4>1. q \notin ToSet(pending) /\ q \notin dispatching /\ IsInjective(pending)
        BY <3>1 DEF Unlisted, TimeInv, PendingConsistent
      <4>2. /\ pending' \in Seq(Queue) /\ IsInjective(pending')
            /\ ToSet(pending') = ToSet(pending) \cup {q}
        BY <1>3, <2>1, <3>1, <4>1, AppendedTo
      <4> QED
        BY <2>1, <3>1, <4>1, <4>2 DEF TimeInv, PendingConsistent
    <3>2. CASE ~Unlisted(q)
      BY <1>3, <2>1, <3>2 DEF Unlisted, TimeInv, PendingConsistent
    <3> QED
      BY <3>1, <3>2
  <2>5. dirty' \in BOOLEAN
    BY <1>3, <2>1
  <2>6. TypeOK'
    BY <1>2, <1>3, <1>4, <2>1, <2>2, <2>3, <2>4, <2>5 DEF TimeInv, TypeOK, workerVars, receiverVars
  <2>7. PendingConsistent'
    <3>1. \A p \in Queue \ {q} : Heap(p)' = Heap(p)
      BY <1>1, <2>2 DEF Heap
    <3>2. \A p \in Queue : Heap(p)' # {} => p \in inPending' \cup dispatching
      BY <2>4, <3>1 DEF TimeInv, PendingConsistent
    <3> QED
      BY <1>2, <2>4, <3>2 DEF PendingConsistent
  <2>8. InTime'
    <3> SUFFICES ASSUME ~dirty', NEW j \in Item, status'[j] = "queued", home[j] \in inPending'
                 PROVE  earliest <= when'[j]
      BY <1>2 DEF InTime, workerVars
    <3>1. ~dirty /\ ~BeforeEarliest(q, w)
      BY <1>3, <2>1
    <3>2. CASE home[j] # q
      <4>1. j # i /\ home[j] \in inPending
        BY <1>1, <2>4, <3>2
      <4> QED
        BY <1>4, <2>2, <3>1, <4>1 DEF TimeInv, InTime
    <3>3. CASE home[j] = q
      <4>1. PICK S : S = {w} \cup {when[k] : k \in Heap(q)}
        OBVIOUS
      <4>2. S \subseteq Nat /\ S # {}
        BY <1>3, <4>1 DEF Heap
      <4>3. when'[j] \in S
        BY <1>4, <2>2, <3>3, <4>1 DEF Heap
      <4>4. Min(S) \in Nat /\ Min(S) <= when'[j] /\ when'[j] \in Nat
        BY <4>2, <4>3, MinOf
      <4>5. ~(Min(S) < earliest)
        BY <3>1, <4>1 DEF BeforeEarliest
      <4> QED
        BY <1>3, <4>4, <4>5
    <3> QED
      BY <3>2, <3>3
  <2>9. OneHand' /\ NoIdleDispatch' /\ \A j \in Item : FailsRightly(j)
    BY <1>5, <2>2
  <2>10. Endings'
    BY <1>2, <1>9, <2>9 DEF TimeInv, Endings, FailsRightly, workerVars
  <2>11. NoTerminate'
    BY <2>1 DEF NoTerminate
  <2> QED
    BY <2>3, <2>6, <2>7, <2>8, <2>9, <2>10, <2>11 DEF TimeInv
<1> QED
  BY <1>7, <1>8, <1>9

LEMMA SelectInv ==
  ASSUME TimeInv, ~terminated, Select, UNCHANGED <<home, ex>>
  PROVE  TimeInv'
<1> USE DEF Due, Kept
<1> DEFINE Tops == {Far} \cup {Top(q) : q \in Kept}
<1>1. PICK due, kept : due = Due /\ kept = Kept
  OBVIOUS
<1>2. /\ worker = "wait" /\ dirty' = FALSE
      /\ dispatching' = (dispatching \ ToSet(pending)) \cup due
      /\ inPending' = (inPending \ ToSet(pending)) \cup kept
      /\ pending' \in Partition(pending, kept)
      /\ earliest' = Min({Far} \cup {Top(q) : q \in kept})
      /\ ready' = due /\ worker' = "dispatch"
      /\ UNCHANGED <<itemVars, receiverVars, now, items, done, joined, error, join, terminated>>
  BY <1>1 DEF Select
<1>3. /\ ToSet(pending) = inPending /\ IsInjective(pending) /\ pending \in Seq(Queue)
      /\ inPending \cap dispatching = {} /\ inPending \subseteq Queue /\ dispatching \subseteq Queue
      /\ \A q \in Queue : Heap(q) # {} => q \in inPending \cup dispatching
  BY DEF TimeInv, TypeOK, PendingConsistent
<1>4. /\ due \subseteq inPending /\ kept \subseteq inPending /\ due \cap kept = {}
      /\ \A q \in inPending : Heap(q) # {} => q \in due \cup kept
      /\ \A q \in kept : Heap(q) # {}
  BY <1>1, <1>3
<1>5. dispatching' = dispatching \cup due /\ inPending' = kept /\ due \cap dispatching = {}
  BY <1>2, <1>3, <1>4
<1>6. /\ pending' \in Seq(Queue) /\ IsInjective(pending') /\ ToSet(pending') = inPending'
  BY <1>2, <1>3, <1>4, <1>5, Partitioned
<1>7. \A q \in Queue : Heap(q)' = Heap(q)
  BY <1>2 DEF Heap, itemVars
<1>8. PendingConsistent'
  BY <1>3, <1>4, <1>5, <1>6, <1>7 DEF PendingConsistent
<1>9. \A q \in kept : Top(q) \in Time /\ \A i \in Heap(q) : Top(q) <= when[i]
  <2> SUFFICES ASSUME NEW q \in kept PROVE Top(q) \in Time /\ \A i \in Heap(q) : Top(q) <= when[i]
    OBVIOUS
  <2>1. PICK S : S = {when[i] : i \in Heap(q)}
    OBVIOUS
  <2>2. S \subseteq Time /\ S \subseteq Nat /\ S # {}
    <3>1. PICK i : i \in Heap(q)
      BY <1>4
    <3>2. \A j \in Heap(q) : when[j] \in Time
      BY DEF Heap, TimeInv, TypeOK
    <3>3. Time \subseteq Nat
      BY TimeAssumption DEF Time
    <3> QED
      BY <2>1, <3>1, <3>2, <3>3
  <2>3. Min(S) \in S /\ \A x \in S : Min(S) <= x
    BY <2>2, MinOf
  <2> QED
    BY <2>1, <2>2, <2>3 DEF Top
<1>10. earliest' \in Time \cup {Far} /\ \A q \in kept : earliest' <= Top(q)
  <2>1. PICK S : S = {Far} \cup {Top(q) : q \in kept}
    OBVIOUS
  <2>2. S \subseteq Time \cup {Far} /\ S # {}
    BY <1>9, <2>1
  <2>3. S \subseteq Nat
    BY <2>2, TimeAssumption DEF Time, Far
  <2>4. Min(S) \in S /\ \A x \in S : Min(S) <= x
    BY <2>2, <2>3, MinOf
  <2> QED
    BY <1>2, <2>1, <2>2, <2>4
<1>11. TypeOK'
  BY <1>2, <1>3, <1>4, <1>5, <1>6, <1>10 DEF TimeInv, TypeOK, itemVars, receiverVars
<1>12. InTime'
  <2> SUFFICES ASSUME NEW i \in Item, status[i] = "queued", home[i] \in kept
               PROVE  earliest' <= when[i]
    BY <1>2, <1>5 DEF InTime, itemVars
  <2>1. i \in Heap(home[i])
    BY DEF Heap
  <2>2. Top(home[i]) <= when[i] /\ earliest' <= Top(home[i])
    BY <1>9, <1>10, <2>1
  <2>3. earliest' \in Nat /\ Top(home[i]) \in Nat /\ when[i] \in Nat
    BY <1>9, <1>10, TimeAssumption DEF TimeInv, TypeOK, Time, Far
  <2> QED
    BY <2>2, <2>3
<1>13. /\ \A q \in Queue : Chosen(q)' <=> q \in due
       /\ \A q \in Queue : ~Chosen(q)
       /\ UNCHANGED <<status, home, queued, returned, error>>
  BY <1>2 DEF Chosen, itemVars, receiverVars
<1>14. OneHand'
  <2>1. ASSUME NEW q \in Queue, queued[q] + returned[q] > 0
        PROVE  queued[q] + returned[q] = 1 /\ q \in dispatching' /\ q \notin due
    BY <1>5, <2>1 DEF TimeInv, OneHand
  <2>2. ASSUME NEW i \in Item, status[i] \in Taken
        PROVE  /\ home[i] \in dispatching' /\ home[i] \notin due /\ home[i] \in Queue
               /\ queued[home[i]] = 0 /\ returned[home[i]] = 0
    BY <1>5, <2>2 DEF TimeInv, TypeOK, OneHand
  <2>3. \A i, j \in Item :
          status[i] \in Taken /\ status[j] \in Taken /\ home[i] = home[j] => i = j
    BY DEF TimeInv, OneHand
  <2> QED
    BY <1>5, <1>13, <2>1, <2>2, <2>3 DEF OneHand
<1>15. NoIdleDispatch'
  <2> SUFFICES ASSUME ~error, NEW q \in dispatching'
               PROVE  \/ queued[q] + returned[q] = 1 \/ q \in due
                      \/ \E i \in Item : home[i] = q /\ status[i] \in Taken
    BY <1>3, <1>4, <1>5, <1>13 DEF NoIdleDispatch
  <2> QED
    BY <1>3, <1>5, <1>13 DEF TimeInv, NoIdleDispatch
<1>16. Counts' /\ NoTerminate'
  BY <1>2 DEF TimeInv, Counts, NoTerminate, Never, itemVars
<1>17. Endings'
  BY <1>2 DEF TimeInv, Endings, itemVars
<1> QED
  BY <1>8, <1>11, <1>12, <1>14, <1>15, <1>16, <1>17 DEF TimeInv

LEMMA InitInv == Init => TimeInv
<1> SUFFICES ASSUME Init PROVE TimeInv
  OBVIOUS
<1> USE DEF Init
<1>1. TypeOK
  <2>1. status \in [Item -> Status] /\ when \in [Item -> Time] /\ now \in Time
    BY TimeAssumption DEF Status, Time
  <2>2. /\ queued \in [Queue -> Nat] /\ returned \in [Queue -> Nat]
        /\ start \in [Queue -> 0..(MaxTime + Slack)]
    BY TimeAssumption
  <2>3. pending \in Seq(Queue)
    OBVIOUS
  <2> QED
    BY <2>1, <2>2, <2>3 DEF TypeOK, MadeQueues
<1>2. Counts
  <2>1. Counted(status) = {}
    BY DEF Counted, CountedStatus
  <2> QED
    BY <2>1, FS_EmptySet DEF Counts
<1>3. OneHand /\ NoIdleDispatch
  BY <1>1 DEF OneHand, NoIdleDispatch, Chosen, Taken, TypeOK
<1>4. PendingConsistent
  <2>1. DOMAIN pending = {} /\ \A q \in Queue : Heap(q) = {}
    BY DEF Heap
  <2> QED
    BY <2>1 DEF PendingConsistent, IsInjective, ToSet
<1>5. Endings /\ NoTerminate /\ InTime
  BY DEF Endings, NoTerminate, InTime
<1> QED
  BY <1>1, <1>2, <1>3, <1>4, <1>5 DEF TimeInv

LEMMA NextInv == TimeInv /\ [Next]_vars => TimeInv'
<1> SUFFICES ASSUME TimeInv, [Next]_vars PROVE TimeInv'
  OBVIOUS
<1>1. CASE UNCHANGED vars
  <2> USE <1>1 DEF vars, itemVars, queueVars, workerVars, receiverVars
  <2>1. TypeOK'
    BY DEF TimeInv, TypeOK
  <2>2. Counts' /\ PendingConsistent' /\ NoTerminate' /\ NoneQueued
    BY <2>1, Bystander
  <2>3. OneHand' /\ NoIdleDispatch'
    BY DEF TimeInv, OneHand, NoIdleDispatch, Chosen
  <2>4. Endings' /\ InTime'
    BY DEF TimeInv, Endings, InTime
  <2> QED
    BY <2>1, <2>2, <2>3, <2>4 DEF TimeInv
<1>2. CASE Step(Tick) \/ Step(Join) \/ Step(JoinReturns)
  BY <1>2, TickInv, JoinInv DEF Step
<1>3. CASE Step(Worker)
  <2>1. ~terminated /\ Worker /\ UNCHANGED <<home, ex>>
    BY <1>3 DEF Step
  <2> QED
    BY <2>1, SelectInv, DispatchInv, EndOfTurnInv, DispatchThrowsInv, HandlerPopInv, HandlerEndsInv
       DEF Worker
<1>4. ASSUME NEW q \in Queue, Step(Executor(q)) PROVE TimeInv'
  <2>1. ~terminated /\ Executor(q) /\ UNCHANGED <<home, ex>>
    BY <1>4 DEF Step
  <2> QED
    BY <2>1, ValueInv, ErrorInv, DoneInv DEF Executor
<1>5. ASSUME NEW i \in Item, Step(ItemStep(i)) PROVE TimeInv'
  <2>1. ~terminated /\ ItemStep(i) /\ UNCHANGED <<home, ex>>
    BY <1>5 DEF Step
  <2> QED
    BY <2>1, RunItemInv, NextItemInv, FailItemInv DEF ItemStep
<1>6. ASSUME NEW i \in Item, NEW w \in Time, Step(Insert(i, w)) PROVE TimeInv'
  BY <1>6, InsertInv DEF Step
<1> QED
  BY <1>1, <1>2, <1>3, <1>4, <1>5, <1>6 DEF Next, Finished

-----------------------------------------------------------------------------
\* items_ counts the items that are queued or held by value(), a dispatched queue is in
\* one hand, the list of the worker agrees with the queues' flags, and nothing is forgotten:
\* the inductive invariant of time_source, with executors of every kind.
THEOREM TimeSourceCorrect == Spec => []TimeInv
<1> QED
  BY InitInv, NextInv, PTL DEF Spec

\* std::terminate() is not reached by value(), done() or a late insert(), unless an executor
\* calls error().
THEOREM NoTerminateCorrect == Spec => []NoTerminate
<1>1. TimeInv => NoTerminate
  BY DEF TimeInv
<1> QED
  BY <1>1, TimeSourceCorrect, PTL

\* A queue is dispatched at most once at a time, and dispatching_ says exactly when.
THEOREM ExclusiveDispatchCorrect == Spec => []ExclusiveDispatch
<1>1. ASSUME TimeInv PROVE ExclusiveDispatch
  <2> SUFFICES ASSUME NEW q \in Queue
               PROVE  /\ Receivers(q) <= IF q \in dispatching THEN 1 ELSE 0
                      /\ q \in dispatching /\ ~error => Receivers(q) = 1
    BY DEF ExclusiveDispatch
  <2>1. PICK T : T = {i \in Item : home[i] = q /\ status[i] \in Taken}
    OBVIOUS
  <2>2. PICK c : c = IF worker = "dispatch" /\ q \in ready THEN 1 ELSE 0
    OBVIOUS
  <2>3. Receivers(q) = queued[q] + returned[q] + Cardinality(T) + c
    BY <2>1, <2>2 DEF Receivers, Taken
  <2>4. queued[q] \in Nat /\ returned[q] \in Nat /\ c \in {0, 1} /\ (Chosen(q) <=> c = 1)
    BY <1>1, <2>2 DEF TimeInv, TypeOK, Chosen
  <2>5. CASE T = {}
    <3>1. Cardinality(T) = 0
      BY <2>5, FS_EmptySet
    <3>2. Receivers(q) <= IF q \in dispatching THEN 1 ELSE 0
      BY <1>1, <2>3, <2>4, <3>1 DEF TimeInv, OneHand
    <3>3. q \in dispatching /\ ~error => queued[q] + returned[q] = 1 \/ Chosen(q)
      BY <1>1, <2>1, <2>5 DEF TimeInv, NoIdleDispatch
    <3>4. q \in dispatching /\ ~error => Receivers(q) = 1
      BY <1>1, <2>3, <2>4, <3>1, <3>3 DEF TimeInv, OneHand
    <3> QED
      BY <3>2, <3>4
  <2>6. CASE T # {}
    <3>1. PICK i \in Item : i \in T /\ home[i] = q /\ status[i] \in Taken
      BY <2>1, <2>6
    <3>2. T = {i}
      BY <1>1, <2>1, <3>1 DEF TimeInv, OneHand
    <3>3. Cardinality(T) = 1
      BY <3>2, FS_Singleton
    <3>4. q \in dispatching /\ ~Chosen(q) /\ queued[q] = 0 /\ returned[q] = 0
      BY <1>1, <3>1 DEF TimeInv, OneHand
    <3> QED
      BY <2>3, <2>4, <3>3, <3>4
  <2> QED
    BY <2>5, <2>6
<1> QED
  BY <1>1, TimeSourceCorrect, PTL

\* pending_ of a queue says whether it is in the worker's list, where it is at most once
\* and not while it is dispatched; a queue with items is in one of the two places.
THEOREM PendingCorrect == Spec => []PendingConsistent
<1>1. TimeInv => PendingConsistent
  BY DEF TimeInv
<1> QED
  BY <1>1, TimeSourceCorrect, PTL

\* Unless it has been told to look again, the worker wakes up no later than the first item
\* of every queue in its list.
THEOREM WakesInTimeCorrect == Spec => []WakesInTime
<1>1. ASSUME TimeInv PROVE WakesInTime
  <2> SUFFICES ASSUME NEW q \in inPending, ~dirty, Heap(q) # {} PROVE earliest <= Top(q)
    BY DEF WakesInTime
  <2>1. PICK S : S = {when[i] : i \in Heap(q)}
    OBVIOUS
  <2>2. S \subseteq Nat /\ S # {} /\ \A x \in S : earliest <= x
    <3>1. PICK i : i \in Heap(q)
      OBVIOUS
    <3>2. \A j \in Heap(q) : when[j] \in Time /\ earliest <= when[j]
      BY <1>1 DEF Heap, TimeInv, TypeOK, InTime
    <3>3. Time \subseteq Nat
      BY TimeAssumption DEF Time
    <3> QED
      BY <2>1, <3>1, <3>2, <3>3
  <2>3. Min(S) \in S
    BY <2>2, MinOf
  <2> QED
    BY <2>1, <2>2, <2>3 DEF Top
<1> QED
  BY <1>1, TimeSourceCorrect, PTL

\* When the worker has left its loop nothing is queued and, unless an executor calls
\* error(), no item is still being completed.
THEOREM JoinedQuiescentCorrect == Spec => []JoinedQuiescent
<1>1. ASSUME TimeInv PROVE JoinedQuiescent
  <2>1. joined => items = 0
    BY <1>1 DEF TimeInv, Endings
  <2> QED
    BY <1>1, <2>1, NothingCompletes DEF JoinedQuiescent
<1> QED
  BY <1>1, TimeSourceCorrect, PTL
=============================================================================
