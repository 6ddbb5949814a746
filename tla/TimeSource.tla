----------------------------- MODULE TimeSource -----------------------------
(***************************************************************************)
(* pushmi::time_source (include/pushmi/time_source.h): timers.  One worker  *)
(* thread sleeps until the earliest item of any queue is due and then       *)
(* dispatches that queue: it submits a receiver to the queue's executor,    *)
(* which drains the due items in value() and hands the queue back to the    *)
(* worker in done().  dispatching_ and pending_ say who has the queue.      *)
(*                                                                         *)
(* One action per critical section of lock_.  All notifications are sent    *)
(* under lock_, so the wait of the worker is enabled exactly when its       *)
(* predicate holds.  dirty_ is only compared with zero and is a Boolean.    *)
(* The executor is external: it calls value() then done(), or error(), on   *)
(* every receiver it accepts; accepting one may throw (no thread).          *)
(***************************************************************************)
EXTENDS Integers, Sequences, FiniteSets, FiniteSetsExt, SequencesExt

CONSTANTS Item,       \* receivers submitted to time executors
          Queue,      \* time_source_queue objects, one for each time executor
          MaxTime,    \* bound on the clock and on the times asked for
          Slack,      \* the 50ms that value() looks ahead
          Exec        \* the kinds of executor a queue is made with: a "refusing"
                      \* one may throw in submit(), a "failing" one may call
                      \* error() on a receiver it has accepted

ASSUME TimeAssumption ==
  /\ MaxTime \in Nat /\ Slack \in Nat
  /\ Exec \subseteq {"reliable", "refusing", "failing"}
  /\ IsFiniteSet(Item)

Time == 0..MaxTime
Far == MaxTime + 1      \* 24 hours from now

VARIABLES
  now,          \* the clock
  status,       \* [Item -> Status]
  when,         \* [Item -> Time], time_heap_item::when
  home,         \* [Item -> Queue], the queue an item was inserted into
  ex,           \* [Queue -> Exec], the executor ex_ of a queue
  dispatching,  \* queues with dispatching_ set
  inPending,    \* queues with pending_ set
  pending,      \* time_source_shared::pending_, a deque of queues
  earliest,     \* earliest_
  dirty,        \* dirty_ # 0
  items,        \* items_
  done,         \* done_
  joined,       \* joined_
  error,        \* error_ has a value
  worker,       \* where the worker thread is
  ready,        \* the queues of ready_ not dispatched yet; in the handler of the
                \* worker, the queues of pending_ not visited yet
  queued,       \* [Queue -> Nat], receivers waiting for the executor
  returned,     \* [Queue -> Nat], receivers whose done() is due
  start,        \* [Queue -> Nat], the local variable of value()
  join,         \* where the caller of join() is
  terminated    \* std::terminate() has been called

itemVars == <<status, when>>
queueVars == <<dispatching, inPending, pending>>
workerVars == <<earliest, joined, error, worker, ready>>
receiverVars == <<queued, returned, start>>
vars == <<home, ex, itemVars, queueVars, workerVars, receiverVars, now, dirty, items, done, join,
          terminated>>

\* "queued": in heap_; "popped", "value": held by value(); the "failing" ones are
\* being sent an error by value(), by error(), or by the worker's handler.
Status == {"new", "queued", "popped", "value", "done", "failing_value",
           "failing_error", "failing_worker", "error"}

\* No queue has an executor of that kind.
Never(kind) == \A q \in Queue : ex[q] # kind

Heap(q) == {i \in Item : status[i] = "queued" /\ home[i] = q}
Top(q) == Min({when[i] : i \in Heap(q)})
TopItems(q) == {i \in Heap(q) : when[i] = Top(q)}

-----------------------------------------------------------------------------
\* make() and make_strand(): with an executor or its provider, all the time executors of
\* the factory share one queue; with a strand factory each gets a queue of its own, on a
\* strand of its own.  An item goes to the queue of the time executor it is submitted to.
MadeQueues ==
  /\ home \in [Item -> Queue]
  /\ ex \in [Queue -> Exec]

Init ==
  /\ MadeQueues
  /\ now = 0
  /\ status = [i \in Item |-> "new"]
  /\ when = [i \in Item |-> 0]
  /\ dispatching = {} /\ inPending = {} /\ pending = <<>>
  /\ earliest = Far
  /\ dirty = FALSE /\ done = FALSE /\ joined = FALSE /\ error = FALSE
  /\ items = 0
  /\ worker = "dispatch" /\ ready = {}
  /\ queued = [q \in Queue |-> 0]
  /\ returned = [q \in Queue |-> 0]
  /\ start = [q \in Queue |-> 0]
  /\ join = "no"
  /\ terminated = FALSE

Tick ==
  /\ now < MaxTime
  /\ now' = now + 1
  /\ UNCHANGED <<itemVars, queueVars, workerVars, receiverVars, dirty, items, done, join,
                 terminated>>

-----------------------------------------------------------------------------
\* "once join() is called, new work queued to the executor is not safe unless it
\* is nested in an existing item": the caller keeps to that.
Completing == {i \in Item : status[i] \in {"value", "failing_value", "failing_error",
                                           "failing_worker"}}
MayInsert == ~done \/ Completing # {}

\* Mutant: a dispatched queue counts as forgotten.
UnlistedOrDispatched(q) == q \notin inPending

\* !queue->dispatching_ && !queue->pending_
Unlisted(q) == q \notin dispatching \cup inPending

\* Mutant: the comparison with earliest_ is the wrong way round.
LaterThanEarliest(q, w) == Min({w} \cup {when[i] : i \in Heap(q)}) > earliest

\* queue->heap_.top().when < this->earliest_, after an item due at w was pushed
BeforeEarliest(q, w) == Min({w} \cup {when[i] : i \in Heap(q)}) < earliest

\* time_source_shared::insert, for an item due at w.
Insert(i, w) ==
  LET q == home[i] IN
  /\ status[i] = "new" /\ MayInsert
  /\ when' = [when EXCEPT ![i] = w]
  /\ \/ /\ error
        /\ status' = [status EXCEPT ![i] = "error"]
        /\ UNCHANGED <<pending, inPending, dirty, items, terminated>>
     \/ /\ ~error /\ joined
        /\ terminated' = TRUE
        /\ UNCHANGED <<status, pending, inPending, dirty, items>>
     \/ /\ ~error /\ ~joined
        /\ status' = [status EXCEPT ![i] = "queued"]
        /\ items' = items + 1
        /\ IF Unlisted(q)
           THEN pending' = Append(pending, q) /\ inPending' = inPending \cup {q}
           ELSE UNCHANGED <<pending, inPending>>
        /\ dirty' = (dirty \/ BeforeEarliest(q, w))
        /\ UNCHANGED terminated
  /\ UNCHANGED <<workerVars, receiverVars, dispatching, now, done, join>>

\* Mutant: join() does not tell the worker.
JoinQuiet ==
  /\ join = "no"
  /\ join' = "joining" /\ done' = TRUE
  /\ UNCHANGED <<itemVars, queueVars, workerVars, receiverVars, now, items, dirty, terminated>>

\* join(): ask the worker to finish, then wait for the thread.
Join ==
  /\ join = "no"
  /\ join' = "joining" /\ done' = TRUE /\ dirty' = TRUE
  /\ UNCHANGED <<itemVars, queueVars, workerVars, receiverVars, now, items, terminated>>

JoinReturns ==
  /\ join = "joining" /\ worker = "exited"
  /\ join' = "returned"
  /\ UNCHANGED <<itemVars, queueVars, workerVars, receiverVars, now, dirty, items, done,
                 terminated>>

-----------------------------------------------------------------------------
\* std::partition(), and erase() of what it moved to the end: the elements of s that are in
\* S remain, in any order.
Partition(s, S) ==
  LET at == {k \in DOMAIN s : s[k] \in S}
      n == Cardinality(at)
  IN  {[k \in 1..n |-> s[f[k]]] : f \in Bijection(1..n, at)}

\* The queues in the list whose first item is due, and the others that have items.
Due == {q \in ToSet(pending) : q \notin dispatching /\ Heap(q) # {} /\ Top(q) <= now}
Kept == {q \in ToSet(pending) : q \notin Due /\ Heap(q) # {}}

\* The worker wakes up: select the queues with due items for dispatch, forget
\* the empty ones, and find the earliest item of the others.
Select ==
  /\ worker = "wait" /\ (dirty \/ now >= earliest)
  /\ dirty' = FALSE
  /\ dispatching' = (dispatching \ ToSet(pending)) \cup Due
  /\ inPending' = (inPending \ ToSet(pending)) \cup Kept
  /\ pending' \in Partition(pending, Kept)
  /\ earliest' = Min({Far} \cup {Top(q) : q \in Kept})
  /\ ready' = Due
  /\ worker' = "dispatch"
  /\ UNCHANGED <<itemVars, receiverVars, now, items, done, joined, error, join, terminated>>

\* q->dispatch(): submit a receiver to the executor of the queue.
Dispatch(q) ==
  /\ worker = "dispatch" /\ q \in ready
  /\ ready' = ready \ {q}
  /\ queued' = [queued EXCEPT ![q] = @ + 1]
  /\ UNCHANGED <<itemVars, queueVars, earliest, joined, error, worker, returned, start,
                 now, dirty, items, done, join, terminated>>

\* Mutant: the worker leaves as soon as join() is called.
LeavesAtOnce == done

\* The negation of the loop condition: "once done_, keep going until empty".
AllDone == done /\ items = 0

\* All queues are dispatched; the lock is held again and the loop starts over.
EndOfTurn ==
  /\ worker = "dispatch" /\ ready = {}
  /\ worker' = IF AllDone THEN "exited" ELSE "wait"
  /\ joined' = AllDone
  /\ UNCHANGED <<itemVars, queueVars, receiverVars, earliest, error, ready, now, dirty,
                 items, done, join, terminated>>

\* dispatch() throws: the handler of the worker sets error_ and goes through
\* pending_, whose end it looked up before it releases the lock.
DispatchThrows ==
  /\ worker = "dispatch"
  /\ \E q \in ready : ex[q] = "refusing"
  /\ error' = TRUE
  /\ ready' = ToSet(pending)
  /\ worker' = "handler"
  /\ UNCHANGED <<itemVars, queueVars, receiverVars, earliest, joined, now, dirty, items,
                 done, join, terminated>>

\* The queue of pending_ that the loop of the handler is at.
Visiting == Head(SelectSeq(pending, LAMBDA p : p \in ready))

\* The handler takes the next item of the queue it is visiting, or moves on.
HandlerPop ==
  /\ worker = "handler" /\ ready # {}
  /\ \A i \in Item : status[i] # "failing_worker"
  /\ LET q == Visiting IN
     IF Heap(q) = {}
     THEN ready' = ready \ {q} /\ UNCHANGED <<status, items>>
     ELSE /\ \E i \in TopItems(q) : status' = [status EXCEPT ![i] = "failing_worker"]
          /\ items' = items - 1
          /\ UNCHANGED ready
  /\ UNCHANGED <<queueVars, receiverVars, when, earliest, joined, error, worker, now,
                 dirty, done, join, terminated>>

HandlerEnds ==
  /\ worker = "handler" /\ ready = {}
  /\ worker' = "exited"
  /\ UNCHANGED <<itemVars, queueVars, receiverVars, earliest, joined, error, ready, now,
                 dirty, items, done, join, terminated>>

-----------------------------------------------------------------------------
\* The guard of value(), error() and done(): else std::terminate().
Mine(q) == q \in dispatching /\ q \notin inPending

\* "if this is empty, tell worker to check for the done condition"
TellEmpty(heap) == heap = {}

\* What value() does when it has no due item left: tell the worker if the queue
\* is empty, else, after an error of the worker, start to fail what is left.
LeaveValue(q, st, count) ==
  LET failing == Heap(q) # {} /\ error IN
  /\ dirty' = (dirty \/ TellEmpty(Heap(q)))
  /\ returned' = IF failing THEN returned ELSE [returned EXCEPT ![q] = @ + 1]
  /\ items' = IF failing THEN count - 1 ELSE count
  /\ IF failing
     THEN \E i \in TopItems(q) : status' = [st EXCEPT ![i] = "failing_value"]
     ELSE status' = st

\* time_source_queue::value up to the first unlock.
Value(q) ==
  /\ queued[q] > 0
  /\ queued' = [queued EXCEPT ![q] = @ - 1]
  /\ start' = [start EXCEPT ![q] = now + Slack]
  /\ terminated' = ~Mine(q)
  /\ \/ /\ ~Mine(q)
        /\ UNCHANGED <<status, returned, dirty, items>>
     \/ /\ Mine(q) /\ Heap(q) = {}
        /\ returned' = [returned EXCEPT ![q] = @ + 1]
        /\ UNCHANGED <<status, dirty, items>>
     \/ /\ Mine(q) /\ Heap(q) # {} /\ Top(q) <= now + Slack
        /\ \E i \in TopItems(q) : status' = [status EXCEPT ![i] = "popped"]
        /\ UNCHANGED <<returned, dirty, items>>
     \/ /\ Mine(q) /\ Heap(q) # {} /\ Top(q) > now + Slack
        /\ LeaveValue(q, status, items)
  /\ UNCHANGED <<queueVars, workerVars, when, now, done, join>>

\* sleep_until(item.when); set_value(item.what, ...), without the lock.
RunItem(i) ==
  /\ status[i] = "popped" /\ now >= when[i]
  /\ status' = [status EXCEPT ![i] = "value"]
  /\ UNCHANGED <<queueVars, workerVars, receiverVars, when, now, dirty, items, done,
                 join, terminated>>

\* set_done(item.what), guard.lock(), --items_ and the next turn of the loop.
NextItem(i) ==
  LET q == home[i]
      st == [status EXCEPT ![i] = "done"]
  IN
  /\ status[i] = "value"
  /\ IF Heap(q) # {} /\ Top(q) <= start[q]
     THEN /\ \E j \in TopItems(q) : status' = [st EXCEPT ![j] = "popped"]
          /\ items' = items - 1
          /\ UNCHANGED <<dirty, returned>>
     ELSE LeaveValue(q, st, items - 1)
  /\ UNCHANGED <<queueVars, workerVars, when, queued, start, now, done, join,
                 terminated>>

\* Mutant: done() clears dispatching_ and does not put the queue back.
HandBackForgets(q) == dispatching' = dispatching \ {q} /\ UNCHANGED <<pending, inPending>>

\* dispatching_ = false, and back into the list of the worker.
HandBack(q) ==
  /\ dispatching' = dispatching \ {q}
  /\ pending' = Append(pending, q)
  /\ inPending' = inPending \cup {q}

\* Mutant: done() does not tell the worker about the items that are left.
TellNever(q) == dirty' = dirty

\* heap_.top() is read even when the heap is empty; what it reads is undefined.
TellTop(q) ==
  IF Heap(q) = {} THEN dirty' \in {dirty, TRUE} ELSE dirty' = (dirty \/ Top(q) <= earliest)

\* time_source_queue::done: hand the queue back.
Done(q) ==
  /\ returned[q] > 0
  /\ returned' = [returned EXCEPT ![q] = @ - 1]
  /\ terminated' = ~Mine(q)
  /\ IF Mine(q) THEN HandBack(q) /\ TellTop(q) ELSE UNCHANGED <<queueVars, dirty>>
  /\ UNCHANGED <<itemVars, workerVars, queued, start, now, items, done, join>>

\* time_source_queue::error up to the first unlock: fail every item.
Error(q) ==
  /\ ex[q] = "failing"
  /\ queued[q] > 0
  /\ queued' = [queued EXCEPT ![q] = @ - 1]
  /\ terminated' = ~Mine(q)
  /\ \/ /\ ~Mine(q)
        /\ UNCHANGED <<status, items, dispatching>>
     \/ /\ Mine(q) /\ Heap(q) = {}
        /\ dispatching' = dispatching \ {q}
        /\ UNCHANGED <<status, items>>
     \/ /\ Mine(q) /\ Heap(q) # {}
        /\ \E i \in TopItems(q) : status' = [status EXCEPT ![i] = "failing_error"]
        /\ items' = items - 1
        /\ UNCHANGED dispatching
  /\ UNCHANGED <<workerVars, when, inPending, pending, returned, start, now, dirty,
                 done, join>>

\* --items_ for the next item of the loop, if there is one.
CountNext(more) == IF more THEN items - 1 ELSE items

\* set_error(what, ...) without the lock, guard.lock() and the next turn of the
\* loop that failed the item: the one in value(), in error() or in the worker.
FailItem(i) ==
  LET q == home[i]
      st == [status EXCEPT ![i] = "error"]
      more == status[i] # "failing_worker" /\ Heap(q) # {}
  IN
  /\ status[i] \in {"failing_value", "failing_error", "failing_worker"}
  /\ IF more THEN \E j \in TopItems(q) : status' = [st EXCEPT ![j] = status[i]]
             ELSE status' = st
  /\ items' = CountNext(more)
  /\ returned' = IF status[i] = "failing_value" /\ ~more
                 THEN [returned EXCEPT ![q] = @ + 1] ELSE returned
  /\ dispatching' = IF status[i] = "failing_error" /\ ~more
                    THEN dispatching \ {q} ELSE dispatching
  /\ UNCHANGED <<workerVars, when, inPending, pending, queued, start, now, dirty, done,
                 join, terminated>>

-----------------------------------------------------------------------------
Worker == Select \/ (\E q \in Queue : Dispatch(q)) \/ EndOfTurn \/ DispatchThrows
          \/ HandlerPop \/ HandlerEnds
Executor(q) == Value(q) \/ Error(q) \/ Done(q)
ItemStep(i) == RunItem(i) \/ NextItem(i) \/ FailItem(i)

\* The worker has nothing to do for 24 hours, although join() waits for it; this
\* can happen only after an executor has called error().
Asleep == /\ join = "joining" /\ worker = "wait" /\ ~dirty /\ earliest = Far
          /\ ~Never("failing")

\* The process has ended, or join() has returned or sleeps and nothing is left to do.
Finished == /\ \/ terminated
               \/ /\ join = "returned" \/ Asleep
                  /\ now = MaxTime
                  /\ \A i \in Item : status[i] \in {"new", "done", "error", "queued"}
                  /\ \A q \in Queue : queued[q] = 0 /\ returned[q] = 0
            /\ UNCHANGED vars

Step(A) == ~terminated /\ A /\ UNCHANGED <<home, ex>>

Next == \/ Step(Tick) \/ Step(Join) \/ Step(JoinReturns) \/ Step(Worker)
        \/ \E q \in Queue : Step(Executor(q))
        \/ \E i \in Item : Step(ItemStep(i)) \/ \E w \in Time : Step(Insert(i, w))
        \/ Finished

\* Time passes, the threads run, the executor runs what it accepted and the
\* bodies of items return.  Nobody has to insert an item or to call join().
Fairness ==
  /\ WF_vars(Step(Tick)) /\ WF_vars(Step(Worker)) /\ WF_vars(Step(JoinReturns))
  /\ \A q \in Queue : WF_vars(Step(Executor(q)))
  /\ \A i \in Item : WF_vars(Step(ItemStep(i)))

Spec == Init /\ [][Next]_vars
FairSpec == Spec /\ Fairness

-----------------------------------------------------------------------------
TypeOK ==
  /\ now \in Time
  /\ status \in [Item -> Status]
  /\ when \in [Item -> Time]
  /\ home \in [Item -> Queue] /\ ex \in [Queue -> Exec]
  /\ dispatching \in SUBSET Queue /\ inPending \in SUBSET Queue
  /\ pending \in Seq(Queue)
  /\ earliest \in Time \cup {Far}
  /\ dirty \in BOOLEAN /\ done \in BOOLEAN /\ joined \in BOOLEAN /\ error \in BOOLEAN
  /\ terminated \in BOOLEAN
  /\ items \in Nat
  /\ worker \in {"wait", "dispatch", "handler", "exited"}
  /\ ready \in SUBSET Queue
  /\ queued \in [Queue -> Nat] /\ returned \in [Queue -> Nat]
  /\ start \in [Queue -> 0..(MaxTime + Slack)]
  /\ join \in {"no", "joining", "returned"}

\* The receivers dispatched for a queue that have not finished, the one that
\* the worker is about to dispatch included.
Receivers(q) ==
  queued[q] + returned[q]
  + Cardinality({i \in Item : home[i] = q /\ status[i] \in
                   {"popped", "value", "failing_value", "failing_error"}})
  + (IF worker = "dispatch" /\ q \in ready THEN 1 ELSE 0)

\* No step of the protocol between worker, executor and callers reaches one of
\* the std::terminate() calls, unless an executor calls error(): a receiver always
\* finds its queue dispatching and not pending, and an item nested in another
\* never arrives after joined_.
NoTerminate == Never("failing") => ~terminated

\* "new work queued to the executor is not safe unless it is nested in an existing
\* item": since callers keep to that, insert() does not terminate the process.
NestedIsSafe == ~terminated

\* A queue is dispatched at most once at a time, so that its items run one by
\* one, and dispatching_ says exactly when (but for the queues that the worker
\* gives up when dispatch() throws).
ExclusiveDispatch ==
  \A q \in Queue : /\ Receivers(q) <= IF q \in dispatching THEN 1 ELSE 0
                   /\ q \in dispatching /\ ~error => Receivers(q) = 1

\* pending_ of a queue says exactly whether the queue is in the list of the
\* worker, where it is at most once and never while it is dispatched; a queue
\* with items is in the list or dispatched, so that nobody can forget it.
PendingConsistent ==
  /\ IsInjective(pending) /\ ToSet(pending) = inPending
  /\ inPending \cap dispatching = {}
  /\ \A q \in Queue : Heap(q) # {} => q \in inPending \cup dispatching

\* The worker never oversleeps: unless it has been told to look again, it wakes
\* up no later than the first item of every queue in its list.
WakesInTime ==
  \A q \in inPending : dirty \/ Heap(q) = {} \/ earliest <= Top(q)

\* "if this is empty, tell worker to check for the done condition": the worker does not
\* sleep on when join() is waiting and the last item has completed.
EmptyAlwaysTold == worker = "wait" /\ done /\ items = 0 => dirty

\* When the worker has left its loop, nothing is queued and, unless an executor
\* calls error(), no item is still being completed: the time_source can be
\* destroyed, and no item nested in another one can come too late.
JoinedQuiescent ==
  joined => /\ items = 0
            /\ Never("failing") => \A i \in Item : status[i] \in {"new", "done", "error"}

\* Every item is run at its time or sent an error, also when the executor fails
\* some of the dispatched receivers, unless the process ends; executors that
\* refuse a receiver are left out.
ItemsComplete ==
  \A i \in Item : Never("refusing") /\ status[i] = "queued"
                    ~> (status[i] \in {"done", "error"} \/ terminated)

\* join() returns: the worker notices that the last item has completed.
JoinCompletes ==
  Never("failing") /\ Never("refusing") /\ join = "joining" ~> join = "returned"

\* "also dispatch errors to all items already in the queues from the time
\* thread": once the worker has failed, no item stays in a queue.
HandlerReachesAll ==
  \A i \in Item : worker = "handler" /\ status[i] = "queued" ~> status[i] \in {"done", "error"}

\* "a new time ordered queue": while a queue sleeps until its next item is due,
\* no item of the queue that is due earlier is waiting.
TimeOrdered ==
  \A i \in Item : status[i] = "popped" /\ now < when[i] =>
    \A j \in Heap(home[i]) : when[i] <= when[j]
=============================================================================
