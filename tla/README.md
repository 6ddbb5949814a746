# A verification project for pushmi

pushmi is a header-only C++ library of *senders*, *receivers* and *executors*.
A sender delivers `value`, `error` and `done` signals to a receiver that is
submitted to it; an executor is a factory of senders that say on which thread a
receiver runs; a *flow* adds a `starting` signal through which the consumer asks
for values and cancels. Much of the headers is compile-time plumbing. The run-time
core, where the library can go wrong in ways a test hardly reaches, is a handful
of protocols: a lock without shared storage, a blocking wait that counts nested
work, queueing executors, a multicast, a trampoline, flows with demand and
cancellation, type-erased wrappers that are moved around, and the contract between
senders and receivers that everything else relies on. This directory models those
protocols in TLA+, checks them with TLC on small instances and proves what it can
with TLAPS.

Paths are relative to `src/include/pushmi/` unless they start with `examples/` or
`test/`.

## 1. Inventory

| Component | State | Operations | What makes it correct | Module |
|---|---|---|---|---|
| entangled pair (`entangle.h`) | per object: `stateMachine` (atomic), `dual` pointer, `t` | `tryLockBoth`, `lockBoth`, `unlockBoth`, move constructor, destructor, `lock_both` | the pair is locked by one side at a time, wherever the objects have been moved; pointers never dangle; a race is always decided | Entangle |
| shared pair (`entangle.h`) | an allocation with the pair and a mutex, shared pointers | `shared_entangle`, `lock_both`, destruction | the allocation outlives every guard | SharedEntangle |
| blocking submit (`o/submit.h`) | `lock_state`: `done`, `nested`, mutex, condition variable, on the caller's stack | `blocking_submit`, nested executor / task / receiver | returns neither before nor long after the last nested task | BlockingSubmit |
| strand (`strand.h`) | `items_`, `remaining_`, mutex | `submit`; `value`, `error`, `done` of the worker | one item at a time, in order, every item completes | Strand |
| time source (`time_source.h`) | heap and flags per queue; list of queues, `earliest_`, `dirty_`, `items_`, `done_`, `joined_`, `error_`; one worker thread | `insert`, `join`, `worker`; `value`, `error`, `done` of a dispatched queue | items run in time order at their time; every item completes; `join` returns when all have; `terminate` is not reached | TimeSource |
| subject, share (`subject.h`, `o/share.h`) | list of receivers, value/error/done seen, mutex | `submit`, `value`, `error`, `done` | every subscriber is told once, early or late | Subject |
| trampoline, new_thread, inline executors | per thread: owner, depth, deferred work | `submit` (own, delegate, nest) | deferred work runs exactly once, on its thread, before the owner leaves; the depth is bounded | Trampoline |
| receivers (`receiver.h`), completion calls (`extension_points.h`) | `done_` | `value`, `error`, `done` | at most one terminal signal; an exception becomes an error | Receiver, ReceiverContract |
| flow receivers (`flow_receiver.h`) | `started_`, `done_` | `starting`, `value`, `error`, `done` | `starting` comes once and first | FlowReceiver |
| flows (`o/from.h`, `o/for_each.h`, `o/via.h`, `o/on.h`) | iterator, `stop`, jobs on an executor, items of via's strand | request, cancel, the loop of a request, forwarding | as many values as requested, in order; every flow completes | Flow |
| operators on values (`o/transform.h`, `filter`, `tap`, `switch_on_error`, `just`, `error`, `empty`, `defer`, `get`) | a receiver per operator | the calls that travel down the chain | no completion is lost or doubled when functions throw | Pipeline |
| type-erased wrappers (`receiver.h`, `flow_receiver.h`, `*_sender.h`, `executor.h`) | table, storage, flags | construction, move, assignment, destruction, calls, references | an object has one owner; a completed object is not called again | Erased |
| bulk, reduce, for_each (`examples/`) | accumulation, pending, exception count (atomics) | loop task, one task per index, inline target | the result is made from all calls and comes once | Bulk, Reduction |
| concepts, traits, properties, generated single header | none at run time | — | — | — |

How they interact: a strand and a time source are executors *on top of* an
executor: they submit their own receivers to it and are called back through
`value`, `error` and `done` on its threads. `pushmi::set_value`, `set_done` and
`set_starting` (`extension_points.h:256-312`) are `noexcept`: an exception in a
receiver becomes `error` on the same receiver, so the body of an item never throws
into an executor; what can throw is the submission to an executor (for instance
when `new_thread` gets no thread). `blocking_submit` wraps the executor it is
delivered, so that it can count what is submitted through it; `via` and `on` move
signals to a strand and rely on it for the order of `starting`, values and `done`.

What is hard: threads that meet between a test and a wait (`o/submit.h`), between
an unlock and a lock (`strand.h`, `time_source.h` run every item without the
lock), under a lock that is held while foreign code is called (`subject.h`), or at
a move or destruction (`entangle.h`, the wrappers); code that is re-entered from the
functions it calls (the loop of a request, the trampoline); counters changed by
different threads and at their limits; executors that refuse or fail work half
way; the end of a time source, where `join`, the last item and items nested in it
race. `PROJECT.json` lists these hazards with their lines and the properties about
them.

## 2. Modules

Each component module has its state as VARIABLES, one action per critical section
or atomic step, and its properties at the end. `MC*.tla` and `*.cfg` give the
constants values; `*Proofs.tla` holds the theorems. Definitions that a comment
calls a *mutant* are deliberately wrong variants of the definition that follows
them; no specification uses them. Substituting one for the definition makes the
property it was written for fail, which shows that the property depends on that
piece of code.

**Receiver, FlowReceiver, ReceiverContract.** `Receiver` has no state: it defines what
a call does to one receiver, a record of the `done_` flag, the number of values its
function took and the completion it got. `set_value`, `set_error` and `set_done` add what
`extension_points.h` does with an exception. `FlowReceiver` adds `started_` and the calls
of `std::terminate`. `ReceiverContract` is the abstract specification, values first,
then at most one completion, for a set of receivers. Subject and Pipeline each
instantiate it with a refinement mapping (`Contract == INSTANCE ReceiverContract WITH
...`) and have `ContractKept == Contract!Spec` as a property: the receivers, or the bare
functions, that the user gave are treated so, whatever upstream does.

**Entangle** (`entangle.h`). Threads 1 and 2 each own one side of the pair, which
is the stated API constraint. Every atomic operation, and every read or write
that the other side could observe, is an action; `pc` is the line a thread is at.
`Begin` starts a `lock_both`, a move (the new object gets any free address) or a
destruction; `LockLocal`, `ReadDual`, `LockDual`, `Compare`, `AwaitAck`, `Settle`
and `Acknowledge` are `tryLockBoth()`; the `Move*` actions, `Disown` and `EndUse`
are the critical sections; `UnlockLocal` and `UnlockDual` are `unlockBoth()`.
Addresses are numbers, because the race is decided by address order, and they
are reused after destruction.

**SharedEntangle** (`entangle.h`). The other form of the pair, with a mutex in a shared
allocation. `lock_both` moves the shared pointer into the guard; unlocking and
releasing the pointer are two steps, in the order of the guard's destructor. A side
may call `lock_both` again although its pointer is gone (`again`).

**BlockingSubmit** (`o/submit.h`). The caller (`main`), the sender that was
submitted (`Outer`) and the tasks of `Nested`, each of which may submit others from
its body. `++nested`, `--nested` and the notifications are separate steps, as in
the code. `SpuriousWakeup` is the freedom of `std::condition_variable`. A task whose
submission throws stays counted and never runs (`lost`).

**Strand** (`strand.h`). Items go through `items`; workers are counted (`sending`,
`queued`, `returned`, `failed`) since they are indistinguishable. An action
runs from one unlock to the next: `Value` is `value()` up to the point where the
first item leaves the lock, `RunItem` is `set_value`, `NextItem` is `set_done` and
the next turn of the loop (`Take`). `remaining_` is a `size_t`, with arithmetic modulo
`Modulus`.

**TimeSource** (`time_source.h`). The worker thread (`Select`, `Dispatch`,
`EndOfTurn`, and its exception handler `DispatchThrows`, `HandlerPop`, `HandlerEnds`),
the receiver of a dispatched queue (`Value`, `RunItem`, `NextItem`, `Done`, `Error`,
`FailItem`), and the callers (`Insert`, `Join`, `JoinReturns`). One action per critical
section of `lock_`. Each queue has an executor that is reliable, may refuse a
receiver by throwing, or may accept it and call `error()`. Callers keep to the rule
in the source: after `join()` only items nested in one that is being completed are
inserted.

**Subject** (`subject.h`, `o/share.h`). Producers call `value`, `error` and `done` from
threads of their own and subscribers submit from others. `submit()` is one critical
section; the loops of the three signals are a step per receiver (`Begin`, `Deliver`,
`Finish`), because the mutex is held while receivers are called and one of them may
come back to the subject (`SubmitNested`), which stops its thread.

**Trampoline** (`trampoline.h`, `new_thread.h`, `inline.h`). Per thread the stack of
`submit()` calls that have not returned, the depth and the deferred tasks. A task may
submit others through any of the executors, may throw, and a submission may be refused
(allocation, starting a thread). `Drain` and `NestReturns` are the loop that runs what was
deferred.

**Flow** (`o/from.h`, `o/for_each.h`, `o/via.h`, `o/on.h`). A source over a range, the
consumer, and between them perhaps `on` and `via`. All work of the source is jobs on
one executor: a strand, or a trampoline where a job submitted from a job runs inside
it up to a depth. The consumer asks for values and cancels from `starting`, from
`value` and from another thread (`OtherThread`), and its functions, `starting` included, may
throw. One submission may be refused at any point, and the exception is handled where the
code handles it: on `flow_from_up` itself for a request or a cancel, on `via`'s receiver for
a value or `done`, and on the never started `flow_receiver<>` inside `via` for `starting`
(`CallUp`, `PostFails`).

**Pipeline** (`o/*.h`, `extension_points.h`, `boosters.h`). A chain of operators between a
sender, which may be one of a user that goes on after its completion, and a promise,
a set of functions, `get`, `future_from` or a nullary function. The call that is
travelling down the chain is the state; every function may throw, which turns the call
into an error of the same receiver. A promise, and the receiver that `get` gives to
`blocking_submit`, are wrapped in another receiver, inside which their own exceptions are
handled: the flag of the wrapper stays unset (`CaughtInside`). The side effects of a tap are
a receiver with an error function; one without would end the process on an error
(`abortEF`) and is not modelled.

**Erased** (`receiver.h`, `flow_receiver.h`, the senders, `executor.h`). The nine
`any_*` classes and the executor references are one design, so `class` is a variable
and the actions are written once: construction in place or on the heap, which may
throw, move construction, assignment (destroy and construct again, also to itself),
destruction and the calls.

**Bulk, Reduction** (`examples/bulk.h`, `reduce.h`, `for_each.h`, `reduce/`,
`for_each/`, `pool.h`). `Bulk` has the target that submits a task for every index to a
pool and the one that loops in place: every atomic operation of a task is a step. The
accumulated value is the set of indices in it. `Reduction` says what the operation
promises; `Abstract` in Bulk is the refinement mapping.

**MCEntangle** and **MCTrampoline** are sums: a variable chosen in the initial state
says whether a behaviour is one of Entangle or of SharedEntangle, and of Trampoline or
of Bulk. The two parts do not interact.

Abstractions, and why they are harmless:

* Atomic operations are sequentially consistent. `entangle.h` uses `relaxed` for the
  acknowledgement and its spin; the model does not cover weaker orders.
* In TimeSource all notifications happen under the mutex, so the wait of the worker
  is one action that is enabled when its predicate holds. In BlockingSubmit, where
  they do not, lock, test, block and wake up are separate.
* `dirty_` is only compared with zero and is a Boolean; the 24 hours after which an
  idle worker wakes up are a time `Far` beyond the bound of the clock.
* `done()` of a time queue calls `heap_.top()` also when the heap is empty
  (`time_source.h:217`), which is undefined: the comparison is a nondeterministic
  choice. `std::partition` does not keep an order: any order may result. Items with
  equal times may run in any order (`std::priority_queue`), although the executor
  claims to be first-in first-out.
* The handler of the time worker iterates over a deque that `done()` may extend
  meanwhile; the model takes the outcome where the loop ends at the end it looked up.
* An executor under a strand or a time queue does not run work inside `submit()`.
* The strand under `on`, `via` and a flow source is taken at its word: items in order,
  one at a time. Where the strand itself falls short of that is the subject of the runs
  of Strand; composing the two would only repeat them.
* Values are numbers or not distinguished at all; errors are told apart by where they
  come from (`error`, `thrown`, and `null` for an exception pointer that was moved away).

## 3. Runs

| Run | Instance | Distinct states | Result |
|---|---|---|---|
| `entangle` | 4 addresses; 2 sides of a shared pair | 658,948 | holds |
| `blocking_submit` | 3 nested tasks, submission may throw | 25,733 | holds |
| `blocking_submit_lost` | 2 nested tasks | | violated |
| `strand` | 3 items, 3-bit counter, both kinds of executor | 6,838 | holds |
| `strand_stuck` | 3 items, reliable executor | | violated |
| `timesource` | 3 items, 2 queues, times 0..2, all kinds of executor | 1,333,441 (up to symmetry) | holds |
| `timesource_live` | 2 items, 2 queues, times 0..2, reliable and failing executors | 223,632 | holds |
| `subject` | 3 subscribers, 2 producers with 2 signals each, with and without nesting | 322,184 | holds |
| `trampoline` | 5 tasks, 2 threads, limit 1; a bulk operation over 3 indices | 47,497 | holds |
| `flow` | 5 values, requests up to 3, strand and trampolines of depth 1 to 3, one refused submission | 55,504 | holds |
| `pipeline` | all chains of up to 3 operators, senders with up to 3 signals | 1,550,574 | holds |
| `erased` | 3 places, 2 objects, 2 calls of each | 881,966 | holds |

*entangle.* `MutualExclusion`: two threads that have returned from `lockBoth()` have no
object in common. `NoDanglingDual`: no pointer to a destroyed object is followed, at
any of the places where a pointer read earlier is used again. `UsePairInSync`: what a
caller sees under the lock is a live object that points back. `ControlDataStable`: a
comment of the source ("once we hold our lock, no control data can change") as an
action property. `LockProgress`: somebody gets in; that one side may starve is admitted
by the source. Four addresses let both sides be moved at the same time, in either
address order, and let an address be reused while the other side still spins; a fifth
address adds no relation between two objects and two objects under construction.
`SharedStorageLives` and `SharedLockReturns` say of the shared pair that the mutex exists
while it is used and that `lock_both` returns, as long as no side calls it twice.

*blocking_submit.* `CountExact`, `NoEarlyReturn`, `QuiescenceStable`, and
`SenderLastReturns` for the one notification that is sent under the lock. Three tasks
allow a chain of three nested submissions and several from one task; the safety part
is also proved for any number of tasks.

*strand.* `QueueConsistent` on every executor; on a reliable one `NothingStranded` and
`ItemsCompleteUnlessWrapped`. Three items are a batch, an item that arrives while the
last of the batch runs, and one that arrives later; the modulus is larger than anything
the counter reaches without wrapping.

*timesource.* `ExclusiveDispatch` and `PendingConsistent` say who has a queue,
`WakesInTime` is the invariant behind the worker's sleep, `JoinedQuiescent` is about the
end, and `NoTerminate` says that the assertions of the code hold. `timesource_live` adds
that every item completes (unless the process ends as in 6 below) and `join()` returns.
Two queues are needed for one to be in the list while another is dispatched, three
items for two in one queue next to one in the other, and three instants (with a
look-ahead of one) for due, looked-ahead and later items.

*subject.* `NobodyForgotten`: when the subject is over and its lock free, nobody is
left in the list and nobody whose `submit()` returned is without a signal.
`EveryoneTold` is its liveness form; it admits the thread that waits for its own lock.
`ContractKept` for every subscriber, although two producers may both complete the
subject. Three subscribers are one early, one late and one nested; two producers with
two signals give value and done from one thread against error from another.

*trampoline.* `DepthExact`: the counter that bounds the recursion is the number of
delegated frames, whatever throws. `RunsOnce` and `TasksComplete`: deferred work is run
once, before the owner leaves. Five tasks and a limit of one are enough for a task in
place, one deferred by it, one nested in the deferred one, one submitted while the
queue is drained, and one on a second thread. `BulkReduces`: both bulk targets refine
`Reduction`, and a result comes; three tasks let one be overtaken by two others.

*flow.* `DemandRespected` (never more values than requested, with requests made from
inside the loop that serves one) and `RequestsServed` (when everything has come to rest, not
fewer either, unless the flow was stopped or completed), `EachOnceInOrder`, `NoTerminate`
(`starting` comes first and once, also through `via`, so the consumer's receiver never ends
the process; `via`'s does only when its strand refuses `starting`), and `FlowCompletes`:
`for_each` and every cancelled flow complete. It names the one completion that can be lost,
a `done` that `via`'s strand refuses, and the two ways the process may end instead. A
cancellation or a request that the executor refuses is no exception to it: `error()` of
`flow_from_up` submits the completion, for a cancellation a second time.
Five values with requests of up to three let a request end in the middle of the
range, another one be nested in it, and the range end inside either.

*pipeline.* `AllCompleted`: when `submit()` has returned, the end of the chain and every
tap have been completed. `PromiseOnce`: a promise gets one result even if functions
throw after it and the sender goes on. `ResultDefined` says when `get` reads a result
that is not there. `ContractKept` for the end and for the functions of every tap, except for
the end behind `blocking_submit`, which does not keep it (see below).
Three operators are all pairs of neighbours and something on either side of each.

*erased.* `OwnedOnce`: one instance and one owner for every object, through moves,
self-assignment and constructors that throw. `FlagsProtect`: only a move makes a wrapper
forget that it is done. `NothingSwallowed` is the other direction: a wrapper is done or
started only if the object it holds now was, so it keeps no signal from it, also after an
assignment over another object. Three places allow a move, an assignment over
another object, and a bystander.

### Disagreements between code and documentation

In two runs the property states what a comment or a test says and TLC finds a
behaviour of the code that breaks it:

1. `blocking_submit_lost`: nested receivers notify without the lock
   (`o/submit.h:153`, `:164`), so the wakeup can be lost and `blocking_submit` never
   return, although `test/NewThreadTest.cpp` expects "that all nested submissions
   complete".
2. `strand_stuck`: `--remaining_ >= 0` is always true for a `size_t`. If an item is queued
   while the last one of a batch runs, the counter wraps and later items are never
   run.

Five more have a configuration to run by hand:

3. `MCStrandOne.cfg` (`OneAtATime`): `remaining_` is already 0 while the last item runs
   (`strand.h:118`); a submission in that window starts a second worker. The source says
   "only allow one at a time".
4. `MCTimeSourceHandler.cfg` (`HandlerReachesAll`): when `dispatch()` throws, queues
   already taken out of `pending_` are forgotten with their items; the source says errors
   go "to all items already in the queues".
5. `MCTimeSourceOrder.cfg` (`TimeOrdered`): `value()` takes an item up to 50ms early and
   sleeps with it; an earlier item that arrives meanwhile is late. The test expects "time
   order not insertion order".
6. `MCTimeSourceNested.cfg` (`NestedIsSafe`): `error()` counts an item off before
   delivering the error; after `join()` an item nested in that delivery terminates the
   process.
7. `MCTimeSourceTold.cfg` (`EmptyAlwaysTold`): `error()` can empty the last queue without
   waking the worker, so a pending `join()` sleeps until the old deadline.

Observations that the properties state as exceptions, or that showed up while reading:

* A second `lock_both` of a `shared_entangled` locks a mutex that may be freed and
  never unlocks it (`entangle.h:306`).
* A late subscriber of a subject gets the kept value without the `done` that followed it
  (`subject.h:51`); `error()` moves the exception pointer into its first receiver, and
  the others get a null one (`subject.h:82`).
* The delegating and nesting trampolines claim `is_fifo_sequence`, but a task submitted
  later from a shallower level overtakes one that was deferred. `repeat()` cannot be
  reached, and the catch block of the take-over is never entered.
* Moving a wrapper leaves `done_` and `started_` behind (`receiver.h:122`).
* `get` reads an empty `opt` when the sender is done without a value.
* `blocking_submit` passes every signal to a copy of the receiver it was given
  (`o/submit.h:198-229`). A value function that throws gets its exception in the copy, and
  the next value and the completion as if it had not; for `get` this makes no difference.
* `via` ends the process when its strand refuses the submission that carries `starting`
  (`flow_receiver.h:211`), and loses the completion when it refuses `done`.
* `flow_from` over a concurrent executor would let `done` overtake the last value, since the
  completion is a job of its own; the model has sequential executors. Under `on` a
  refused submission ends the process.
* `via(new_thread)` and `on(new_thread)`, as the repository's README writes them, do not
  satisfy `StrandFactory` (`concepts.h:327-337`), which asks for `is_fifo_sequence`.
* `make_receiver(vf, df)` binds its second function as an error function.
  `make_executor(ex)` gives an executor whose `schedule()` cannot be called.
  `property_set_insert` keeps the property a category already has.
* In the bulk examples a submission that throws inside the loop, and any exception of
  `for_each`'s function, end the process: the receivers there have no error function.
  The order in which `reduce` accumulates is arbitrary.

### Fairness

* Entangle, SharedEntangle: weak fairness of each thread while it is inside a call.
  Nobody has to start another call.
* BlockingSubmit: weak fairness of every thread, and strong fairness of taking the
  mutex, because a caller that is woken spuriously again and again takes it again and
  again. No fairness of `SpuriousWakeup`: nobody promises one.
* Strand: the executor runs what it accepted, items return, a call of `submit()` ends.
* TimeSource: the same, time passes, and the worker thread runs. Nobody has to insert
  an item or call `join()`.
* Subject: a thread that has called into the subject goes on when it can. No producer
  has to make a call.
* Trampoline, Bulk: functions return, threads and the pool run what they accepted. Nobody
  has to submit anything, and the sender of a bulk operation need not complete.
* Flow: the executor and the strand run what they accepted. Nobody has to ask or cancel.

Deadlock is not checked in the runs in which the system may stop: `subject` (a thread
that waits for its own lock), `trampoline`, `flow`, `pipeline` and `erased` (all work done).

## 4. Proofs

The theorems hold for every value of the constants allowed by the ASSUME of the
component's module.

* **EntangleProofs**, for any set of addresses, which must be numbers because the code
  compares them. About Entangle: `TypeCorrect` (`TypeOK`), `MutualExclusionCorrect`,
  `NoDanglingDualCorrect`, `UsePairInSyncCorrect` and `ControlDataStableCorrect`, all from
  `PairCorrect`, the inductive invariant `PairInv`. It says of each side, at every label,
  which objects exist and to whom they belong (`Ownership`), what they point at (`Pointers`:
  a dual points back, except at the two lines where a move or a destructor is rewriting
  it), that a lock word is set exactly when a side holds that object (`HeldOnce`,
  `LockWord`), and what a side knows of a race (`Acknowledged`, `Duel`). `Duel` is the heart:
  a side that found its dual locked and has not been told that it won has the other *side*
  in front of it, itself inside `tryLockBoth()` and on exactly these two objects. Without it
  an acknowledgement could reach an object that has been moved away, and both could go on.
  One lemma per action and side; the two sides are symmetric, so each step is proved for
  the side that takes it and for the one that watches.
  About SharedEntangle: `SharedStorageCorrect` (`SharedStorageLives`), for any set of sides.
  The inductive invariant adds `NoStrayPointer` (a destroyed handle and a guard that is not
  there hold no pointer) and `GuardsKeep` (a guard that is there holds one, unless its side
  called `lock_both` twice): the allocation lives as long as a guard because the guard
  itself keeps it alive until its last step.
* **ExecutorProofs** extends Strand and BlockingSubmit (whose specification has names of
  its own, `BSInit`, `BSNext`, `BSSpec`, so that the two can stand side by side). About
  Strand: `TypeCorrect`, `QueueCorrect` (`QueueConsistent`, on every executor),
  `CounterCorrect` (`CounterBounded`) and `SubmitCorrect` (`NothingStranded`), for any finite
  set of items and any modulus larger than twice their number. The inductive
  invariant adds `Counted`: the counter is at most the length of the queue, or the counter
  and the items taken add up to at least the modulus. The second part is needed
  because a wrapped counter goes on decreasing, and must not come back to a value
  that looks sane. `Guarded` (a positive counter means that a worker is in its loop)
  is what makes the decision of `submit()` right.
  About BlockingSubmit: `BSTypeCorrect`, `CountCorrect` (`CountExact`),
  `ReturnCorrect` (`NoEarlyReturn`) and `QuiescenceCorrect` (`QuiescenceStable`), for any
  finite set of tasks, with submissions that may throw. The inductive invariant `BSIInv`
  adds to the count: a task that is being submitted is counted and belongs to one
  submitter (`ChildReserved`); the sender and the nested tasks run different code
  (`Roles`); `done` holds exactly when the sender has finished, and the caller has
  returned only with both parts of its predicate true (`Quiet`). `ChildReserved` is what
  makes the decrement of one task and the increment of another cancel correctly:
  without it two submitters could start one task.

* **TrampolineProofs**, for any number of tasks, any set of threads and any limit; `None`,
  which stands for "no task" and "no thread", is neither. `DepthCorrect` (`DepthExact`) and
  `RunsOnceCorrect` (`RunsOnce`) from `TasksCorrect`, the inductive invariant `TaskInv`: the call
  at the bottom of a stack is the nesting one and only nesting calls drain (`Stacks`); a task
  on a stack or deferred is there once, on its own thread, and has not ended (`Positions`);
  one that was accepted and has not ended is somewhere (`Located`). `Threads` says that a
  thread is owned once, which the depth needs: a second owner would start counting again.
  `BulkRefines`: `BulkSpec` implements `Reduction!Spec` for any number of indices, step by
  step. The invariant `BulkInv` says that `pending` counts the tasks that have not counted
  themselves off, and the loop while it runs, so that nobody sees zero too early
  (`NaiveCounts`); that an exception that was counted is stored before its task is done; and
  that what is accumulated is what was called, except for calls that threw.
* **SubjectProofs**, for any finite set of subscribers and any set of producers, which are
  different threads: `NobodyForgottenCorrect` (`NobodyForgotten`) and `ContractCorrect`
  (`ContractKept`) from `SubjectCorrect`, the inductive invariant `SubjectInv`: a loop runs only
  under the lock (`Exclusive`), has completed everybody before its position (`Progress`), and
  when the subject is over the list is empty or such a loop is at work (`OverEmpty`);
  whoever has submitted waits, was completed, or came late and was told (`Served`).
* **ErasedProofs**, for any sets of places and objects, which `null` is not in:
  `OwnedOnceCorrect` (`OwnedOnce`), `FlagsProtectCorrect` (`FlagsProtect`) and
  `NothingSwallowedCorrect` (`NothingSwallowed`) from `ErasedCorrect`, the inductive invariant `ErasedInv`. `OwnedOnce` counts
  wrappers by cardinality; `Owners` says instead that no two wrappers hold one object, which a
  step can preserve. `Aware` gives the flags their meaning: `done_` and `started_` of a wrapper
  tell what its object was told, unless the object is one whose wrapper was moved or whose
  value function threw.
* **FlowProofs**, for ranges of any length, requests of any size and executors of any
  depth, with at most one refused submission as in the model: `DemandCorrect`
  (`DemandRespected`), `RequestsServedCorrect` (`RequestsServed`), `OrderCorrect`
  (`EachOnceInOrder`) and `NoTerminateCorrect` (`NoTerminate`) from `FlowCorrect`, the inductive
  invariant `FlowInv`. `Demand` says that the jobs on the stack and in the queue together owe no
  more values than were requested and not sent, and exactly as many while the flow is not
  stopped and the receiver that the source calls is not done; the equality is what
  `RequestsServed` needs. A sum over a sequence would need induction, so the sums are
  given by a witness: a function of partial sums for the stack, where jobs leave at the end,
  and one of remainders for the queue, where they leave at the head; every step changes
  either at one end only. `NotBegun`, `HasBegun`, `NotStarted` and `Finishing` say which jobs may
  exist before and after `starting` has been called and arrived; `Posted` says that what is
  in `via`'s strand continues what the consumer has got and that its completion comes last;
  `Route` ties a call of `std::terminate` in `via`'s receiver to a refused `starting`.

* **PipelineProofs**, for chains and scripts of every length: `AllCompletedCorrect`
  (`AllCompleted`), `PromiseCorrect` (`PromiseOnce`), `ResultCorrect` (`ResultDefined`) and
  `ContractCorrect` (`ContractKept`) from `PipelineCorrect`, the inductive invariant
  `PipelineInv`. `Completing` is what makes an induction along the chain unnecessary: behind
  every receiver that is done, and behind the sender itself, a completion is on its way to
  a later position, as a call or in the script of a sender on the stack, until the end has
  one. A call that is ignored at a position is not missed, because that position is done
  and so a completion is on its way behind it. `OneResult` counts what the sender has sent:
  the first signal is the only one that can give a promise its result, and after the
  completion the first receiver ignores everything. `Fetched` is the same for `get`: until
  its functions have been told, the first signal is travelling and no receiver before it
  is done. `Flagged` relates `done_` of a receiver to what its functions were told, which
  is all that the contract needs.

* **TimeSourceProofs**, for any finite set of items, any set of queues, any bound of the
  clock, any look-ahead and executors of every kind: `NoTerminateCorrect` (`NoTerminate`),
  `ExclusiveDispatchCorrect` (`ExclusiveDispatch`), `PendingCorrect` (`PendingConsistent`),
  `WakesInTimeCorrect` (`WakesInTime`) and `JoinedQuiescentCorrect` (`JoinedQuiescent`) from
  `TimeSourceCorrect`, the inductive invariant `TimeInv`. `OneHand` says that a dispatched
  queue is in one of four hands: the worker's, the executor's, those of the receiver with an
  item of it, or the executor's again; every step of a receiver moves it from one to
  another, which is proved once (`HandMoved`, `HandLeft`). `Counts` says that `items_` is the number
  of items that are queued or held by `value()`, and not of those being sent an error, which
  is why `JoinedQuiescent` needs `Endings`: errors are sent only after the worker has failed,
  and then it never sets `joined_`, or by an executor that calls `error()`. `InTime` is
  `WakesInTime` item by item; that a least time exists comes from the well-foundedness of
  the natural numbers in the library.

Every inductive invariant was checked by TLC on the instance of section 3 first (`Demand`
there written as a recursive sum).

Only model-checked:

* all liveness properties (`LockProgress`, `SharedLockReturns`, `SenderLastReturns`,
  `ItemsCompleteUnlessWrapped`, `EveryoneTold`, `TasksComplete`, `FlowCompletes`, those of
  `timesource_live`, and the liveness half of `BulkReduces`): TLAPS has no fairness and no
  ENABLED here.

The type invariants of all modules are proved (as part of the inductive invariants), so no
run repeats them.

## 5. Not modelled

`PROJECT.json` gives a reason for every component.

* Compile-time code (concepts, traits, properties, piping) has no behaviour to model.
* `pushmi.h` is a generated concatenation of the headers. It holds the same code once
  more: 9,895 of the 21,170 lines of implementation. A definition is mapped to one place;
  where several definitions stand for the same lines of a header, such as the actions
  that are written once for nine `any_*` classes or the operators shared by several
  modules, the later ones are mapped to the same code in this copy. About 1,115 of the
  6,530 mapped lines are lines of the copy; leaving the copy out on both sides, the map
  covers about half of the headers and examples.
* The destructor of `time_source_shared`, which asserts `items_ = 0`, the first part of
  `JoinedQuiescent`. `time_source_queue::value()` also terminates when it runs on the time
  thread; executors that do so are excluded.
* `via` over senders without flow forwards as it does over a flow.
* `blocking_submit` over a user's functions in Pipeline: only `get` uses it there. Its
  copies of the receiver are modelled by what they leave unset.
* Copies and moves of `opt`; examples other than the bulk operations; benchmarks.

## 6. Plan

Every safety property and every action property that a passing run checks is proved, and so are
the refinements of ReceiverContract and the safety half of that of Reduction. What remains
is to relate the parts: an abstract lock on a pair that both Entangle and SharedEntangle
implement would be worth stating (`MutualExclusionCorrect` and `ControlDataStableCorrect` are its
safety half).
