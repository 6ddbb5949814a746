--------------------------- MODULE BlockingSubmit ---------------------------
(***************************************************************************)
(* operators::blocking_submit (include/pushmi/o/submit.h): submits a sender *)
(* and blocks the caller until the sender has completed and every task that *)
(* was submitted, directly or not, through the executor it delivered has    *)
(* completed too.  The caller waits on a condition variable of lock_state,  *)
(* which lives on its stack; lock_state::nested counts the work the caller  *)
(* must still wait for.                                                     *)
(*                                                                         *)
(* The tasks run on some concurrent executor (new_thread, a pool), which    *)
(* completes each of them once, with done or with error.                    *)
(***************************************************************************)
EXTENDS Integers, FiniteSets

CONSTANTS Nested,      \* the tasks that can be submitted to the nested executor
          Outer,       \* the sender that blocking_submit was applied to
          MayThrow     \* can the executor's submit() throw (no thread to be had)?

ASSUME TaskAssumption == Outer \notin Nested /\ IsFiniteSet(Nested) /\ MayThrow \in BOOLEAN

Task == Nested \cup {Outer}

VARIABLES
  done,     \* lock_state::done
  nested,   \* lock_state::nested, an atomic<int>
  main,     \* where the caller of blocking_submit is
  pc,       \* [Task -> Labels]
  child     \* [Task -> Task], the task that a task in "submit" is submitting

bsVars == <<done, nested, main, pc, child>>

MainLabels == {"lock", "check", "block", "waiting", "returned"}
Labels == {"none", "start", "counted", "queued", "body", "submit", "leave",
           "notify", "complete", "finished", "lost"}

\* lock_state::lock is held by the caller from the test of the predicate until
\* condition_variable::wait releases it; all other critical sections are short.
Locked == main \in {"check", "block"}

Step(p, from, to) == pc[p] = from /\ pc' = [pc EXCEPT ![p] = to]

\* signaled.notify_all(): only a caller that already blocks is woken.
NotifyAll == main' = IF main = "waiting" THEN "lock" ELSE main

-----------------------------------------------------------------------------
\* The caller has submitted the sender; whatever its executor does is concurrent.
BSInit ==
  /\ done = FALSE
  /\ nested = 0
  /\ main = "lock"
  /\ pc = [p \in Task |-> IF p = Outer THEN "start" ELSE "none"]
  /\ child = [p \in Task |-> p]

\* std::unique_lock guard{state.lock}, or the relock when wait() wakes up.
Lock == main = "lock" /\ main' = "check" /\ UNCHANGED <<done, nested, pc, child>>

\* Mutant: the predicate forgets the nested work.
CheckDoneOnly ==
  /\ main = "check"
  /\ main' = IF done THEN "returned" ELSE "block"
  /\ UNCHANGED <<done, nested, pc, child>>

\* state.done && state.nested.load() == 0
Check ==
  /\ main = "check"
  /\ main' = IF done /\ nested = 0 THEN "returned" ELSE "block"
  /\ UNCHANGED <<done, nested, pc, child>>

\* wait() releases the lock and blocks in one step.
Block == main = "block" /\ main' = "waiting" /\ UNCHANGED <<done, nested, pc, child>>

SpuriousWakeup ==
  main = "waiting" /\ main' = "lock" /\ UNCHANGED <<done, nested, pc, child>>

-----------------------------------------------------------------------------
\* on_value_impl for an executor: the count covers the delivery of the value.
OuterValue ==
  /\ Step(Outer, "start", "body")
  /\ nested' = nested + 1
  /\ UNCHANGED <<done, main, child>>

\* A value that is not an executor, an error, or done without a value: nothing
\* can be submitted through this call.
OuterPlain == Step(Outer, "start", "complete") /\ UNCHANGED <<done, nested, main, child>>

\* if (--state_->nested == 0) { lock; notify_all }
OuterLeave ==
  /\ Step(Outer, "leave", IF nested = 1 THEN "notify" ELSE "complete")
  /\ nested' = nested - 1
  /\ UNCHANGED <<done, main, child>>

OuterNotify ==
  /\ ~Locked
  /\ Step(Outer, "notify", "complete")
  /\ NotifyAll
  /\ UNCHANGED <<done, nested, child>>

\* Mutant: done is set and signalled without the lock.
CompleteUnlocked ==
  /\ Step(Outer, "complete", "finished")
  /\ done' = TRUE
  /\ NotifyAll
  /\ UNCHANGED <<nested, child>>

\* on_done_impl, on_error_impl: lock; done = true; notify_all
OuterComplete ==
  /\ ~Locked
  /\ Step(Outer, "complete", "finished")
  /\ done' = TRUE
  /\ NotifyAll
  /\ UNCHANGED <<nested, child>>

-----------------------------------------------------------------------------
\* The body of task p submits to the nested executor: ++state_->nested; then
\* the executor's submit(), which starts the task or throws.
Count(p) ==
  /\ pc[p] = "body"
  /\ \E c \in Nested : /\ pc[c] = "none"
                       /\ pc' = [pc EXCEPT ![p] = "submit", ![c] = "counted"]
                       /\ child' = [child EXCEPT ![p] = c]
  /\ nested' = nested + 1
  /\ UNCHANGED <<done, main>>

SubmitChild(p) ==
  /\ pc[p] = "submit"
  /\ pc' = [pc EXCEPT ![p] = "body", ![child[p]] = "queued"]
  /\ UNCHANGED <<done, nested, main, child>>

\* The exception leaves the body of p; set_value() turns it into an error of
\* the receiver.  The count keeps the task that was never started.
SubmitThrows(p) ==
  /\ MayThrow
  /\ pc[p] = "submit"
  /\ pc' = [pc EXCEPT ![p] = "leave", ![child[p]] = "lost"]
  /\ UNCHANGED <<done, nested, main, child>>

\* Mutant: the task is handed to the executor before it is counted.
CountAfterSubmit(p) ==
  \/ \E c \in Nested :
       /\ pc[c] = "none"
       /\ pc[p] = "body"
       /\ pc' = [pc EXCEPT ![p] = "submit", ![c] = "queued"]
       /\ child' = [child EXCEPT ![p] = c]
       /\ UNCHANGED <<done, nested, main>>
  \/ /\ pc[p] = "submit"
     /\ pc' = [pc EXCEPT ![p] = "body"]
     /\ nested' = nested + 1
     /\ UNCHANGED <<done, main, child>>

NestedSubmit(p) == Count(p) \/ SubmitChild(p) \/ SubmitThrows(p)

BodyEnds(p) == Step(p, "body", "leave") /\ UNCHANGED <<done, nested, main, child>>

\* Mutant: error() forwards the error and does not count the task off.
ErrorNotCounted(c) == Step(c, "queued", "finished") /\ UNCHANGED <<done, nested, main, child>>

\* nested_receiver_impl::value runs the body; with error() it never runs.
NestedValue(c) == Step(c, "queued", "body") /\ UNCHANGED <<done, nested, main, child>>
NestedError(c) == Step(c, "queued", "leave") /\ UNCHANGED <<done, nested, main, child>>

\* nested_receiver_impl::done and error: if (--state_->nested == 0) notify_all,
\* without the lock.
NestedLeave(c) ==
  /\ Step(c, "leave", IF nested = 1 THEN "notify" ELSE "finished")
  /\ nested' = nested - 1
  /\ UNCHANGED <<done, main, child>>

NestedNotify(c) ==
  /\ Step(c, "notify", "finished")
  /\ NotifyAll
  /\ UNCHANGED <<done, nested, child>>

-----------------------------------------------------------------------------
Main == Lock \/ Check \/ Block
OuterStep == OuterValue \/ OuterPlain \/ OuterLeave \/ OuterNotify \/ OuterComplete
NestedStep(c) == NestedValue(c) \/ NestedError(c) \/ NestedLeave(c) \/ NestedNotify(c)
TaskStep(p) == NestedSubmit(p) \/ BodyEnds(p)

\* blocking_submit has returned and every task is over.
BSFinished ==
  /\ main = "returned"
  /\ \A p \in Task : pc[p] \in {"none", "finished"}
  /\ UNCHANGED bsVars

BSNext ==
  \/ Main \/ SpuriousWakeup \/ OuterStep
  \/ \E c \in Nested : NestedStep(c)
  \/ \E p \in Task : TaskStep(p)
  \/ BSFinished

\* Every thread keeps running, and a thread that waits for the mutex gets it if
\* it is released again and again; nobody promises a spurious wakeup.
BSFairness ==
  /\ WF_bsVars(Main)
  /\ SF_bsVars(OuterNotify)
  /\ SF_bsVars(OuterComplete)
  /\ WF_bsVars(OuterStep \/ TaskStep(Outer))
  /\ \A c \in Nested : WF_bsVars(NestedStep(c) \/ TaskStep(c))

BSSpec == BSInit /\ [][BSNext]_bsVars
BSFairSpec == BSSpec /\ BSFairness

-----------------------------------------------------------------------------
BSTypeOK ==
  /\ done \in BOOLEAN
  /\ nested \in Nat
  /\ main \in MainLabels
  /\ pc \in [Task -> Labels]
  /\ child \in [Task -> Task]

\* The deliveries in progress and the tasks submitted, or lost while they were
\* submitted, that have not been counted off.
Outstanding ==
  {p \in Task : pc[p] \in {"counted", "queued", "body", "submit", "leave", "lost"}}

\* lock_state::nested counts the outstanding work exactly, although it is
\* incremented by the submitting task and decremented by the submitted one.
CountExact == nested = Cardinality(Outstanding)

\* blocking_submit returns only after the sender has completed and every task
\* submitted through its executor, to any depth, has completed; all that a task
\* may still have to do is its last notify_all().
NoEarlyReturn ==
  main = "returned" =>
    done /\ \A p \in Task : pc[p] \in {"none", "notify", "finished"}

\* Once the sender has completed and the count is zero it stays zero: no task
\* can appear that the caller, having read the two, would not wait for.
QuiescenceStable == [][done /\ nested = 0 => done' /\ nested' = 0]_bsVars

\* If the sender completes last, the caller returns: `done' is set under the
\* lock, so the caller cannot miss this notification.
SenderLastReturns == pc[Outer] = "complete" /\ nested = 0 ~> main = "returned"

\* blocking_submit returns when all the work is over.  It does not always: the
\* notification of nested_receiver_impl is sent without the lock and is lost if
\* the caller has tested the predicate and not yet blocked.
AllNestedComplete == <>(main = "returned")
=============================================================================
