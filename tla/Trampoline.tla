----------------------------- MODULE Trampoline -----------------------------
(***************************************************************************)
(* The trampoline executors (include/pushmi/trampoline.h), new_thread       *)
(* (include/pushmi/new_thread.h), which starts a trampoline on a thread of  *)
(* its own, and the inline executors (include/pushmi/inline.h).             *)
(*                                                                         *)
(* A thread is owned while some submit() of it has a pending_store on its   *)
(* stack.  The model keeps, for each thread, the calls of submit() that     *)
(* have not returned.  A call is made for ownordelegate ("delegate", which  *)
(* counts in depth), for ownornest ("nest", which drains the deferred work  *)
(* before it returns; the call that takes over the thread ends up there     *)
(* too) or for an inline executor ("inline", which does neither).           *)
(*                                                                         *)
(* A task is the receiver passed to submit().  Its value function may       *)
(* submit any number of other tasks, through any of these executors, and    *)
(* may end with an exception.                                               *)
(***************************************************************************)
EXTENDS Receiver, Sequences, FiniteSets

CONSTANTS MaxTasks,  \* bound on the number of receivers
          Thread,    \* threads; all but Main are started by new_thread
          Main,      \* the thread that is there from the beginning
          None,      \* no task
          Limit,     \* 100, the depth up to which delegated work runs in place
          MayFail    \* whether allocating and starting a thread may throw

ASSUME TrampolineAssumption ==
  /\ MaxTasks \in Nat
  /\ Main \in Thread
  /\ None \notin Thread \cup 1..MaxTasks
  /\ Limit \in Nat
  /\ MayFail \in BOOLEAN

\* Receivers, numbered in the order in which they are submitted.
Task == 1..MaxTasks

VARIABLES
  calls,    \* [Thread -> Seq(Call)], calls of submit(), the innermost last
  depth,    \* [Thread -> Nat], depth of the pending_store
  pending,  \* [Thread -> Seq(Task)], pending of the pending_store
  out,      \* [Task -> ReceiverType]
  place,    \* [Task -> Thread \cup {None}], where a task was accepted
  spawned,  \* [Thread -> Task \cup {None}], the task a new thread begins with
  refused   \* tasks whose submit() threw

vars == <<calls, depth, pending, out, place, spawned, refused>>

Call == [how : {"delegate", "nest", "inline"}, task : Task \cup {None}]

Init ==
  /\ calls = [th \in Thread |-> <<>>]
  /\ depth = [th \in Thread |-> 0]
  /\ pending = [th \in Thread |-> <<>>]
  /\ out = [t \in Task |-> NewReceiver]
  /\ place = [t \in Task |-> None]
  /\ spawned = [th \in Thread |-> None]
  /\ refused = {}

-----------------------------------------------------------------------------
is_owned(th) == calls[th] # <<>>

Top(th) == calls[th][Len(calls[th])]

\* A value function is running on the thread, and it may call submit().
Running(th) == is_owned(th) /\ Top(th).task # None

Submitted(t) == place[t] # None \/ t \in refused \/ \E th \in Thread : spawned[th] = t

Fresh(t) == ~Submitted(t) /\ \A u \in 1..(t - 1) : Submitted(u)

Push(th, how, t) == calls' = [calls EXCEPT ![th] = Append(@, [how |-> how, task |-> t])]

Defer(th, t) == pending' = [pending EXCEPT ![th] = Append(@, t)]

Enter(t) == out' = [out EXCEPT ![t] = Value(@)]

Accept(th, t) == place' = [place EXCEPT ![t] = th]

DepthAtStart == 0

\* Neither executor finds an owner: take over the thread and run the task.
Own(th, t) ==
  /\ ~is_owned(th) /\ Fresh(t)
  /\ th = Main
  /\ Push(th, "nest", t)
  /\ depth' = [depth EXCEPT ![th] = DepthAtStart]
  /\ pending' = [pending EXCEPT ![th] = <<>>]
  /\ Enter(t)
  /\ Accept(th, t)
  /\ UNCHANGED <<spawned, refused>>

InPlace(th) == depth[th] < Limit

\* ownordelegate on an owned thread, in place: depth counts the call.
DelegateInPlace(th, t) ==
  /\ Running(th) /\ Fresh(t)
  /\ InPlace(th)
  /\ depth' = [depth EXCEPT ![th] = @ + 1]
  /\ Push(th, "delegate", t)
  /\ Enter(t)
  /\ Accept(th, t)
  /\ UNCHANGED <<pending, spawned, refused>>

\* Mutant: the task runs in place as well.
DeferAndRun(th, t) ==
  /\ Running(th) /\ Fresh(t)
  /\ ~InPlace(th)
  /\ Defer(th, t)
  /\ Push(th, "nest", t)
  /\ Enter(t)
  /\ Accept(th, t)
  /\ UNCHANGED <<depth, spawned, refused>>

\* ownordelegate on an owned thread, too deep: the owner will run the task.
DelegateDeferred(th, t) ==
  /\ Running(th) /\ Fresh(t)
  /\ ~InPlace(th)
  /\ Defer(th, t)
  /\ Accept(th, t)
  /\ UNCHANGED <<calls, depth, out, spawned, refused>>

\* ownornest on an owned thread with nothing deferred: run the task here.
NestInPlace(th, t) ==
  /\ Running(th) /\ Fresh(t)
  /\ pending[th] = <<>>
  /\ Push(th, "nest", t)
  /\ Enter(t)
  /\ Accept(th, t)
  /\ UNCHANGED <<depth, pending, spawned, refused>>

\* ownornest with deferred work: the task goes behind it, and all of it runs now.
NestQueued(th, t) ==
  /\ Running(th) /\ Fresh(t)
  /\ pending[th] # <<>>
  /\ Defer(th, t)
  /\ Push(th, "nest", None)
  /\ Accept(th, t)
  /\ UNCHANGED <<depth, out, spawned, refused>>

\* The tasks of the inline executors: value and done, inside submit().
InlineSubmit(th, t) ==
  /\ Running(th) /\ Fresh(t)
  /\ Push(th, "inline", t)
  /\ Enter(t)
  /\ Accept(th, t)
  /\ UNCHANGED <<depth, pending, spawned, refused>>

\* push_back throws, or std::thread: submit() leaves everything as it was (depth is
\* counted back) and the exception goes to the task that called it.
Refuse(th, t) ==
  /\ MayFail
  /\ Running(th) /\ Fresh(t)
  /\ refused' = refused \cup {t}
  /\ UNCHANGED <<calls, depth, pending, out, place, spawned>>

\* new_thread_task::submit: a thread is started and detached.
NewThread(th, t) ==
  /\ Running(th) /\ Fresh(t)
  /\ \E new \in Thread \ {Main} :
       /\ spawned[new] = None
       /\ spawned' = [spawned EXCEPT ![new] = t]
  /\ UNCHANGED <<calls, depth, pending, out, place, refused>>

\* The function of the new thread: submit the task to its trampoline.
ThreadRuns(th) ==
  /\ spawned[th] # None
  /\ place[spawned[th]] = None
  /\ Push(th, "nest", spawned[th])
  /\ depth' = [depth EXCEPT ![th] = DepthAtStart]
  /\ Enter(spawned[th])
  /\ Accept(th, spawned[th])
  /\ UNCHANGED <<pending, spawned, refused>>

\* Mutant: the depth is not counted back.
LeaveDeep(d) == d

Leave(d) == d - 1

\* The value function returns or throws, and set_done follows in both cases.  A
\* delegated or inline call returns to its caller, a nesting one goes on to the deferred
\* work.
TaskEnds(th) ==
  /\ Running(th)
  /\ LET t == Top(th).task IN
       \E throws \in BOOLEAN :
         out' = [out EXCEPT ![t] = set_done(IF throws THEN Error(@, "thrown") ELSE @)]
  /\ \/ /\ Top(th).how = "delegate"
        /\ calls' = [calls EXCEPT ![th] = SubSeq(@, 1, Len(@) - 1)]
        /\ depth' = [depth EXCEPT ![th] = Leave(@)]
     \/ /\ Top(th).how = "inline"
        /\ calls' = [calls EXCEPT ![th] = SubSeq(@, 1, Len(@) - 1)]
        /\ UNCHANGED depth
     \/ /\ Top(th).how = "nest"
        /\ calls' = [calls EXCEPT ![th][Len(calls[th])].task = None]
        /\ UNCHANGED depth
  /\ UNCHANGED <<pending, place, spawned, refused>>

Draining(th) == is_owned(th) /\ Top(th).task = None

\* One turn of the loop: the front of pending is taken out and run.
Drain(th) ==
  /\ Draining(th)
  /\ pending[th] # <<>>
  /\ calls' = [calls EXCEPT ![th][Len(calls[th])].task = Head(pending[th])]
  /\ pending' = [pending EXCEPT ![th] = Tail(@)]
  /\ Enter(Head(pending[th]))
  /\ UNCHANGED <<depth, place, spawned, refused>>

\* Mutant: the call returns without looking at the deferred work.
DrainedAtOnce(th) == TRUE

Drained(th) == pending[th] = <<>>

\* The loop ends.  The call that took over the thread releases it.
NestReturns(th) ==
  /\ Draining(th)
  /\ Drained(th)
  /\ calls' = [calls EXCEPT ![th] = SubSeq(@, 1, Len(@) - 1)]
  /\ UNCHANGED <<depth, pending, out, place, spawned, refused>>

Next ==
  \E th \in Thread :
    \/ \E t \in Task :
         \/ Own(th, t)
         \/ DelegateInPlace(th, t)
         \/ DelegateDeferred(th, t)
         \/ NestInPlace(th, t)
         \/ NestQueued(th, t)
         \/ InlineSubmit(th, t)
         \/ Refuse(th, t)
         \/ NewThread(th, t)
    \/ ThreadRuns(th)
    \/ TaskEnds(th)
    \/ Drain(th)
    \/ NestReturns(th)

Spec == Init /\ [][Next]_vars

\* Functions return and threads run; nobody has to submit anything.
Fairness ==
  \A th \in Thread :
    /\ WF_vars(ThreadRuns(th)) /\ WF_vars(TaskEnds(th))
    /\ WF_vars(Drain(th)) /\ WF_vars(NestReturns(th))

FairSpec == Spec /\ Fairness

-----------------------------------------------------------------------------
TypeOK ==
  /\ calls \in [Thread -> Seq(Call)]
  /\ depth \in [Thread -> 0..Limit]
  /\ pending \in [Thread -> Seq(Task)]
  /\ out \in [Task -> ReceiverType]
  /\ place \in [Task -> Thread \cup {None}]
  /\ spawned \in [Thread -> Task \cup {None}]
  /\ refused \subseteq Task

Delegated(th) == {i \in 1..Len(calls[th]) : calls[th][i].how = "delegate"}

\* depth is the number of delegated calls that are on the stack, however tasks end, get
\* refused or are drained in between: this is what bounds the recursion by Limit, and
\* what a lost or repeated decrement would break for the rest of the thread's ownership.
DepthExact == \A th \in Thread : depth[th] = Cardinality(Delegated(th))

\* A task that was accepted runs once: it is on the stack or among the deferred work of its
\* thread, never twice and never in both; it is in neither after it has ended.
Places(th, t) ==
  Cardinality({i \in 1..Len(calls[th]) : calls[th][i].task = t})
    + Cardinality({i \in 1..Len(pending[th]) : pending[th][i] = t})

RunsOnce ==
  \A t \in Task :
    /\ out[t].n <= 1
    /\ \A th \in Thread :
         Places(th, t) = IF place[t] = th /\ ~Ended(out[t]) THEN 1 ELSE 0

\* Every task that is accepted, also by a new thread, runs and is completed.
TasksComplete ==
  \A t \in Task :
    (place[t] # None \/ \E th \in Thread : spawned[th] = t) ~> out[t].n = 1 /\ Ended(out[t])
=============================================================================
