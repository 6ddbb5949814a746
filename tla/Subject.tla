------------------------------ MODULE Subject -------------------------------
(***************************************************************************)
(* pushmi::subject (include/pushmi/subject.h), the multicast behind the     *)
(* share operator (o/share.h): producers call value(), error() and done(),  *)
(* subscribers submit a receiver, all under one mutex which is also held    *)
(* while receivers are called.                                              *)
(*                                                                         *)
(* submit() runs in one critical section, with at most one call of the      *)
(* receiver it was given; the three signals loop over receivers_, one step  *)
(* of the model for each receiver, because a receiver they call may come    *)
(* back to the subject.  Mutex acquisition is the guard lock = Free.        *)
(***************************************************************************)
EXTENDS Receiver, Sequences, FiniteSets

CONSTANTS Subscriber,  \* receivers given to submit(), each by a thread of its own
          Producer,    \* the results of receiver(), each used by a thread of its own
          MaxCalls,    \* bound on the signals of a producer
          Nesting,     \* values of nests
          Free         \* no thread holds lock_

ASSUME SubjectAssumption ==
  /\ IsFiniteSet(Subscriber)
  /\ Producer \cap Subscriber = {}
  /\ MaxCalls \in Nat
  /\ Nesting \subseteq BOOLEAN
  /\ Free \notin Producer \cup Subscriber

VARIABLES
  nests,      \* whether receivers may submit to the subject that calls them
  lock,       \* lock_: Free or the thread that holds it, seen between two steps
  done,       \* done_
  t,          \* !!t_
  ep,         \* ep_ is not null
  receivers,  \* receivers_
  out,        \* [Subscriber -> ReceiverType], the receivers
  status,     \* [Subscriber -> {"new", "calling", "returned"}], of submit()
  late,       \* subscribers whose submit() found a value and done_
  call,       \* [Producer -> Signals], the signal whose loop is running
  closed,     \* [Producer -> BOOLEAN], done_ of the receiver around the subject
  calls,      \* [Producer -> Nat], signals so far
  next,       \* the position of the loop in receivers_
  moved,      \* the e of error() has been moved from
  stuck       \* a receiver has submitted to the subject that called it

vars == <<nests, lock, done, t, ep, receivers, out, status, late, call, closed,
          calls, next, moved, stuck>>

Signals == {"none", "value", "error", "done"}

Init ==
  /\ nests \in Nesting
  /\ lock = Free
  /\ done = FALSE
  /\ t = FALSE
  /\ ep = FALSE
  /\ receivers = <<>>
  /\ out = [s \in Subscriber |-> NewReceiver]
  /\ status = [s \in Subscriber |-> "new"]
  /\ late = {}
  /\ call = [p \in Producer |-> "none"]
  /\ closed = [p \in Producer |-> FALSE]
  /\ calls = [p \in Producer |-> 0]
  /\ next = 1
  /\ moved = FALSE
  /\ stuck = FALSE

-----------------------------------------------------------------------------
\* A thread calls submit(out).
CallSubmit(s) ==
  /\ status[s] = "new"
  /\ status' = [status EXCEPT ![s] = "calling"]
  /\ UNCHANGED <<nests, lock, done, t, ep, receivers, out, late, call, closed, calls,
                 next, moved, stuck>>

KeptValue == t /\ done

\* Mutant: a subject that is done and kept no value is not recognised.
NeverOver == FALSE

Over == done

\* subject_shared::submit, the critical section.  Only the value is repeated to a
\* late subscriber, the done that followed it is not.
Submit(s) ==
  /\ status[s] = "calling"
  /\ lock = Free
  /\ status' = [status EXCEPT ![s] = "returned"]
  /\ \/ /\ ep
        /\ out' = [out EXCEPT ![s] = set_error(@, "error")]
        /\ UNCHANGED <<receivers, late>>
     \/ /\ ~ep /\ KeptValue
        /\ \E throws \in BOOLEAN : out' = [out EXCEPT ![s] = set_value(@, throws)]
        /\ late' = late \cup {s}
        /\ UNCHANGED receivers
     \/ /\ ~ep /\ ~KeptValue /\ Over
        /\ out' = [out EXCEPT ![s] = set_done(@)]
        /\ UNCHANGED <<receivers, late>>
     \/ /\ ~ep /\ ~KeptValue /\ ~Over
        /\ receivers' = Append(receivers, s)
        /\ UNCHANGED <<out, late>>
  /\ UNCHANGED <<nests, lock, done, t, ep, call, closed, calls, next, moved, stuck>>

\* The receiver given to submit() is called there and submits to the same subject.
SubmitNestedLate(s) ==
  /\ nests
  /\ status[s] = "calling"
  /\ lock = Free
  /\ ep \/ KeptValue \/ Over
  /\ lock' = s
  /\ stuck' = TRUE
  /\ UNCHANGED <<nests, done, t, ep, receivers, out, status, late, call, closed, calls,
                 next, moved>>

FirstReceiver == 1

\* The producer calls its receiver, which ignores the call when it is done; otherwise
\* value(), error() or done() of the subject takes lock_ and begins its loop.  What
\* error() and done() record is recorded before the loop, the value after it.
Begin(p, signal) ==
  /\ call[p] = "none" /\ ~closed[p] /\ calls[p] < MaxCalls
  /\ lock = Free
  /\ lock' = p
  /\ call' = [call EXCEPT ![p] = signal]
  /\ calls' = [calls EXCEPT ![p] = @ + 1]
  /\ closed' = [closed EXCEPT ![p] = signal # "value"]
  /\ ep' = (ep \/ signal = "error")
  /\ done' = (done \/ signal = "done")
  /\ next' = FirstReceiver
  /\ moved' = FALSE
  /\ UNCHANGED <<nests, t, receivers, out, status, late, stuck>>

\* The error that the loop's std::move(e) passes: e is empty after the first turn.
Passed == IF moved THEN "null" ELSE "error"

\* One turn of the loop.
Deliver(p) ==
  /\ call[p] # "none" /\ ~stuck
  /\ next <= Len(receivers)
  /\ LET s == receivers[next] IN
       \/ /\ call[p] = "value"
          /\ \E throws \in BOOLEAN : out' = [out EXCEPT ![s] = set_value(@, throws)]
          /\ UNCHANGED moved
       \/ /\ call[p] = "error"
          /\ out' = [out EXCEPT ![s] = set_error(@, Passed)]
          /\ moved' = TRUE
       \/ /\ call[p] = "done"
          /\ out' = [out EXCEPT ![s] = set_done(@)]
          /\ UNCHANGED moved
  /\ next' = next + 1
  /\ UNCHANGED <<nests, lock, done, t, ep, receivers, status, late, call, closed, calls,
                 stuck>>

\* Mutant: the loop stops one receiver early.
LoopStopsEarly == next >= Len(receivers)

LoopEnds == next > Len(receivers)

\* The loop ends: a value is kept in t_, the other signals clear receivers_; the guard
\* releases lock_.
Finish(p) ==
  /\ call[p] # "none" /\ ~stuck
  /\ LoopEnds
  /\ t' = (t \/ call[p] = "value")
  /\ receivers' = IF call[p] = "value" THEN receivers ELSE <<>>
  /\ lock' = Free
  /\ call' = [call EXCEPT ![p] = "none"]
  /\ UNCHANGED <<nests, done, ep, out, status, late, closed, calls, next, moved, stuck>>

\* A receiver that is being called submits to the same subject: lock_ is not recursive
\* and its own thread holds it.
SubmitNested(p) ==
  /\ nests
  /\ call[p] # "none" /\ ~stuck
  /\ next <= Len(receivers)
  /\ stuck' = TRUE
  /\ UNCHANGED <<nests, lock, done, t, ep, receivers, out, status, late, call, closed,
                 calls, next, moved>>

Next ==
  \/ \E s \in Subscriber : CallSubmit(s) \/ Submit(s) \/ SubmitNestedLate(s)
  \/ \E p \in Producer :
       \/ \E signal \in Signals \ {"none"} : Begin(p, signal)
       \/ Deliver(p)
       \/ Finish(p)
       \/ SubmitNested(p)

Spec == Init /\ [][Next]_vars

\* A thread that has called into the subject goes on when it can.  No producer has to
\* make a call.
Fairness ==
  /\ \A s \in Subscriber : WF_vars(Submit(s))
  /\ \A p \in Producer : WF_vars(Deliver(p)) /\ WF_vars(Finish(p))

FairSpec == Spec /\ Fairness

-----------------------------------------------------------------------------
TypeOK ==
  /\ nests \in BOOLEAN
  /\ lock \in Producer \cup Subscriber \cup {Free}
  /\ done \in BOOLEAN
  /\ t \in BOOLEAN
  /\ ep \in BOOLEAN
  /\ receivers \in Seq(Subscriber)
  /\ out \in [Subscriber -> ReceiverType]
  /\ status \in [Subscriber -> {"new", "calling", "returned"}]
  /\ late \subseteq Subscriber
  /\ call \in [Producer -> Signals]
  /\ closed \in [Producer -> BOOLEAN]
  /\ calls \in [Producer -> Nat]
  /\ next \in Nat /\ (lock \in Producer => next \in 1..(Len(receivers) + 1))
  /\ moved \in BOOLEAN
  /\ stuck \in BOOLEAN

\* Every subscriber's receiver is used as its contract says, whatever the producers do
\* and however submit() interleaves with their signals.
Kind(e) == IF e \in Errors THEN "error" ELSE e

Contract ==
  INSTANCE ReceiverContract WITH
    Receivers <- Subscriber,
    n <- [s \in Subscriber |-> out[s].n],
    end <- [s \in Subscriber |-> Kind(out[s].end)]

ContractKept == Contract!Spec

\* Once the subject is over and its lock free, nobody whose submit() has returned is left
\* waiting: a subscriber got a completion or, when it came after a value and done, the
\* value alone (subject.h:51, no set_done follows).
Settled == lock = Free /\ (done \/ ep)

NobodyForgotten ==
  Settled =>
    /\ receivers = <<>>
    /\ \A s \in Subscriber :
         status[s] = "returned" => Ended(out[s]) \/ (s \in late /\ Told(out[s]))

\* A submit() that has been called returns, and once the subject is over every subscriber
\* has been told; only a receiver that submits to the subject from its own call can
\* prevent it (it waits for the lock its thread holds).
EveryoneTold ==
  \A s \in Subscriber :
    (done \/ ep) /\ status[s] # "new" ~> Told(out[s]) \/ stuck
=============================================================================
