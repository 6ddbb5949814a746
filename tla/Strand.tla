------------------------------- MODULE Strand -------------------------------
(***************************************************************************)
(* pushmi::strands (include/pushmi/strand.h): an executor that should run   *)
(* one item at a time, in order, on top of an executor that runs anything   *)
(* concurrently.  Items wait in items_; workers, which are receivers that   *)
(* the strand submits to the underlying executor, drain it; remaining_ says *)
(* whether a worker is draining.                                            *)
(*                                                                         *)
(* Workers are indistinguishable: those waiting for the executor and those  *)
(* between value() and done() are counted, and a worker that runs or fails  *)
(* an item is known by that item.  The underlying executor (new_thread, a   *)
(* pool) is external: it calls value() then done(), or error(), on each     *)
(* worker, in any order and at the same time.                               *)
(***************************************************************************)
EXTENDS Integers, Sequences, FiniteSets

CONSTANTS Item,       \* the receivers submitted to the strand
          Modulus,    \* 2^N where size_t has N bits
          Exec        \* the kinds of executor a strand is built on: "failing" ones
                      \* may fail a worker, or refuse one by throwing

ASSUME StrandAssumption ==
  /\ IsFiniteSet(Item)
  /\ Modulus \in Nat /\ Modulus > 2 * Cardinality(Item)
  /\ Exec \subseteq {"reliable", "failing"}

VARIABLES
  ex,         \* ex_, the executor under the strand
  items,      \* items_, a queue
  remaining,  \* remaining_, a size_t
  status,     \* [Item -> Status], how far each item has got
  sending,    \* items whose submit() has released lock_ and still sends a worker
  queued,     \* workers submitted to the executor and not run yet
  returned,   \* workers whose value() has returned and whose done() is due
  failed      \* workers whose done() has thrown and whose error() is due

vars == <<ex, items, remaining, status, sending, queued, returned, failed>>

\* "popped" and "value": in the hands of a worker in value(); "failing": in the
\* hands of a worker in error().
Status == {"new", "queued", "popped", "value", "done", "failing", "error"}

Running == {i \in Item : status[i] \in {"popped", "value"}}
Failing == {i \in Item : status[i] = "failing"}

Decrement(n) == (n + Modulus - 1) % Modulus

-----------------------------------------------------------------------------
Init ==
  /\ ex \in Exec
  /\ items = <<>>
  /\ remaining = 0
  /\ status = [i \in Item |-> "new"]
  /\ sending = {}
  /\ queued = 0
  /\ returned = 0
  /\ failed = 0

\* strand_task::submit, from any thread or from the body of a running item:
\* "noone is minding the shop, send a worker".
Submit(i) ==
  /\ status[i] = "new"
  /\ status' = [status EXCEPT ![i] = "queued"]
  /\ items' = Append(items, i)
  /\ sending' = IF remaining = 0 THEN sending \cup {i} ELSE sending
  /\ UNCHANGED <<remaining, queued, returned, failed>>

\* The rest of submit(), after guard.unlock().
SendWorker(i) ==
  /\ i \in sending
  /\ sending' = sending \ {i}
  /\ queued' = queued + 1
  /\ UNCHANGED <<items, remaining, status, returned, failed>>

\* The executor cannot take the worker; submit() passes the exception on.
SendThrows(i) ==
  /\ ex = "failing"
  /\ i \in sending
  /\ sending' = sending \ {i}
  /\ UNCHANGED <<items, remaining, status, queued, returned, failed>>

\* One turn of the loop of value(): take the next item or leave.  Its condition
\* --remaining_ >= 0 decrements, and is true because size_t is unsigned.
Take(count, st) ==
  IF items = <<>>
  THEN status' = st /\ returned' = returned + 1 /\ UNCHANGED <<items, remaining>>
  ELSE /\ status' = [st EXCEPT ![Head(items)] = "popped"]
       /\ items' = Tail(items)
       /\ remaining' = Decrement(count)
       /\ UNCHANGED returned

\* Mutant: remaining_ is set one too high.
ValueCountsOneMore ==
  /\ queued > 0
  /\ queued' = queued - 1
  /\ IF remaining > 0
     THEN returned' = returned + 1 /\ UNCHANGED <<items, remaining, status>>
     ELSE Take(Len(items) + 1, status)
  /\ UNCHANGED <<sending, failed>>

\* strand_queue::value up to the first unlock: "only allow one at a time".
Value ==
  /\ queued > 0
  /\ queued' = queued - 1
  /\ IF remaining > 0
     THEN returned' = returned + 1 /\ UNCHANGED <<items, remaining, status>>
     ELSE Take(Len(items), status)
  /\ UNCHANGED <<sending, failed>>

\* set_value(item.what, ...), without the lock.
RunItem(i) ==
  /\ status[i] = "popped"
  /\ status' = [status EXCEPT ![i] = "value"]
  /\ UNCHANGED <<items, remaining, sending, queued, returned, failed>>

\* Mutant: value() takes one item and leaves.
NextItemLeaves(i) ==
  /\ status[i] = "value"
  /\ status' = [status EXCEPT ![i] = "done"]
  /\ returned' = returned + 1
  /\ UNCHANGED <<items, remaining, sending, queued, failed>>

\* set_done(item.what), guard.lock() and the next turn of the loop.
NextItem(i) ==
  /\ status[i] = "value"
  /\ Take(remaining, [status EXCEPT ![i] = "done"])
  /\ UNCHANGED <<sending, queued, failed>>

\* strand_queue::error up to the first unlock.  The executor reports that it
\* could not run a worker, or done() has thrown.
Error ==
  /\ \/ ex = "failing" /\ queued > 0 /\ queued' = queued - 1 /\ UNCHANGED failed
     \/ failed > 0 /\ failed' = failed - 1 /\ UNCHANGED queued
  /\ remaining' = 0
  /\ IF items = <<>>
     THEN UNCHANGED <<items, status>>
     ELSE /\ status' = [status EXCEPT ![Head(items)] = "failing"]
          /\ items' = Tail(items)
  /\ UNCHANGED <<sending, returned>>

\* Mutant: error() does not pop the items it fails.
FailItemKeeps(i) ==
  /\ status[i] = "failing"
  /\ status' = IF items = <<>> THEN [status EXCEPT ![i] = "error"]
               ELSE [status EXCEPT ![i] = "error", ![Head(items)] = "failing"]
  /\ UNCHANGED <<items, remaining, sending, queued, returned, failed>>

\* set_error(what, e), guard.lock() and the next turn of error()'s loop.
FailItem(i) ==
  /\ status[i] = "failing"
  /\ IF items = <<>>
     THEN status' = [status EXCEPT ![i] = "error"] /\ UNCHANGED items
     ELSE /\ status' = [status EXCEPT ![i] = "error", ![Head(items)] = "failing"]
          /\ items' = Tail(items)
  /\ UNCHANGED <<remaining, sending, queued, returned, failed>>

\* strand_queue::done: another worker for what was queued meanwhile.
Done ==
  /\ returned > 0
  /\ returned' = returned - 1
  /\ queued' = IF remaining > 0 \/ items = <<>> THEN queued ELSE queued + 1
  /\ UNCHANGED <<items, remaining, status, sending, failed>>

\* That submission throws; set_done() turns the exception into error().
DoneThrows ==
  /\ ex = "failing"
  /\ returned > 0
  /\ remaining = 0 /\ items # <<>>
  /\ returned' = returned - 1
  /\ failed' = failed + 1
  /\ UNCHANGED <<items, remaining, status, sending, queued>>

-----------------------------------------------------------------------------
\* Every item has been submitted and no worker is left.
Finished == /\ \A i \in Item : status[i] \notin {"new", "popped", "value", "failing"}
            /\ sending = {} /\ queued = 0 /\ returned = 0 /\ failed = 0
            /\ UNCHANGED vars

Worker(i) == SendWorker(i) \/ SendThrows(i) \/ RunItem(i) \/ NextItem(i) \/ FailItem(i)
Start == Value \/ Error
End == Done \/ DoneThrows

Next == \/ /\ Start \/ End \/ \E i \in Item : Submit(i) \/ Worker(i)
           /\ UNCHANGED ex
        \/ Finished

\* The executor runs every worker it accepted, bodies of items return, and a
\* call of submit() completes.
Fairness == /\ WF_vars(Start /\ UNCHANGED ex)
            /\ WF_vars(End /\ UNCHANGED ex)
            /\ \A i \in Item : WF_vars(Worker(i) /\ UNCHANGED ex)

Spec == Init /\ [][Next]_vars
FairSpec == Spec /\ Fairness

-----------------------------------------------------------------------------
TypeOK ==
  /\ ex \in Exec
  /\ items \in Seq(Item)
  /\ remaining \in 0..(Modulus - 1)
  /\ status \in [Item -> Status]
  /\ sending \in SUBSET Item
  /\ queued \in Nat
  /\ returned \in Nat
  /\ failed \in Nat

\* remaining_ has been decremented below zero.
Wrapped == remaining > Cardinality(Item)

\* Some worker is draining the queue or is on its way.
Minded == \/ sending # {} \/ queued > 0 \/ returned > 0 \/ failed > 0
          \/ Running # {} \/ Failing # {}

\* Every item is at one place: the queue holds exactly the items with status
\* "queued", each of them once, although two workers and two error loops may be
\* draining it at the same time.
QueueConsistent ==
  /\ \A i \in Item : status[i] = "queued" <=> \E k \in 1..Len(items) : items[k] = i
  /\ \A j, k \in 1..Len(items) : items[j] = items[k] => j = k

\* On a reliable executor, as long as remaining_ has not wrapped, it is at most the number of items in
\* the queue, whatever number of workers decrement it.
CounterBounded == ex = "reliable" => remaining <= Len(items) \/ Wrapped

\* The decision of submit() not to send a worker is right, on a reliable executor
\* as long as remaining_ has not wrapped: no item is left without a worker.
NothingStranded == ex = "reliable" /\ items # <<>> => Minded \/ Wrapped

\* "only allow one at a time": the strand runs one item at a time.
OneAtATime == Cardinality(Running) <= 1

\* On a reliable executor every item submitted completes unless remaining_ wraps.
ItemsCompleteUnlessWrapped ==
  \A i \in Item : ex = "reliable" /\ status[i] = "queued" ~> (status[i] = "done" \/ Wrapped)

\* Every item submitted completes: whenever noone is minding the shop, submit()
\* sends a worker.
ItemsComplete == \A i \in Item : status[i] = "queued" ~> status[i] \in {"done", "error"}
=============================================================================
