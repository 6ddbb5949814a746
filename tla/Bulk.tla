-------------------------------- MODULE Bulk --------------------------------
(***************************************************************************)
(* The operator bulk of the examples (examples/bulk.h), with which for_each *)
(* and reduce are made, and its two targets: inline_bulk_target calls the   *)
(* function for every index in a loop; naive_executor_bulk_target           *)
(* (examples/reduce/reduce_2.cpp, for_each/for_each_2.cpp) submits a task   *)
(* for the loop to an executor, which submits a task for every index.  The  *)
(* tasks accumulate with compare-and-exchange, and the one that counts      *)
(* pending down to zero completes the receiver.                             *)
(*                                                                         *)
(* The accumulated value is the set of the indices in it, which the         *)
(* function adds to.  The executor (examples/pool.h) runs what it accepts   *)
(* in any order and may throw instead of accepting.                         *)
(***************************************************************************)
EXTENDS Receiver

CONSTANTS Length,    \* the number of indices
          MayThrow   \* whether allocation and submission may throw

ASSUME BulkAssumption == Length \in Nat /\ MayThrow \in BOOLEAN

Index == 1..Length

VARIABLES
  target,     \* "inline" or "naive"
  input,      \* what the sender sends: "value" (then done), "error" or "done"
  sending,    \* how far it is: "new", "value", "sent"
  empty,      \* data::empty of bulk's receiver
  root,       \* the task with the loop: "none", "queued", "loop", "ended", or "failing"
              \* for the task that takes its place when it could not be made
  idx,        \* the loop's index
  step,       \* where the task of each index is: "none", "queued", "loaded", "threw",
              \* "stores", "counts", "ended"
  old,        \* the accumulated value each task has seen
  acc,        \* accumulation
  left,       \* pending, the tasks that have not counted themselves off
  exceptions, \* the exception count
  first,      \* the first exception, an index or 0
  finishing,  \* pending is 0: "no", "result", "done" (the value was given), "finished"
  dest,       \* the receiver given to bulk
  aborted     \* std::terminate() was called

bulkVars == <<target, input, sending, empty, root, idx, step, old, acc, left, exceptions,
              first, finishing, dest, aborted>>

inputVars == <<target, input, sending, empty>>
loopVars  == <<root, idx>>
taskVars  == <<step, old>>
state     == <<acc, left, exceptions, first>>

BulkInit ==
  /\ target \in {"inline", "naive"}
  /\ input \in {"value", "error", "done"}
  /\ sending = "new"
  /\ empty = TRUE
  /\ root = "none"
  /\ idx = 1
  /\ step = [i \in Index |-> "none"]
  /\ old = [i \in Index |-> {}]
  /\ acc = {}
  /\ left = 1
  /\ exceptions = 0
  /\ first = 0
  /\ finishing = "no"
  /\ dest = NewReceiver
  /\ aborted = FALSE

-----------------------------------------------------------------------------
\* bulk's receiver gets a value and calls the target.  The naive one allocates and
\* submits the loop, and if that throws submits a task that passes the exception on; its
\* receiver was moved from, but those of get and blocking_submit hold plain pointers and
\* work still.  If that throws too, it does so in a noexcept function.
BulkValue ==
  /\ ~aborted /\ sending = "new" /\ input = "value"
  /\ sending' = "value"
  /\ empty' = FALSE
  /\ \/ root' = (IF target = "inline" THEN "loop" ELSE "queued") /\ UNCHANGED aborted
     \/ MayThrow /\ target = "naive" /\ root' = "failing" /\ UNCHANGED aborted
     \/ MayThrow /\ target = "naive" /\ aborted' = TRUE /\ UNCHANGED root
  /\ UNCHANGED <<target, input, idx, taskVars, state, finishing, dest>>

\* error() and done() of bulk's receiver; done is passed through only when it is empty.
\* An inline target has finished when the value function returns.
BulkCompletes ==
  /\ ~aborted
  /\ \/ sending = "new" /\ input # "value"
     \/ sending = "value" /\ (target = "inline" => finishing = "finished")
  /\ sending' = "sent"
  /\ dest' = IF input = "error" THEN set_error(dest, "error")
             ELSE IF empty THEN set_done(dest) ELSE dest
  /\ UNCHANGED <<target, input, empty, loopVars, taskVars, state, finishing, aborted>>

-----------------------------------------------------------------------------
(* naive_executor_bulk_target *)

\* The executor runs the task that takes the place of the loop.
RunFailing ==
  /\ ~aborted /\ root = "failing"
  /\ root' = "ended"
  /\ dest' = set_error(dest, "thrown")
  /\ UNCHANGED <<inputVars, idx, taskVars, state, finishing, aborted>>

RunLoop ==
  /\ ~aborted /\ root = "queued"
  /\ root' = "loop"
  /\ UNCHANGED <<inputVars, idx, taskVars, state, finishing, dest, aborted>>

\* One turn of the loop: count a task and submit it.  If that throws, the exception leaves
\* the loop's function, whose receiver has no error function.
SubmitIndex ==
  /\ ~aborted /\ target = "naive" /\ root = "loop" /\ idx <= Length
  /\ left' = left + 1
  /\ \/ /\ step' = [step EXCEPT ![idx] = "queued"]
        /\ idx' = idx + 1
        /\ UNCHANGED aborted
     \/ /\ MayThrow /\ aborted' = TRUE
        /\ UNCHANGED <<step, idx>>
  /\ UNCHANGED <<inputVars, root, old, acc, exceptions, first, finishing, dest>>

\* stepDone: whoever counts down to zero completes the receiver.
StepDone ==
  /\ left' = left - 1
  /\ finishing' = IF left = 1 THEN "result" ELSE finishing

LoopEnds ==
  /\ ~aborted /\ target = "naive" /\ root = "loop" /\ idx > Length
  /\ root' = "ended"
  /\ StepDone
  /\ UNCHANGED <<inputVars, idx, taskVars, acc, exceptions, first, dest, aborted>>

\* The task of index i: load the accumulated value.
Load(i) ==
  /\ ~aborted /\ step[i] = "queued"
  /\ step' = [step EXCEPT ![i] = "loaded"]
  /\ old' = [old EXCEPT ![i] = acc]
  /\ UNCHANGED <<inputVars, loopVars, state, finishing, dest, aborted>>

\* Mutant: the new value is stored without comparing.
StoreUncompared(i) ==
  /\ ~aborted /\ step[i] = "loaded"
  /\ acc' = old[i] \cup {i}
  /\ step' = [step EXCEPT ![i] = "counts"]
  /\ UNCHANGED <<inputVars, loopVars, old, left, exceptions, first, finishing, dest, aborted>>

\* The function is called with a copy, which replaces the accumulated value if that has
\* not changed; otherwise once more with what it is now.
CompareExchange(i) ==
  /\ ~aborted /\ step[i] = "loaded"
  /\ \/ /\ acc = old[i]
        /\ acc' = acc \cup {i}
        /\ step' = [step EXCEPT ![i] = "counts"]
        /\ UNCHANGED old
     \/ /\ acc # old[i]
        /\ old' = [old EXCEPT ![i] = acc]
        /\ UNCHANGED <<acc, step>>
  /\ UNCHANGED <<inputVars, loopVars, left, exceptions, first, finishing, dest, aborted>>

\* The function throws, in the first call or a later one.
FunctionThrows(i) ==
  /\ ~aborted /\ step[i] = "loaded"
  /\ step' = [step EXCEPT ![i] = "threw"]
  /\ UNCHANGED <<inputVars, loopVars, old, state, finishing, dest, aborted>>

\* The exceptions are counted, and the first one is stored.
CountException(i) ==
  /\ ~aborted /\ step[i] = "threw"
  /\ exceptions' = exceptions + 1
  /\ step' = [step EXCEPT ![i] = IF exceptions = 0 THEN "stores" ELSE "counts"]
  /\ UNCHANGED <<inputVars, loopVars, old, acc, left, first, finishing, dest, aborted>>

StoreException(i) ==
  /\ ~aborted /\ step[i] = "stores"
  /\ first' = i
  /\ step' = [step EXCEPT ![i] = "counts"]
  /\ UNCHANGED <<inputVars, loopVars, old, acc, left, exceptions, finishing, dest, aborted>>

TaskDone(i) ==
  /\ ~aborted /\ step[i] = "counts"
  /\ step' = [step EXCEPT ![i] = "ended"]
  /\ StepDone
  /\ UNCHANGED <<inputVars, loopVars, old, acc, exceptions, first, dest, aborted>>

\* The stored exception, or the result, which the selector makes and may throw at.
FinishResult ==
  /\ ~aborted /\ finishing = "result"
  /\ \/ /\ first # 0
        /\ dest' = set_error(dest, "thrown")
        /\ finishing' = "finished"
     \/ /\ first = 0
        /\ \E throws \in BOOLEAN : dest' = set_value(dest, throws)
        /\ finishing' = "done"
     \/ /\ first = 0
        /\ dest' = set_error(dest, "thrown")
        /\ finishing' = "finished"
  /\ UNCHANGED <<inputVars, loopVars, taskVars, state, aborted>>

FinishDone ==
  /\ ~aborted /\ finishing = "done"
  /\ dest' = set_done(dest)
  /\ finishing' = "finished"
  /\ UNCHANGED <<inputVars, loopVars, taskVars, state, aborted>>

-----------------------------------------------------------------------------
(* inline_bulk_target *)

\* Making the value to begin with throws.
InlineInitThrows ==
  /\ ~aborted /\ target = "inline" /\ root = "loop" /\ idx = 1
  /\ root' = "ended"
  /\ dest' = set_error(dest, "thrown")
  /\ finishing' = "finished"
  /\ UNCHANGED <<inputVars, idx, taskVars, state, aborted>>

InlineCall ==
  /\ ~aborted /\ target = "inline" /\ root = "loop" /\ idx <= Length
  /\ acc' = acc \cup {idx}
  /\ step' = [step EXCEPT ![idx] = "ended"]
  /\ idx' = idx + 1
  /\ UNCHANGED <<inputVars, root, old, left, exceptions, first, finishing, dest, aborted>>

\* The function throws: the rest of the loop is left out.
InlineThrows ==
  /\ ~aborted /\ target = "inline" /\ root = "loop" /\ idx <= Length
  /\ root' = "ended"
  /\ step' = [step EXCEPT ![idx] = "ended"]
  /\ first' = idx
  /\ finishing' = "result"
  /\ UNCHANGED <<inputVars, idx, old, acc, left, exceptions, dest, aborted>>

\* The result goes the same way as above.
InlineEnds ==
  /\ ~aborted /\ target = "inline" /\ root = "loop" /\ idx > Length
  /\ root' = "ended"
  /\ finishing' = "result"
  /\ UNCHANGED <<inputVars, idx, taskVars, state, dest, aborted>>

-----------------------------------------------------------------------------
LoopStep == RunFailing \/ RunLoop \/ SubmitIndex \/ LoopEnds
TaskStep(i) ==
  \/ Load(i) \/ CompareExchange(i) \/ FunctionThrows(i) \/ CountException(i)
  \/ StoreException(i) \/ TaskDone(i)
Inline == InlineInitThrows \/ InlineCall \/ InlineThrows \/ InlineEnds

BulkNext ==
  \/ BulkValue \/ BulkCompletes
  \/ LoopStep \/ Inline \/ FinishResult \/ FinishDone
  \/ \E i \in Index : TaskStep(i)

BulkSpec == BulkInit /\ [][BulkNext]_bulkVars

\* The executor runs what it accepted, and functions return.  Nobody has to submit.
BulkFairness ==
  /\ WF_bulkVars(LoopStep \/ Inline)
  /\ WF_bulkVars(FinishResult \/ FinishDone)
  /\ \A i \in Index : WF_bulkVars(TaskStep(i))

-----------------------------------------------------------------------------
Result ==
  CASE dest.end \in Errors              -> "error"
    [] dest.n > 0                       -> "value"
    [] dest.n = 0 /\ dest.end = "done"  -> "done"
    [] OTHER                            -> "none"

\* The indices whose last call of the function has returned or thrown.
Called == {i \in Index : step[i] \in {"threw", "stores", "counts", "ended"}}

Abstract ==
  INSTANCE Reduction WITH
    called <- Called,
    threw <- Called \ acc # {},
    sum <- acc,
    result <- Result

\* Both targets are reductions: in every interleaving of the tasks the result comes once,
\* after the last call of the function, from all that was accumulated, and an exception of
\* any call makes it an error.  It does come, unless the process ends.
BulkReduces ==
  /\ Abstract!Spec
  /\ sending # "new" ~> Ended(dest) \/ aborted
=============================================================================
