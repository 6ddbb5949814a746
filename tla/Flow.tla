-------------------------------- MODULE Flow --------------------------------
(***************************************************************************)
(* A flow: a source made by flow_from (include/pushmi/o/from.h), perhaps    *)
(* moved by on (o/on.h) and via (o/via.h), and its consumer: for_each       *)
(* (o/for_each.h) or a flow receiver of the user that asks for values and   *)
(* cancels.  The consumer calls up, the source's receiver for requests,     *)
(* from the functions the source calls, and from another thread.            *)
(*                                                                         *)
(* The source does all its work in jobs it submits to one executor.  limit  *)
(* says which: with 0 it is a strand, jobs run one after the other; a       *)
(* positive limit is a trampoline, where a job submitted from a job runs    *)
(* inside it up to that depth and is deferred beyond it.  stack holds the   *)
(* jobs that are running, the innermost last, and queue the waiting ones.   *)
(* via forwards every signal as an item of a second strand, posted.  (Over  *)
(* an inline executor via calls its receiver at once, which is the flow     *)
(* without via.)                                                            *)
(***************************************************************************)
EXTENDS FlowReceiver, Sequences, SequencesExt

CONSTANTS Length,     \* the number of values in the range
          MaxAsk,     \* bound on a single request
          Limits,     \* values of limit
          MaxFailures \* the submissions that throw

ASSUME FlowAssumption ==
  /\ Length \in Nat /\ MaxAsk \in Nat
  /\ MaxFailures \in 0..1  \* when the error of one is refused too, the process ends
  /\ Limits \subseteq Nat

VARIABLES
  limit,     \* the executor of the source, see above
  useVia,    \* whether the flow goes through via
  consumer,  \* "for_each" or "manual"
  phase,     \* of the submission: "new", "on" (an item of on's strand), "submitted",
             \* "refused" (submit() threw), "terminated" (an item of on's strand threw)
  c,         \* flow_from_producer::c, values taken from the range
  stop,      \* flow_from_producer::stop
  up,        \* done_ of the receiver around flow_from_up
  stack, queue,
  via,       \* via's flow receiver, of which started and done matter
  posted,    \* signals in via's strand
  fr,        \* the consumer's flow receiver
  out,       \* the receiver given to for_each
  got,       \* the values the consumer's function was called with
  asked,     \* what the consumer has requested
  held,      \* the consumer's other thread has up
  failures,  \* submissions that have thrown
  lost       \* the signal via could not forward: "none", "starting" or "done"

vars == <<limit, useVia, consumer, phase, c, stop, up, stack, queue, via, posted, fr, out,
          got, asked, held, failures, lost>>

setup  == <<limit, useVia, consumer>>
source == <<phase, c>>
unsent == <<via, posted, fr, out, got, held, lost>>

\* for_each submits its receiver Pull to the flow; a user submits any flow receiver.
Consumers == {"for_each", "manual"}

\* Only a request has values left to send.
Job == [job : {"request"}, remaining : 0..MaxAsk]
       \cup [job : {"starting", "finish", "end"}, remaining : {0}]

NewJob(job, remaining) == [job |-> job, remaining |-> remaining]

Init ==
  /\ limit \in Limits
  /\ useVia \in BOOLEAN
  /\ useVia => limit = 0
  /\ consumer \in Consumers
  /\ phase = "new"
  /\ c = 0
  /\ stop = FALSE
  /\ up = FALSE
  /\ stack = <<>>
  /\ queue = <<>>
  /\ via = NewFlowReceiver
  /\ posted = <<>>
  /\ fr = NewFlowReceiver
  /\ out = NewReceiver
  /\ got = <<>>
  /\ asked = 0
  /\ held = FALSE
  /\ failures = 0
  /\ lost = "none"

\* No flow receiver has called std::terminate().
Alive == ~via.dead /\ ~fr.dead

-----------------------------------------------------------------------------
\* The executor: submit a job from a thread whose running jobs are base.

InPlace(base) == limit > 0 /\ Len(base) <= limit

Submit(j, base) ==
  /\ stack' = IF InPlace(base) THEN Append(base, j) ELSE base
  /\ queue' = IF InPlace(base) THEN queue ELSE Append(queue, j)

\* What the consumer does with up: nothing (or a request for nothing, which value()
\* ignores), a request for 1..MaxAsk, or cancel.
Nothing == 0
Cancel  == MaxAsk + 1

CallsNothing(base) ==
  /\ stack' = base
  /\ UNCHANGED <<queue, stop, up, asked, failures>>

\* The executor, or via's strand, refuses a submission by an exception.
Refused ==
  /\ failures < MaxFailures
  /\ failures' = failures + 1

\* Mutant: nothing tells the consumer.
StopQuietly(base) ==
  /\ stop' = TRUE
  /\ stack' = base
  /\ UNCHANGED queue

\* flow_from_up::error and done: stop the loop, complete the consumer in a job.
Stop(base) ==
  /\ stop' = TRUE
  /\ Submit(NewJob("finish", 0), base)

\* A call of up, the receiver around flow_from_up.  What flow_from_up throws is handled on
\* flow_from_up itself, not on the receiver around it: when the submission of a request is
\* refused its error() stops the flow and up can still be called, and when the job of
\* done() is refused its error() submits that job again.
CallUp(ask, base) ==
  \/ /\ up \/ ask = Nothing
     /\ CallsNothing(base)
  \/ /\ ~up /\ ask \in 1..MaxAsk
     /\ asked' = asked + ask
     /\ \/ Submit(NewJob("request", ask), base) /\ UNCHANGED <<stop, failures>>
        \/ Refused /\ Stop(base)
     /\ UNCHANGED up
  \/ /\ ~up /\ ask = Cancel
     /\ up' = TRUE
     /\ Stop(base)
     /\ UNCHANGED failures \/ Refused
     /\ UNCHANGED asked

-----------------------------------------------------------------------------
\* The consumer.

\* What it asks for in starting() and in value().  for_each asks for one value at a time.
\* A user's receiver asks for anything, and may keep up for another thread when the
\* source is on a strand; it does not use it itself then.
AsksFirst == IF consumer = "for_each" THEN {1} ELSE Nothing..(IF limit = 0 THEN MaxAsk ELSE Cancel)
AsksMore  == IF consumer = "for_each" THEN {1}
             ELSE IF held THEN {Nothing} ELSE Nothing..Cancel

\* What a user's starting() throws becomes an error of the receiver, which has started.
ReceiveStarting(base) ==
  /\ \/ /\ fr' = Starting(fr)
        /\ held' = (consumer = "manual" /\ limit = 0)
        /\ \E ask \in AsksFirst : CallUp(ask, base)
     \/ /\ consumer = "manual"
        /\ fr' = FlowError(Starting(fr), "thrown")
        /\ CallsNothing(base)
        /\ UNCHANGED held
  /\ UNCHANGED <<out, got>>

\* Pull::value gives the value to for_each's receiver, which handles an exception itself,
\* and asks for the next one.  The exception of a user's function ends the flow receiver.
ReceiveValue(v, base) ==
  \/ /\ ~Listens(fr)
     /\ fr' = FlowValue(fr)
     /\ CallsNothing(base)
     /\ UNCHANGED <<out, got, held>>
  \/ /\ Listens(fr)
     /\ got' = Append(got, v)
     /\ \/ /\ consumer = "for_each"
           /\ fr' = FlowValue(fr)
           /\ \E throws \in BOOLEAN : out' = set_value(out, throws)
           /\ CallUp(1, base)
        \/ /\ consumer = "manual"
           /\ fr' = FlowValue(fr)
           /\ \E ask \in AsksMore : CallUp(ask, base)
           /\ UNCHANGED out
        \/ /\ consumer = "manual"
           /\ fr' = FlowError(fr, "thrown")
           /\ CallsNothing(base)
           /\ UNCHANGED out
     /\ UNCHANGED held

\* Pull::error and Pull::done pass the completion to for_each's receiver.
Pulls == consumer = "for_each" /\ Listens(fr)

ReceiveError(base) ==
  /\ fr' = FlowError(fr, "thrown")
  /\ out' = IF Pulls THEN set_error(out, "thrown") ELSE out
  /\ CallsNothing(base)
  /\ UNCHANGED <<got, held>>

ReceiveDone(base) ==
  /\ fr' = FlowDone(fr)
  /\ out' = IF Pulls THEN set_done(out) ELSE out
  /\ CallsNothing(base)
  /\ UNCHANGED <<got, held>>

Receive(s, base) ==
  \/ s.signal = "starting" /\ ReceiveStarting(base)
  \/ s.signal = "value" /\ ReceiveValue(s.value, base)
  \/ s.signal = "error" /\ ReceiveError(base)
  \/ s.signal = "done" /\ ReceiveDone(base)

Signal == [signal : {"starting", "value", "error", "done"}, value : 0..Length]

-----------------------------------------------------------------------------
\* via: its receiver changes state, and the signal becomes an item of the strand.
ForwardedVia(s) ==
  CASE s.signal = "starting" -> Starting(via)
    [] s.signal = "value"    -> via
    [] s.signal = "done"     -> FlowDone(via)

Forwards(s) == s.signal = "starting" \/ Listens(via)

Post(s) ==
  /\ via' = ForwardedVia(s)
  /\ posted' = IF Forwards(s) THEN Append(posted, s) ELSE posted
  /\ UNCHANGED <<failures, lost>>

\* The submission to the strand throws.  What on_value_impl throws goes to error() of via's
\* receiver, which posts it in place of the value; what on_done_impl throws too, but that
\* receiver is done and ignores it.  What via_fn_data::starting throws goes to the error()
\* that via_fn_data inherits from flow_receiver<>, whose own started_ was never set.
PostFails(s) ==
  /\ Forwards(s) /\ Refused
  /\ \/ /\ s.signal = "starting"
        /\ via' = terminate(Starting(via))
        /\ UNCHANGED posted
     \/ /\ s.signal = "value"
        /\ via' = FlowError(via, "thrown")
        /\ posted' = Append(posted, [signal |-> "error", value |-> 0])
     \/ /\ s.signal = "done"
        /\ via' = FlowDone(via)
        /\ UNCHANGED posted
  /\ lost' = IF s.signal = "value" THEN lost ELSE s.signal

\* The source calls its receiver.
Emit(signal, v, base) ==
  LET s == [signal |-> signal, value |-> v] IN
    \/ /\ useVia
       /\ Post(s) \/ PostFails(s)
       /\ stack' = base
       /\ UNCHANGED <<queue, stop, up, asked, fr, out, got, held>>
    \/ /\ ~useVia
       /\ Receive(s, base)
       /\ UNCHANGED <<via, posted, lost>>

\* Mutant: the strand takes the youngest item.
PostedLast == Len(posted)

PostedNext == 1

\* An item of via's strand runs.
RunPosted ==
  /\ Alive /\ posted # <<>>
  /\ Receive(posted[PostedNext], stack)
  /\ posted' = RemoveAt(posted, PostedNext)
  /\ UNCHANGED <<setup, source, via, lost>>

-----------------------------------------------------------------------------
\* The source.

\* on: submitting the source is an item of a strand.
SubmitOn ==
  /\ phase = "new"
  /\ phase' = "on"
  /\ UNCHANGED <<setup, c, stop, up, stack, queue, via, posted, fr, out, got, asked, held,
                 failures, lost>>

\* flow_from's sender: the producer is made, starting() is the first job.
SubmitFlow ==
  /\ phase \in {"new", "on"}
  /\ phase' = "submitted"
  /\ Submit(NewJob("starting", 0), stack)
  /\ UNCHANGED <<setup, c, stop, up, via, posted, fr, out, got, asked, held, failures, lost>>

\* The executor refuses that job.  The caller gets the exception; in an item of on's strand
\* it becomes an error of a receiver without an error function, which ends the process.
SubmitThrows ==
  /\ phase \in {"new", "on"}
  /\ Refused
  /\ phase' = IF phase = "new" THEN "refused" ELSE "terminated"
  /\ UNCHANGED <<setup, c, stop, up, stack, queue, via, posted, fr, out, got, asked, held,
                 lost>>

\* The executor goes on with the next job: the strand's worker, or the call that owns
\* the trampoline.
NextJob ==
  /\ Alive /\ stack = <<>> /\ queue # <<>>
  /\ stack' = <<Head(queue)>>
  /\ queue' = Tail(queue)
  /\ UNCHANGED <<setup, source, stop, up, via, posted, fr, out, got, asked, held, failures,
                 lost>>

Top == Last(stack)

\* The innermost job is such a job.
Runs(job) == Alive /\ stack # <<>> /\ Top.job = job

Rest(job, remaining) == Append(Front(stack), NewJob(job, remaining))

RunStarting ==
  /\ Runs("starting")
  /\ Emit("starting", 0, Rest("end", 0))
  /\ UNCHANGED <<setup, source>>

\* Mutants: one value more than requested, and one less.
GoesOnOneMore == (Top.remaining > 0 \/ c = asked) /\ ~stop /\ c # Length
GoesOnOneLess == Top.remaining > 1 /\ ~stop /\ c # Length

GoesOn == Top.remaining > 0 /\ ~stop /\ c # Length

\* One turn of the loop: c and remaining change before the consumer is called.
RunRequest ==
  /\ Runs("request") /\ GoesOn
  /\ c' = c + 1
  /\ Emit("value", c + 1, Rest("request", Top.remaining - 1))
  /\ UNCHANGED <<setup, phase>>

Exhausted == c = Length

\* The loop ends; the consumer is completed when the range is.
EndRequest ==
  /\ Runs("request") /\ ~GoesOn
  /\ \/ Exhausted /\ Emit("done", 0, Rest("end", 0))
     \/ ~Exhausted /\ CallsNothing(Rest("end", 0)) /\ UNCHANGED unsent
  /\ UNCHANGED <<setup, source>>

RunFinish ==
  /\ Runs("finish")
  /\ Emit("done", 0, Rest("end", 0))
  /\ UNCHANGED <<setup, source>>

EndJob ==
  /\ Runs("end")
  /\ CallsNothing(Front(stack))
  /\ UNCHANGED <<setup, source, unsent>>

\* The consumer's other thread cancels, or asks for more.
OtherThread ==
  /\ Alive /\ held
  /\ \E ask \in {1, Cancel} :
       /\ ask = 1 => asked < Length
       /\ CallUp(ask, stack)
       /\ held' = (ask # Cancel)
  /\ UNCHANGED <<setup, source, via, posted, fr, out, got, lost>>

Next ==
  \/ SubmitOn \/ SubmitFlow \/ SubmitThrows \/ NextJob
  \/ RunStarting \/ RunRequest \/ EndRequest \/ RunFinish \/ EndJob
  \/ RunPosted
  \/ OtherThread

Spec == Init /\ [][Next]_vars

\* Executors run what they accepted.  Nobody has to submit the flow, ask or cancel.
FairSpec ==
  /\ Spec
  /\ WF_vars(NextJob) /\ WF_vars(RunStarting \/ RunRequest \/ EndRequest \/ RunFinish \/ EndJob)
  /\ WF_vars(RunPosted)
  /\ WF_vars(phase = "on" /\ SubmitFlow)

-----------------------------------------------------------------------------
TypeOK ==
  /\ limit \in Limits /\ useVia \in BOOLEAN /\ consumer \in Consumers
  /\ phase \in {"new", "on", "submitted", "refused", "terminated"}
  /\ c \in 0..Length
  /\ stop \in BOOLEAN /\ up \in BOOLEAN /\ held \in BOOLEAN
  /\ stack \in Seq(Job) /\ Len(stack) <= limit + 1
  /\ queue \in Seq(Job)
  /\ via \in FlowReceiverType /\ fr \in FlowReceiverType
  /\ out \in ReceiverType
  /\ posted \in Seq(Signal)
  /\ got \in Seq(1..Length)
  /\ asked \in Nat /\ failures \in 0..MaxFailures
  /\ lost \in {"none", "starting", "done"}

\* The flow receivers' std::terminate() calls are not reached in the consumer's receiver:
\* starting() comes once and first, also through via and when up is used at once from
\* inside starting().  In via's receiver they are reached only when the strand refuses the
\* submission that carries starting(), which ends the process before the consumer has
\* heard of the flow.
NoTerminate ==
  /\ ~fr.dead
  /\ via.dead => lost = "starting" /\ ~fr.started

\* The source never takes more values than were requested, however requests, re-entrant
\* calls and cancellation interleave.
DemandRespected == c <= asked

\* The consumer gets the values of the range in order, each once; when it is told done
\* without having been cancelled it has got all of them.
EachOnceInOrder ==
  /\ \A i \in 1..Len(got) : got[i] = i
  /\ fr.end = "done" /\ ~stop => Len(got) = Length

Quiet == stack = <<>> /\ queue = <<>> /\ posted = <<>>

\* What was requested arrives: when nothing runs and nothing waits, a consumer that nobody
\* completed or cancelled has got as many values as it has asked for, however its requests
\* were nested in each other's loops or deferred.  (Unless via lost the done.)
RequestsServed ==
  Quiet /\ ~stop /\ ~Ended(fr) /\ lost = "none" => Len(got) = asked

\* The consumer has been completed, for_each's receiver with it.
Completed == Ended(fr) /\ (consumer = "for_each" => Ended(out))

\* for_each completes, and a cancelled flow completes, also when the cancellation races
\* with the end of the range, when a request or a value could not be submitted, and when
\* the job of the cancellation was refused.  The completion is lost only when via's strand
\* refuses done(); and the process may end, when on's item throws or via's strand refuses
\* starting().
FlowCompletes ==
  /\ (phase \in {"on", "submitted"} /\ consumer = "for_each")
       ~> (Completed \/ lost = "done" \/ phase = "terminated" \/ via.dead)
  /\ stop ~> (Completed \/ lost = "done")
=============================================================================
