------------------------------ MODULE Pipeline ------------------------------
(***************************************************************************)
(* A chain of operators between a sender and a receiver: the sources just,  *)
(* error, empty, from and defer, and any sender a user makes; the operators *)
(* transform, filter, tap and switch_on_error (include/pushmi/o/); at the   *)
(* end a std::promise, a receiver made from some functions, get, which      *)
(* submits, waits and reads what its own two functions stored, or, without  *)
(* the receiver that the operator submit makes, the promise of future_from  *)
(* or a nullary function.                                                   *)
(*                                                                         *)
(* submit() builds a receiver for every operator around the next one        *)
(* (extension_operators.h, boosters.h); all have a done_ flag.  A signal    *)
(* then goes down the chain in nested calls of which each is the last thing *)
(* its caller does, so the model keeps one call at a time, the call of      *)
(* position i of the chain with a signal.  switch_on_error submits another  *)
(* sender from its error(): senders form a stack.                           *)
(***************************************************************************)
EXTENDS Receiver, Sequences, SequencesExt, FiniteSets

CONSTANTS Chains,     \* sequences of operators
          MaxChain,   \* bound on their length
          MaxSignals, \* bound on the signals of a user's sender
          MaxValues   \* bound on the length of a range

ASSUME PipelineAssumption ==
  /\ MaxChain \in Nat /\ MaxSignals \in Nat /\ MaxValues \in Nat
  /\ \A ch \in Chains :
       /\ ch \in Seq({"transform", "filter", "tap", "switch_on_error"})
       /\ Len(ch) <= MaxChain

VARIABLES
  chain,    \* the operators, position 1 is called by the sender
  kind,     \* the end of the chain: "functions", "promise", "get", "future", "nullary"
  given,    \* the functions the user gave
  sender,   \* the sender the user submitted
  script,   \* the signals it sends
  phase,    \* of its submit(): "new", "called", "refused"
  senders,  \* senders that are sending, each to a position, the innermost last
  call,     \* the call that is running, or Idle
  done,     \* done_ of the receiver at each position, the end included
  side,     \* the side effects receiver of each position
  sink,     \* the functions at the end
  dead,     \* std::terminate() was called
  result    \* of get: "none" before it returns

vars == <<chain, kind, given, sender, script, phase, senders, call, done, side, sink, dead,
          result>>
setup == <<chain, kind, given, sender, script, result>>

Signal == {"value", "error", "done"}
Idle   == [at |-> 0, signal |-> "done"]
End    == Len(chain) + 1

\* The signals of a sender.
Just  == {<<"value", "done">>}
Fail  == {<<"error">>}
Empty == {<<"done">>}
From  == {[i \in 1..n |-> "value"] \o <<"done">> : n \in 0..MaxValues}
User  == UNION {[1..n -> Signal] : n \in 0..MaxSignals}

Senders == {"just", "error", "empty", "from", "user"}

Scripts(s) ==
  CASE s = "just" -> Just [] s = "error" -> Fail [] s = "empty" -> Empty
    [] s = "from" -> From [] s = "user" -> User

Completes(sc) == \E i \in 1..Len(sc) : sc[i] # "value"

\* The overloads of make_receiver for functions (on_value, on_error, on_done).  There is
\* none for a value and a done function: two functions of which the second takes no
\* argument are taken to be an error and a done function.
Overloads == (SUBSET Signal) \ {{"value", "done"}}

\* The ends of a chain that are no receivers of the library: they have no done_ flag.
Unwrapped == {"future", "nullary"}

\* The functions an operator makes its receiver from; the others pass the signal on.
Replaces(op) ==
  CASE op \in {"transform", "filter"} -> {"value"}
    [] op = "tap"                     -> Signal
    [] op = "switch_on_error"         -> {"error"}

NotDone == [i \in 1..End |-> FALSE]

\* A promise cannot be copied, which switch_on_error needs.
Init ==
  /\ chain \in Chains
  /\ \/ kind = "functions" /\ given \in Overloads
     \/ kind \in {"promise", "future", "get"} /\ given = {"value", "error"}
     \/ kind = "nullary" /\ given = {"value"}
  /\ kind \in {"promise", "future"} => \A i \in 1..Len(chain) : chain[i] # "switch_on_error"
  /\ sender \in Senders
  /\ script \in Scripts(sender)
  /\ phase = "new"
  /\ senders = <<>>
  /\ call = Idle
  /\ done = NotDone
  /\ side = [i \in 1..End |-> NewReceiver]
  /\ sink = NewReceiver
  /\ dead = FALSE
  /\ result = "none"

-----------------------------------------------------------------------------
\* The receivers are made and the sender is submitted.
Start ==
  /\ phase = "new"
  /\ phase' = "called"
  /\ senders' = <<[to |-> 1, script |-> script]>>
  /\ UNCHANGED <<setup, call, done, side, sink, dead>>

\* in | op | ... | submit(out), or get.
Submit == kind \notin Unwrapped /\ Start

\* future_from(in | op | ...), or submit(in | op | ..., out).
SubmitUnwrapped == kind \in Unwrapped /\ Start

\* defer: the function that makes the sender throws, and so does submit().
DeferThrows ==
  /\ phase = "new"
  /\ phase' = "refused"
  /\ UNCHANGED <<setup, senders, call, done, side, sink, dead>>

\* A sender sends its next signal, when the call before has returned.
Send ==
  /\ call = Idle /\ ~dead
  /\ senders # <<>> /\ Last(senders).script # <<>>
  /\ call' = [at |-> Last(senders).to, signal |-> Head(Last(senders).script)]
  /\ senders' = [senders EXCEPT ![Len(senders)].script = Tail(@)]
  /\ UNCHANGED <<setup, phase, done, side, sink, dead>>

SenderReturns ==
  /\ call = Idle /\ ~dead
  /\ senders # <<>> /\ Last(senders).script = <<>>
  /\ senders' = Front(senders)
  /\ UNCHANGED <<setup, phase, call, done, side, sink, dead>>

-----------------------------------------------------------------------------
\* Mutant: the receivers do not look at done_.
IgnoresNothing(i) == FALSE

\* A receiver that is done ignores every signal.
Ignores(i) == done[i] /\ (i = End => kind \notin Unwrapped)

Ignored ==
  /\ call # Idle /\ ~dead
  /\ Ignores(call.at)
  /\ call' = Idle
  /\ UNCHANGED <<setup, phase, senders, done, side, sink, dead>>

\* The call of an operator at position i with signal s.
At(i, s) == call # Idle /\ ~dead /\ call = [at |-> i, signal |-> s] /\ ~Ignores(i)

\* Mutant: the exception is dropped.
FailedDropped(i) == Idle

\* set_value's handler: the receiver whose value function threw gets the error.
Failed(i) == [at |-> i, signal |-> "error"]

Pass(i) == [at |-> i + 1, signal |-> call.signal]

\* transform: the function converts the value or throws.
TransformValue(i) ==
  /\ At(i, "value") /\ chain[i] = "transform"
  /\ call' \in {Pass(i), Failed(i)}
  /\ UNCHANGED <<setup, phase, senders, done, side, sink, dead>>

\* filter: the predicate accepts the value, rejects it or throws.
FilterValue(i) ==
  /\ At(i, "value") /\ chain[i] = "filter"
  /\ call' \in {Pass(i), Idle, Failed(i)}
  /\ UNCHANGED <<setup, phase, senders, done, side, sink, dead>>

\* tap_::value: the side effects first; what they throw stays with them.
TapValue(i) ==
  /\ At(i, "value") /\ chain[i] = "tap"
  /\ \E throws \in BOOLEAN : side' = [side EXCEPT ![i] = set_value(@, throws)]
  /\ call' = Pass(i)
  /\ UNCHANGED <<setup, phase, senders, done, sink, dead>>

\* Mutant: the side effects are not told of errors.
SideDoneOnly(i) ==
  IF call.signal = "done" THEN [side EXCEPT ![i] = set_done(@)] ELSE side

\* tap_::error and done.  The side effects have an error function; without one abortEF
\* would end the process.
SideCompletion(i) ==
  [side EXCEPT ![i] = IF call.signal = "done" THEN set_done(@) ELSE set_error(@, "error")]

TapCompletion(i) ==
  /\ At(i, "error") \/ At(i, "done")
  /\ chain[i] = "tap"
  /\ done' = [done EXCEPT ![i] = TRUE]
  /\ side' = SideCompletion(i)
  /\ call' = Pass(i)
  /\ UNCHANGED <<setup, phase, senders, sink, dead>>

\* passDVF, passDEF and passDDF: a signal the operator has no function for.
PassOn(i, s) ==
  /\ At(i, s) /\ s \notin Replaces(chain[i])
  /\ done' = [done EXCEPT ![i] = @ \/ s # "value"]
  /\ call' = Pass(i)
  /\ UNCHANGED <<setup, phase, senders, side, sink, dead>>

\* switch_on_error: the selector chooses another sender, which is submitted to a copy of
\* the rest of the chain.
SwitchError(i) ==
  /\ At(i, "error") /\ chain[i] = "switch_on_error"
  /\ done' = [done EXCEPT ![i] = TRUE]
  /\ \E s \in {"just", "error", "empty"} : \E sc \in Scripts(s) :
       senders' = Append(senders, [to |-> i + 1, script |-> sc])
  /\ call' = Idle
  /\ UNCHANGED <<setup, phase, side, sink, dead>>

-----------------------------------------------------------------------------
Satisfied == kind \in {"promise", "future"} /\ Told(sink)

\* get uses blocking_submit for a sender that is not always blocking.
Blocking == kind = "get" /\ sender = "user"

\* What the receiver at the end wraps gets the exception of its own set_value, inside the
\* value function of the receiver, which therefore does not count as failed: a promise,
\* and the copy of get's receiver that blocking_submit's function takes as its argument.
CaughtInside == kind \in {"promise", "future"} \/ Blocking

\* The end of the chain gets a value.  A function that throws is given the exception;
\* a promise that has a result throws, and so does its set_exception.  Without a value
\* function there is ignoreVF.
SinkValue ==
  /\ At(End, "value")
  /\ \/ /\ "value" \notin given
        /\ call' = Idle
        /\ UNCHANGED <<sink, dead>>
     \/ /\ "value" \in given /\ ~Satisfied
        /\ sink' = [sink EXCEPT !.n = @ + 1]
        /\ call' = Idle
        /\ UNCHANGED dead
     \/ /\ "value" \in given /\ ~Satisfied /\ ~CaughtInside
        /\ call' = Failed(End)
        /\ UNCHANGED <<sink, dead>>
     \/ /\ "value" \in given /\ ~Satisfied /\ CaughtInside
        /\ sink' = [sink EXCEPT !.end = "error"]
        /\ call' = Idle
        /\ UNCHANGED dead
     \/ /\ Satisfied
        /\ dead' = TRUE
        /\ UNCHANGED <<sink, call>>
  /\ UNCHANGED <<setup, phase, senders, done, side>>

\* An error: without an error function there is abortEF, and a nullary function ends the
\* process too; a promise keeps one result.
SinkError ==
  /\ At(End, "error")
  /\ done' = [done EXCEPT ![End] = TRUE]
  /\ dead' = ("error" \notin given \/ Satisfied)
  /\ sink' = IF dead' THEN sink ELSE [sink EXCEPT !.end = "error"]
  /\ call' = Idle
  /\ UNCHANGED <<setup, phase, senders, side>>

\* done: without a done function there is ignoreDF; a promise has none.
SinkDone ==
  /\ At(End, "done")
  /\ done' = [done EXCEPT ![End] = TRUE]
  /\ sink' = IF "done" \in given THEN [sink EXCEPT !.end = "done"] ELSE sink
  /\ call' = Idle
  /\ UNCHANGED <<setup, phase, senders, side, dead>>

Returned == phase = "called" /\ senders = <<>> /\ call = Idle

\* operator* of an opt: of an empty one, what it returns is not an object.
Read(r) == IF r.n > 0 THEN "value" ELSE "undefined"

\* get, after it submitted and, for a sender that is not always blocking, waited until
\* blocking_submit's receiver was told error or done (lock_state::done): an error is
\* thrown, else the result is read, which nobody may have stored.
Get ==
  /\ kind = "get" /\ Returned /\ ~dead /\ result = "none"
  /\ Blocking => done[End]
  /\ result' = IF Ended(sink) THEN "error" ELSE Read(sink)
  /\ UNCHANGED <<chain, kind, given, sender, script, phase, senders, call, done, side, sink, dead>>

Next ==
  \/ Submit \/ SubmitUnwrapped \/ DeferThrows \/ Send \/ SenderReturns \/ Ignored
  \/ \E i \in 1..Len(chain) :
       \/ TransformValue(i) \/ FilterValue(i)
       \/ TapValue(i) \/ TapCompletion(i) \/ SwitchError(i)
       \/ \E s \in Signal : PassOn(i, s)
  \/ SinkValue \/ SinkError \/ SinkDone \/ Get

Spec == Init /\ [][Next]_vars

-----------------------------------------------------------------------------
Kind(e) == IF e \in Errors THEN "error" ELSE e

\* The functions at the end, as number 0, and the side effects of the operators.  The
\* functions behind blocking_submit are left out: it hands every signal to another copy
\* of their receiver, so after they threw they are called with the next value again.
Observed(i) ==
  IF i = 0 /\ ~Blocking THEN sink
  ELSE IF i \in 1..Len(chain) THEN side[i] ELSE NewReceiver

\* The functions at the end (behind submit, not behind blocking_submit), and the side
\* effects of every tap, are used as the contract says, even by a sender that goes on
\* after its completion.
Contract ==
  INSTANCE ReceiverContract WITH
    Receivers <- 0..MaxChain,
    n <- [i \in 0..MaxChain |-> Observed(i).n],
    end <- [i \in 0..MaxChain |-> Kind(Observed(i).end)]

ContractKept == Contract!Spec

\* Senders that complete have completed everything when submit() returns: no operator
\* swallows a completion, also when functions of several operators threw on the way or
\* the sender was switched; the side effects of a tap hear of it too.
AllCompleted ==
  Returned /\ Completes(script) /\ ~dead =>
    /\ done[End]
    /\ given = Signal => Ended(sink)
    /\ \A i \in 1..Len(chain) :
         done[i] /\ chain[i] = "tap" => Ended(side[i])

\* get reads an empty result only if the sender was done without a value or an error, or
\* a filter or a sender chosen on an error kept them from it.
ResultDefined ==
  result = "undefined" =>
    \/ Head(script) = "done"
    \/ \E i \in 1..Len(chain) : chain[i] \in {"filter", "switch_on_error"}

\* A sender that keeps to the protocol of a single: at most one value, and an error only
\* instead of a value, up to the first completion.
First(sc) == CHOOSE i \in 1..Len(sc) : sc[i] # "value" /\ \A j \in 1..(i - 1) : sc[j] = "value"

IsSingle(sc) ==
  Completes(sc) /\ (First(sc) = 1 \/ (First(sc) = 2 /\ sc[2] = "done"))

\* A promise gets its result at most once from such a sender, whatever the sender does
\* after its completion and whatever the operators throw (a second result would end the
\* process).  Only the promise of future_from, submitted to the sender itself, depends on
\* the sender to stop after its completion.
PromiseOnce ==
  /\ kind \in {"promise", "future"} /\ IsSingle(script)
  /\ kind = "future" /\ chain = <<>> => First(script) = Len(script)
  => ~dead
=============================================================================
