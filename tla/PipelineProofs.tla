--------------------------- MODULE PipelineProofs ---------------------------
(***************************************************************************)
(* A chain loses no completion, gives the functions at its end and the side *)
(* effects of its operators what the contract of a receiver allows, and a   *)
(* promise at its end one result, for chains and senders of every length.   *)
(***************************************************************************)
EXTENDS Pipeline, SequenceTheorems, WellFoundedInduction, TLAPS

\* What submit() was given; it never changes.
SetupOK ==
  /\ chain \in Chains
  /\ \/ kind = "functions" /\ given \in Overloads
     \/ kind \in {"promise", "future", "get"} /\ given = {"value", "error"}
     \/ kind = "nullary" /\ given = {"value"}
  /\ kind \in {"promise", "future"} => \A i \in 1..Len(chain) : chain[i] # "switch_on_error"
  /\ sender \in Senders
  /\ script \in Seq(Signal)
  /\ sender # "user" => script # <<>>

Untouched == \A i \in 1..End : ~done[i]

Sending == [to : 1..End, script : Seq(Signal)]

TypeOK ==
  /\ phase \in {"new", "called", "refused"}
  /\ phase # "called" => senders = <<>> /\ Untouched
  /\ senders \in Seq(Sending)
  /\ senders = <<>> => call = Idle
  /\ call \in [at : 0..End, signal : Signal]
  /\ call.at = 0 => call = Idle
  /\ done \in [1..End -> BOOLEAN]
  /\ side \in [1..End -> ReceiverType]
  /\ sink \in ReceiverType
  /\ dead \in BOOLEAN
  /\ result \in {"none", "value", "error", "undefined"}
  /\ kind # "get" => result = "none"

\* The flags of the receivers and what the functions behind them were told.
Flagged ==
  /\ \A i \in 1..End : side[i].done <=> Ended(side[i])
  /\ \A i \in 1..Len(chain) : done[i] /\ chain[i] = "tap" => Ended(side[i])
  /\ sink.end \in {"none", "error", "done"}
  /\ Ended(sink) => kind # "nullary" /\ (done[End] \/ CaughtInside)
  /\ given = Signal /\ done[End] /\ ~dead => Ended(sink)

\* A completion is on its way to a position behind i: a call, or a sender that will send it.
Owed(i) ==
  \/ call.signal # "value" /\ call.at > i
  \/ \E k \in 1..Len(senders) : senders[k].to > i /\ Completes(senders[k].script)

\* Behind every receiver that is done, and behind the sender, a completion is on its way
\* until the end has got one.
Completing ==
  phase = "called" /\ Completes(script) /\ ~dead =>
    \A i \in 0..End : (i > 0 => done[i]) => done[End] \/ Owed(i)

\* How many signals the sender that the user submitted has sent.
Sent == Len(script) - Len(senders[1].script)

Switches == \E i \in 1..Len(chain) : chain[i] = "switch_on_error"

\* Without switch_on_error there is one sender, which sends what is left of the script.
OneSender ==
  ~Switches =>
    /\ Len(senders) <= 1
    /\ senders # <<>> =>
         /\ senders[1].to = 1
         /\ Len(senders[1].script) <= Len(script)
         /\ \A j \in 1..Len(senders[1].script) : senders[1].script[j] = script[Sent + j]

\* What PromiseOnce assumes.
Single ==
  /\ kind \in {"promise", "future"} /\ IsSingle(script)
  /\ kind = "future" /\ chain = <<>> => First(script) = Len(script)

\* A promise has its result from the first signal; what is sent after the completion is
\* ignored by the first receiver.
OneResult ==
  Single =>
    /\ ~dead
    /\ phase # "called" => ~Told(sink)
    /\ senders # <<>> =>
         /\ Sent = 0 => call = Idle /\ ~Told(sink)
         /\ Sent = 1 /\ call # Idle => ~Told(sink)
         /\ Sent = 1 /\ First(script) = 1 => call.signal # "value"
         /\ Sent = 2 /\ First(script) = 2 => call.signal = "done"
         /\ Sent >= First(script) => call.at = 1 \/ done[1]
         /\ Sent > First(script) => done[1] /\ call.at <= 1

\* No operator of the chain keeps a value from the end.
Plain == kind = "get" /\ ~ \E i \in 1..Len(chain) : chain[i] \in {"filter", "switch_on_error"}

\* get's functions are told the first signal of a sender, unless it is done.
Fetched ==
  Plain /\ (script # <<>> => Head(script) # "done") =>
    /\ senders # <<>> /\ Sent = 0 => call = Idle /\ Untouched
    /\ senders # <<>> /\ Sent > 0 /\ ~Told(sink) =>
         Sent = 1 /\ call # Idle /\ call.signal # "done" /\ \A j \in call.at..End : ~done[j]
    /\ phase = "called" /\ senders = <<>> => Told(sink) \/ (script = <<>> /\ Untouched)
    /\ result # "undefined"

\* The inductive invariant.
PipelineInv ==
  SetupOK /\ TypeOK /\ Flagged /\ Completing /\ OneSender /\ OneResult /\ Fetched

-----------------------------------------------------------------------------
\* The senders of the library complete, after a signal at least.
LEMMA ScriptType ==
  ASSUME NEW s \in Senders, NEW sc \in Scripts(s)
  PROVE  sc \in Seq(Signal) /\ (s # "user" => Len(sc) > 0 /\ Completes(sc))
<1>1. CASE s = "just"
  <2>1. sc = <<"value", "done">>
    BY <1>1 DEF Scripts, Just
  <2>2. sc \in Seq(Signal) /\ Len(sc) = 2 /\ sc[2] = "done"
    BY <2>1 DEF Signal
  <2> QED
    BY <2>2 DEF Completes
<1>2. CASE s = "error"
  <2>1. sc = <<"error">>
    BY <1>2 DEF Scripts, Fail
  <2>2. sc \in Seq(Signal) /\ Len(sc) = 1 /\ sc[1] = "error"
    BY <2>1 DEF Signal
  <2> QED
    BY <2>2 DEF Completes
<1>3. CASE s = "empty"
  <2>1. sc = <<"done">>
    BY <1>3 DEF Scripts, Empty
  <2>2. sc \in Seq(Signal) /\ Len(sc) = 1 /\ sc[1] = "done"
    BY <2>1 DEF Signal
  <2> QED
    BY <2>2 DEF Completes
<1>4. CASE s = "from"
  <2>1. PICK n \in 0..MaxValues : sc = [i \in 1..n |-> "value"] \o <<"done">>
    BY <1>4 DEF Scripts, From
  <2>2. n \in Nat
    BY <2>1, PipelineAssumption
  <2>3. PICK vs : vs = [i \in 1..n |-> "value"]
    OBVIOUS
  <2>4. vs \in Seq(Signal) /\ Len(vs) = n
    BY <2>2, <2>3 DEF Signal
  <2>5. <<"done">> \in Seq(Signal) /\ Len(<<"done">>) = 1
    BY DEF Signal
  <2>6. sc \in Seq(Signal) /\ Len(sc) = n + 1 /\ sc[n + 1] = "done"
    BY <2>1, <2>2, <2>3, <2>4, <2>5
  <2> QED
    BY <2>2, <2>6 DEF Completes
<1>5. CASE s = "user"
  <2>1. PICK n \in 0..MaxSignals : sc \in [1..n -> Signal]
    BY <1>5 DEF Scripts, User
  <2>2. n \in Nat
    BY <2>1, PipelineAssumption
  <2> QED
    BY <1>5, <2>1, <2>2
<1> QED
  BY <1>1, <1>2, <1>3, <1>4, <1>5 DEF Senders

\* A sender that sends a value still has to send its completion.
LEMMA CompletesTail ==
  ASSUME NEW sc \in Seq(Signal), sc # <<>>, Completes(sc)
  PROVE  Head(sc) # "value" \/ Completes(Tail(sc))
<1>1. PICK i \in 1..Len(sc) : sc[i] # "value"
  BY DEF Completes
<1>2. CASE i = 1
  BY <1>1, <1>2
<1>3. CASE i > 1
  <2>1. i - 1 \in 1..Len(Tail(sc)) /\ Tail(sc)[i - 1] = sc[i]
    BY <1>3
  <2> QED
    BY <1>1, <2>1 DEF Completes
<1> QED
  BY <1>2, <1>3

\* The chain is a sequence of operators.
LEMMA ChainType ==
  ASSUME SetupOK
  PROVE  /\ chain \in Seq({"transform", "filter", "tap", "switch_on_error"})
         /\ Len(chain) \in Nat /\ End \in Nat /\ End = Len(chain) + 1 /\ End > 0
         /\ Len(chain) <= MaxChain /\ MaxChain \in Nat
BY PipelineAssumption DEF SetupOK, End

\* Of what submit() was given nothing changes.
LEMMA SetupKept ==
  ASSUME Next
  PROVE  UNCHANGED <<chain, kind, given, sender, script>> /\ End' = End
<1>1. UNCHANGED <<chain, kind, given, sender, script>>
  BY DEF Next, Submit, SubmitUnwrapped, Start, DeferThrows, Send, SenderReturns, Ignored,
     TransformValue, FilterValue, TapValue, TapCompletion, SwitchError, PassOn, SinkValue,
     SinkError, SinkDone, Get, setup
<1> QED
  BY <1>1 DEF End

-----------------------------------------------------------------------------
\* What the steps do, element by element.
LEMMA StartEffect ==
  ASSUME SetupOK, TypeOK, Submit \/ SubmitUnwrapped
  PROVE  /\ phase = "new" /\ phase' = "called" /\ senders = <<>> /\ call = Idle
         /\ senders' \in Seq(Sending) /\ Len(senders') = 1 /\ senders' # <<>>
         /\ senders'[1].to = 1 /\ senders'[1].script = script
         /\ UNCHANGED <<result, call, done, side, sink, dead>>
<1>1. /\ phase = "new" /\ phase' = "called"
      /\ senders' = <<[to |-> 1, script |-> script]>>
      /\ UNCHANGED <<result, call, done, side, sink, dead>>
  BY DEF Submit, SubmitUnwrapped, Start, setup
<1>2. [to |-> 1, script |-> script] \in Sending
  BY ChainType DEF SetupOK, Sending
<1> QED
  BY <1>1, <1>2 DEF TypeOK

LEMMA SendEffect ==
  ASSUME SetupOK, TypeOK, Send
  PROVE  /\ call = Idle /\ ~dead /\ senders # <<>>
         /\ Len(senders) \in Nat /\ Len(senders) > 0
         /\ senders[Len(senders)] \in Sending /\ senders[Len(senders)].script # <<>>
         /\ call' = [at |-> senders[Len(senders)].to, signal |-> Head(senders[Len(senders)].script)]
         /\ senders' \in Seq(Sending) /\ Len(senders') = Len(senders) /\ senders' # <<>>
         /\ \A k \in 1..Len(senders) : senders'[k].to = senders[k].to
         /\ \A k \in 1..Len(senders) : k # Len(senders) => senders'[k] = senders[k]
         /\ senders'[Len(senders)].script = Tail(senders[Len(senders)].script)
         /\ UNCHANGED <<phase, result, done, side, sink, dead>>
<1>1. /\ call = Idle /\ ~dead /\ senders # <<>> /\ Last(senders).script # <<>>
      /\ call' = [at |-> Last(senders).to, signal |-> Head(Last(senders).script)]
      /\ senders' = [senders EXCEPT ![Len(senders)].script = Tail(@)]
      /\ UNCHANGED <<phase, result, done, side, sink, dead>>
  BY DEF Send, setup
<1>2. senders \in Seq(Sending) /\ Len(senders) \in Nat /\ Len(senders) > 0
  BY <1>1 DEF TypeOK
<1>3. PICK l : l = Len(senders)
  OBVIOUS
<1>4. Last(senders) = senders[l] /\ senders[l] \in Sending
  BY <1>2, <1>3 DEF Last
<1>5. senders[l].to \in 1..End /\ senders[l].script \in Seq(Signal) /\ senders[l].script # <<>>
  BY <1>1, <1>4 DEF Sending
<1>6. Tail(senders[l].script) \in Seq(Signal)
  BY <1>5
<1>7. PICK x : x = [senders[l] EXCEPT !.script = Tail(@)]
  OBVIOUS
<1>8. x \in Sending /\ x.to = senders[l].to /\ x.script = Tail(senders[l].script)
  BY <1>4, <1>6, <1>7 DEF Sending
<1>9. senders' = [senders EXCEPT ![l] = x]
  BY <1>1, <1>3, <1>7
<1>10. /\ senders' \in Seq(Sending) /\ Len(senders') = l
       /\ senders'[l] = x /\ \A k \in 1..l : k # l => senders'[k] = senders[k]
  BY <1>2, <1>3, <1>8, <1>9
<1>11. \A k \in 1..l : senders'[k].to = senders[k].to
  BY <1>8, <1>10
<1>12. senders' # <<>>
  BY <1>2, <1>3, <1>10
<1> QED
  BY <1>1, <1>2, <1>3, <1>4, <1>5, <1>8, <1>10, <1>11, <1>12

LEMMA ReturnsEffect ==
  ASSUME SetupOK, TypeOK, SenderReturns
  PROVE  /\ call = Idle /\ ~dead /\ senders # <<>>
         /\ Len(senders) \in Nat /\ Len(senders) > 0
         /\ senders[Len(senders)].script = <<>>
         /\ senders' \in Seq(Sending) /\ Len(senders') = Len(senders) - 1
         /\ \A k \in 1..(Len(senders) - 1) : senders'[k] = senders[k]
         /\ UNCHANGED <<phase, call, result, done, side, sink, dead>>
<1>1. /\ call = Idle /\ ~dead /\ senders # <<>> /\ Last(senders).script = <<>>
      /\ senders' = Front(senders)
      /\ UNCHANGED <<phase, call, result, done, side, sink, dead>>
  BY DEF SenderReturns, setup
<1>2. senders \in Seq(Sending) /\ Len(senders) \in Nat /\ Len(senders) > 0
  BY <1>1 DEF TypeOK
<1>3. senders[Len(senders)].script = <<>>
  BY <1>1 DEF Last
<1>4. senders' = SubSeq(senders, 1, Len(senders) - 1)
  BY <1>1 DEF Front
<1>5. PICK m : m = Len(senders) - 1
  OBVIOUS
<1>6. m \in Nat /\ senders' = SubSeq(senders, 1, m)
  BY <1>2, <1>4, <1>5
<1>7. \A k \in 1..m : senders[k] \in Sending
  BY <1>2, <1>5, <1>6
<1>8. /\ SubSeq(senders, 1, m) \in Seq(Sending)
      /\ Len(SubSeq(senders, 1, m)) = IF 1 <= m THEN m - 1 + 1 ELSE 0
      /\ \A k \in 1..(m - 1 + 1) : SubSeq(senders, 1, m)[k] = senders[1 + k - 1]
  BY <1>6, <1>7, SubSeqProperties
<1>9. Len(senders') = m /\ \A k \in 1..m : senders'[k] = senders[k]
  BY <1>6, <1>8
<1>10. senders' \in Seq(Sending)
  BY <1>6, <1>8
<1> QED
  BY <1>1, <1>2, <1>3, <1>5, <1>9, <1>10

LEMMA SwitchEffect ==
  ASSUME SetupOK, TypeOK, NEW i \in 1..Len(chain), SwitchError(i)
  PROVE  /\ At(i, "error") /\ chain[i] = "switch_on_error"
         /\ done' = [done EXCEPT ![i] = TRUE] /\ call' = Idle
         /\ senders \in Seq(Sending) /\ Len(senders) \in Nat
         /\ senders' \in Seq(Sending) /\ Len(senders') = Len(senders) + 1 /\ senders' # <<>>
         /\ \A k \in 1..Len(senders) : senders'[k] = senders[k]
         /\ senders'[Len(senders) + 1].to = i + 1
         /\ Completes(senders'[Len(senders) + 1].script)
         /\ UNCHANGED <<phase, result, side, sink, dead>>
<1>1. /\ At(i, "error") /\ chain[i] = "switch_on_error"
      /\ done' = [done EXCEPT ![i] = TRUE] /\ call' = Idle
      /\ UNCHANGED <<phase, result, side, sink, dead>>
  BY DEF SwitchError, setup
<1>2. PICK s \in {"just", "error", "empty"} : \E sc \in Scripts(s) :
        senders' = Append(senders, [to |-> i + 1, script |-> sc])
  BY DEF SwitchError
<1>3. PICK sc \in Scripts(s) : senders' = Append(senders, [to |-> i + 1, script |-> sc])
  BY <1>2
<1>4. sc \in Seq(Signal) /\ Completes(sc)
  BY ScriptType DEF Senders
<1>5. PICK x : x = [to |-> i + 1, script |-> sc]
  OBVIOUS
<1>6. x \in Sending /\ x.to = i + 1 /\ x.script = sc
  BY <1>4, <1>5, ChainType DEF Sending
<1>7. senders \in Seq(Sending) /\ Len(senders) \in Nat
  BY DEF TypeOK
<1>8. /\ senders' \in Seq(Sending) /\ Len(senders') = Len(senders) + 1
      /\ \A k \in 1..Len(senders) : senders'[k] = senders[k]
      /\ senders'[Len(senders) + 1] = x
  BY <1>3, <1>5, <1>6, <1>7
<1>9. senders' # <<>>
  BY <1>7, <1>8
<1> QED
  BY <1>1, <1>4, <1>6, <1>7, <1>8, <1>9

\* The steps of an operator that submits no sender.
Operator(i) ==
  \/ TransformValue(i) \/ FilterValue(i) \/ TapValue(i) \/ TapCompletion(i)
  \/ \E s \in Signal : PassOn(i, s)

LEMMA OperatorEffect ==
  ASSUME SetupOK, TypeOK, NEW i \in 1..Len(chain), Operator(i)
  PROVE  /\ i \in 1..End /\ i + 1 \in 1..End /\ i # End
         /\ call.at = i /\ call # Idle /\ ~dead /\ ~done[i]
         /\ done' \in [1..End -> BOOLEAN]
         /\ \A j \in 1..End : j # i => (done'[j] <=> done[j])
         /\ \/ /\ call' = [at |-> i + 1, signal |-> call.signal]
               /\ done'[i] <=> call.signal # "value"
            \/ /\ call.signal = "value" /\ ~done'[i]
               /\ \/ call' = [at |-> i, signal |-> "error"]
                  \/ call' = Idle /\ chain[i] = "filter"
         /\ UNCHANGED <<phase, result, senders, sink, dead>>
<1>1. i \in 1..End /\ i + 1 \in 1..End /\ i # End /\ i \in Nat
  BY ChainType
<1>2. call # Idle /\ ~dead /\ call.at = i /\ ~Ignores(i)
  BY DEF Operator, TransformValue, FilterValue, TapValue, TapCompletion, PassOn, At
<1>3. ~done[i] /\ done \in [1..End -> BOOLEAN]
  BY <1>1, <1>2 DEF Ignores, TypeOK
<1>4. UNCHANGED <<phase, result, senders, sink, dead>>
  BY DEF Operator, TransformValue, FilterValue, TapValue, TapCompletion, PassOn, setup
<1>5. CASE TransformValue(i) \/ FilterValue(i) \/ TapValue(i)
  <2>1. done' = done /\ call.signal = "value"
    BY <1>5 DEF TransformValue, FilterValue, TapValue, At
  <2>2. \/ call' = [at |-> i + 1, signal |-> call.signal]
        \/ call' = [at |-> i, signal |-> "error"]
        \/ call' = Idle /\ chain[i] = "filter"
    BY <1>5 DEF TransformValue, FilterValue, TapValue, Pass, Failed
  <2> QED
    BY <1>1, <1>2, <1>3, <1>4, <2>1, <2>2
<1>6. CASE TapCompletion(i)
  <2>1. /\ done' = [done EXCEPT ![i] = TRUE] /\ call.signal # "value"
        /\ call' = [at |-> i + 1, signal |-> call.signal]
    BY <1>6 DEF TapCompletion, At, Pass
  <2>2. done' \in [1..End -> BOOLEAN] /\ done'[i] /\ \A j \in 1..End : j # i => done'[j] = done[j]
    BY <1>1, <1>3, <2>1
  <2> QED
    BY <1>1, <1>2, <1>3, <1>4, <2>1, <2>2
<1>7. ASSUME NEW s \in Signal, PassOn(i, s)
      PROVE  /\ call' = [at |-> i + 1, signal |-> call.signal]
             /\ done' \in [1..End -> BOOLEAN]
             /\ done'[i] <=> call.signal # "value"
             /\ \A j \in 1..End : j # i => (done'[j] <=> done[j])
  <2>1. call.signal = s /\ call' = [at |-> i + 1, signal |-> call.signal]
    BY <1>7 DEF PassOn, At, Pass
  <2>2. done' = [done EXCEPT ![i] = done[i] \/ s # "value"]
    BY <1>7 DEF PassOn
  <2>3. CASE s = "value"
    <3>1. done' = done
      BY <1>1, <1>3, <2>2, <2>3, Zenon
    <3> QED
      BY <1>3, <2>1, <2>3, <3>1
  <2>4. CASE s # "value"
    <3>1. done' = [done EXCEPT ![i] = TRUE]
      BY <2>2, <2>4, Zenon
    <3>2. done' \in [1..End -> BOOLEAN] /\ done'[i] /\ \A j \in 1..End : j # i => done'[j] = done[j]
      BY <1>1, <1>3, <3>1
    <3> QED
      BY <2>1, <2>4, <3>2
  <2> QED
    BY <2>3, <2>4
<1> QED
  BY <1>1, <1>2, <1>3, <1>4, <1>5, <1>6, <1>7 DEF Operator

\* What a call may make of what a function has been told.
Grows(r, r2) ==
  \/ r2.n = r.n /\ r2.end = r.end
  \/ ~Ended(r) /\ ~Ended(r2) /\ r2.n = r.n + 1
  \/ ~Ended(r) /\ r2.end \in Errors \cup {"done"} /\ r2.n = r.n

\* The side effects receiver protects itself by its own flag.
LEMMA SideCalled ==
  ASSUME NEW r \in ReceiverType, r.done <=> Ended(r), NEW throws \in BOOLEAN
  PROVE  \A r2 \in {set_value(r, throws), set_error(r, "error"), set_done(r)} :
           /\ r2 \in ReceiverType /\ (r2.done <=> Ended(r2)) /\ Grows(r, r2)
           /\ Ended(r) => Ended(r2)
<1>1. r.done \in BOOLEAN /\ r.n \in Nat /\ r.end \in Ends
  BY DEF ReceiverType
<1>2. CASE r.done
  <2>1. set_value(r, throws) = r /\ set_error(r, "error") = r /\ set_done(r) = r
    BY <1>2 DEF set_value, set_error, set_done, Value, Error, Done
  <2> QED
    BY <1>2, <2>1 DEF Grows
<1>3. CASE ~r.done
  <2>1. r.end = "none"
    BY <1>3 DEF Ended
  <2>2. ASSUME NEW e \in {"error", "thrown"}
        PROVE  /\ Error(r, e) \in ReceiverType /\ Error(r, e).done
               /\ Error(r, e).end = e /\ Error(r, e).n = r.n
    BY <1>1, <1>3 DEF Error, ReceiverType, Ends, Errors
  <2>3. Done(r) \in ReceiverType /\ Done(r).done /\ Done(r).end = "done" /\ Done(r).n = r.n
    BY <1>1, <1>3 DEF Done, ReceiverType, Ends, Errors
  <2>4. /\ Value(r) \in ReceiverType /\ ~Value(r).done /\ Value(r).end = "none"
        /\ Value(r).n = r.n + 1
    BY <1>1, <1>3, <2>1 DEF Value, ReceiverType, Ends, Errors
  <2>5. set_error(r, "error") = Error(r, "error") /\ set_done(r) = Done(r)
    BY DEF set_error, set_done
  <2>6. set_value(r, throws) = Error(r, "thrown") \/ set_value(r, throws) = Value(r)
    BY DEF set_value
  <2> QED
    BY <1>3, <2>1, <2>2, <2>3, <2>4, <2>5, <2>6 DEF Grows, Ended, Errors
<1> QED
  BY <1>2, <1>3

LEMMA SideEffect ==
  ASSUME SetupOK, TypeOK, Flagged, NEW i \in 1..Len(chain), Operator(i)
  PROVE  /\ side' \in [1..End -> ReceiverType]
         /\ \A j \in 1..End : j # i => side'[j] = side[j]
         /\ side'[i].done <=> Ended(side'[i])
         /\ Grows(side[i], side'[i])
         /\ Ended(side[i]) => Ended(side'[i])
         /\ chain[i] = "tap" /\ call.signal # "value" => Ended(side'[i])
<1>0. i \in 1..End /\ side \in [1..End -> ReceiverType]
  BY ChainType DEF TypeOK
<1>1. i \in 1..End /\ side \in [1..End -> ReceiverType] /\ side[i] \in ReceiverType
  BY <1>0
<1>2. side[i].done <=> Ended(side[i])
  BY <1>1 DEF Flagged
<1>3. CASE TransformValue(i) \/ FilterValue(i)
  <2>1. side' = side /\ chain[i] # "tap"
    BY <1>3 DEF TransformValue, FilterValue
  <2> QED
    BY <1>1, <1>2, <2>1 DEF Grows
<1>4. CASE TapValue(i)
  <2>1. PICK throws \in BOOLEAN : side' = [side EXCEPT ![i] = set_value(@, throws)]
    BY <1>4 DEF TapValue
  <2>2. call.signal = "value"
    BY <1>4 DEF TapValue, At
  <2>3. PICK r2 : r2 = set_value(side[i], throws)
    OBVIOUS
  <2>4. r2 \in ReceiverType /\ (r2.done <=> Ended(r2)) /\ Grows(side[i], r2) /\ (Ended(side[i]) => Ended(r2))
    BY <1>1, <1>2, <2>3, SideCalled
  <2>5. side' = [side EXCEPT ![i] = r2]
    BY <2>1, <2>3
  <2>6. side'[i] = r2 /\ side' \in [1..End -> ReceiverType] /\ \A j \in 1..End : j # i => side'[j] = side[j]
    BY <1>1, <2>4, <2>5
  <2> QED
    BY <2>2, <2>4, <2>6
<1>5. CASE TapCompletion(i)
  <2>1. side' = [side EXCEPT ![i] = IF call.signal = "done" THEN set_done(@) ELSE set_error(@, "error")]
    BY <1>5 DEF TapCompletion, SideCompletion
  <2>2. PICK r2 : r2 = IF call.signal = "done" THEN set_done(side[i]) ELSE set_error(side[i], "error")
    OBVIOUS
  <2>3. r2 \in {set_error(side[i], "error"), set_done(side[i])}
    BY <2>2
  <2>4. /\ r2 \in ReceiverType /\ (r2.done <=> Ended(r2)) /\ Grows(side[i], r2)
        /\ (Ended(side[i]) => Ended(r2))
    BY <1>1, <1>2, <2>3, SideCalled
  <2>5. Ended(r2)
    BY <1>1, <1>2, <2>3 DEF set_error, set_done, Error, Done, Ended, ReceiverType
  <2>6. side' = [side EXCEPT ![i] = r2]
    BY <2>1, <2>2
  <2>7. side'[i] = r2 /\ side' \in [1..End -> ReceiverType] /\ \A j \in 1..End : j # i => side'[j] = side[j]
    BY <1>1, <2>4, <2>6
  <2> QED
    BY <2>4, <2>7, <2>5
<1>6. ASSUME NEW s \in Signal, PassOn(i, s) PROVE side' = side /\ chain[i] # "tap"
  BY <1>6 DEF PassOn, Replaces, Signal
<1>7. CASE \E s \in Signal : PassOn(i, s)
  BY <1>1, <1>2, <1>6, <1>7 DEF Grows
<1> QED
  BY <1>3, <1>4, <1>5, <1>7 DEF Operator

\* A function at the end that is told something has not been told of a completion, unless
\* blocking_submit calls it.
LEMMA SinkOpen ==
  ASSUME SetupOK, TypeOK, Flagged, call.at = End, ~Ignores(End), ~Satisfied
  PROVE  sink.end = "none" \/ Blocking
<1>1. CASE kind \notin Unwrapped /\ kind # "promise"
  BY <1>1 DEF Ignores, Flagged, Ended, CaughtInside, Unwrapped
<1>2. CASE kind = "nullary"
  BY <1>2 DEF Flagged, Ended
<1>3. CASE kind \in {"promise", "future"}
  BY <1>3 DEF Satisfied, Told
<1> QED
  BY <1>1, <1>2, <1>3 DEF Unwrapped

LEMMA SinkValueEffect ==
  ASSUME SetupOK, TypeOK, Flagged, SinkValue
  PROVE  /\ call.at = End /\ call.signal = "value" /\ call # Idle /\ ~dead /\ ~Ignores(End)
         /\ UNCHANGED <<phase, result, senders, done, side>>
         /\ sink' \in ReceiverType /\ dead' \in BOOLEAN
         /\ \/ "value" \notin given /\ call' = Idle /\ sink' = sink /\ ~dead'
            \/ /\ "value" \in given /\ ~Satisfied /\ call' = Idle /\ ~dead'
               /\ sink.end = "none" \/ Blocking
               /\ sink'.end = sink.end /\ sink'.n = sink.n + 1
            \/ /\ "value" \in given /\ ~Satisfied /\ CaughtInside /\ call' = Idle /\ ~dead'
               /\ sink.end = "none" \/ Blocking
               /\ sink'.end = "error" /\ sink'.n = sink.n
            \/ /\ "value" \in given /\ ~Satisfied /\ ~dead' /\ sink' = sink
               /\ call' = [at |-> End, signal |-> "error"]
            \/ Satisfied /\ dead' /\ sink' = sink /\ call' = call
<1>1. /\ call.at = End /\ call.signal = "value" /\ call # Idle /\ ~dead /\ ~Ignores(End)
      /\ UNCHANGED <<phase, result, senders, done, side>>
  BY DEF SinkValue, At, setup
<1>2. \/ "value" \notin given /\ call' = Idle /\ sink' = sink /\ dead' = dead
      \/ /\ "value" \in given /\ ~Satisfied /\ call' = Idle /\ dead' = dead
         /\ sink' = [sink EXCEPT !.n = @ + 1]
      \/ /\ "value" \in given /\ ~Satisfied /\ CaughtInside /\ call' = Idle /\ dead' = dead
         /\ sink' = [sink EXCEPT !.end = "error"]
      \/ /\ "value" \in given /\ ~Satisfied /\ dead' = dead /\ sink' = sink
         /\ call' = [at |-> End, signal |-> "error"]
      \/ Satisfied /\ dead' = TRUE /\ sink' = sink /\ call' = call
  BY DEF SinkValue, Failed
<1>3. sink \in ReceiverType /\ sink.n \in Nat /\ dead \in BOOLEAN
  BY DEF TypeOK, ReceiverType
<1>4. PICK r2, r3 : r2 = [sink EXCEPT !.n = @ + 1] /\ r3 = [sink EXCEPT !.end = "error"]
  OBVIOUS
<1>5. /\ r2 \in ReceiverType /\ r2.n = sink.n + 1 /\ r2.end = sink.end
      /\ r3 \in ReceiverType /\ r3.n = sink.n /\ r3.end = "error"
  BY <1>3, <1>4 DEF ReceiverType, Ends, Errors
<1>6. ~Satisfied => sink.end = "none" \/ Blocking
  BY <1>1, SinkOpen
<1>7. CASE /\ "value" \in given /\ ~Satisfied /\ call' = Idle /\ dead' = dead
           /\ sink' = r2 \/ (CaughtInside /\ sink' = r3)
  <2>1. /\ \/ sink'.end = sink.end /\ sink'.n = sink.n + 1
           \/ CaughtInside /\ sink'.end = "error" /\ sink'.n = sink.n
        /\ sink' \in ReceiverType
        /\ sink.end = "none" \/ Blocking
    BY <1>5, <1>6, <1>7
  <2> QED
    BY <1>1, <1>3, <1>7, <2>1
<1>8. CASE /\ sink' = sink /\ dead' = dead
           /\ \/ "value" \notin given /\ call' = Idle
              \/ "value" \in given /\ ~Satisfied /\ call' = [at |-> End, signal |-> "error"]
  BY <1>1, <1>3, <1>8
<1>9. CASE Satisfied /\ dead' = TRUE /\ sink' = sink /\ call' = call
  BY <1>1, <1>3, <1>9
<1> QED
  BY <1>2, <1>4, <1>7, <1>8, <1>9

LEMMA SinkErrorEffect ==
  ASSUME SetupOK, TypeOK, Flagged, SinkError
  PROVE  /\ call.at = End /\ call.signal = "error" /\ call # Idle /\ ~dead /\ ~Ignores(End)
         /\ UNCHANGED <<phase, result, senders, side>>
         /\ call' = Idle /\ sink' \in ReceiverType /\ dead' \in BOOLEAN
         /\ done' \in [1..End -> BOOLEAN] /\ done'[End]
         /\ \A j \in 1..End : j # End => done'[j] = done[j]
         /\ \/ dead' /\ sink' = sink /\ ("error" \notin given \/ Satisfied)
            \/ /\ ~dead' /\ "error" \in given /\ ~Satisfied
               /\ sink.end = "none" \/ Blocking
               /\ sink'.end = "error" /\ sink'.n = sink.n
<1>1. /\ call.at = End /\ call.signal = "error" /\ call # Idle /\ ~dead /\ ~Ignores(End)
      /\ call' = Idle /\ UNCHANGED <<phase, result, senders, side>>
      /\ done' = [done EXCEPT ![End] = TRUE]
      /\ dead' = ("error" \notin given \/ Satisfied)
  BY DEF SinkError, At, setup
<1>2. sink' = IF dead' THEN sink ELSE [sink EXCEPT !.end = "error"]
  BY DEF SinkError
<1>3. dead' <=> "error" \notin given \/ Satisfied
  BY <1>1
<1>4. dead' \in BOOLEAN
  BY <1>1 DEF Satisfied
<1>5. PICK r2 : r2 = [sink EXCEPT !.end = "error"]
  OBVIOUS
<1>6. sink \in ReceiverType
  BY DEF TypeOK
<1>7. r2 \in ReceiverType /\ r2.n = sink.n /\ r2.end = "error"
  BY <1>5, <1>6 DEF ReceiverType, Ends, Errors
<1>8. done \in [1..End -> BOOLEAN] /\ End \in 1..End
  BY ChainType DEF TypeOK
<1>9. /\ done' \in [1..End -> BOOLEAN] /\ done'[End]
      /\ \A j \in 1..End : j # End => done'[j] = done[j]
  BY <1>1, <1>8
<1>10. CASE dead'
  BY <1>1, <1>2, <1>3, <1>4, <1>6, <1>9, <1>10
<1>11. CASE ~dead'
  <2>1. sink' = r2 /\ "error" \in given /\ ~Satisfied
    BY <1>2, <1>3, <1>5, <1>11
  <2>2. sink.end = "none" \/ Blocking
    BY <1>1, <2>1, SinkOpen
  <2> QED
    BY <1>1, <1>4, <1>7, <1>9, <1>11, <2>1, <2>2
<1> QED
  BY <1>10, <1>11

LEMMA SinkDoneEffect ==
  ASSUME SetupOK, TypeOK, Flagged, SinkDone
  PROVE  /\ call.at = End /\ call.signal = "done" /\ call # Idle /\ ~dead /\ ~Ignores(End)
         /\ UNCHANGED <<phase, result, senders, side, dead>>
         /\ call' = Idle /\ sink' \in ReceiverType
         /\ done' \in [1..End -> BOOLEAN] /\ done'[End]
         /\ \A j \in 1..End : j # End => done'[j] = done[j]
         /\ \/ "done" \notin given /\ sink' = sink
            \/ /\ "done" \in given /\ kind = "functions"
               /\ sink.end = "none" /\ sink'.end = "done" /\ sink'.n = sink.n
<1>1. /\ call.at = End /\ call.signal = "done" /\ call # Idle /\ ~dead /\ ~Ignores(End)
      /\ call' = Idle /\ UNCHANGED <<phase, result, senders, side, dead>>
      /\ done' = [done EXCEPT ![End] = TRUE]
      /\ sink' = IF "done" \in given THEN [sink EXCEPT !.end = "done"] ELSE sink
  BY DEF SinkDone, At, setup
<1>2. PICK r2 : r2 = [sink EXCEPT !.end = "done"]
  OBVIOUS
<1>3. sink \in ReceiverType
  BY DEF TypeOK
<1>4. r2 \in ReceiverType /\ r2.n = sink.n /\ r2.end = "done"
  BY <1>2, <1>3 DEF ReceiverType, Ends, Errors
<1>5. done \in [1..End -> BOOLEAN] /\ End \in 1..End
  BY ChainType DEF TypeOK
<1>6. /\ done' \in [1..End -> BOOLEAN] /\ done'[End]
      /\ \A j \in 1..End : j # End => done'[j] = done[j]
  BY <1>1, <1>5
<1>7. "done" \in given => kind = "functions" /\ ~Satisfied /\ ~Blocking
  BY DEF SetupOK, Satisfied, Blocking
<1>8. "done" \in given => sink.end = "none"
  BY <1>1, <1>7, SinkOpen
<1> QED
  BY <1>1, <1>2, <1>3, <1>4, <1>6, <1>7, <1>8

LEMMA IgnoredEffect ==
  ASSUME SetupOK, TypeOK, Ignored
  PROVE  /\ call.at \in 1..End /\ done[call.at] /\ Ignores(call.at) /\ call' = Idle /\ call # Idle /\ ~dead
         /\ UNCHANGED <<phase, result, senders, done, side, sink, dead>>
<1>1. /\ call # Idle /\ Ignores(call.at) /\ call' = Idle /\ ~dead
      /\ UNCHANGED <<phase, result, senders, done, side, sink, dead>>
  BY DEF Ignored, setup
<1>2. call.at \in 0..End /\ call.at # 0
  BY <1>1 DEF TypeOK
<1>3. call.at \in 1..End
  BY <1>2, ChainType
<1> QED
  BY <1>1, <1>3 DEF Ignores

-----------------------------------------------------------------------------
\* The parts of the invariant, each with one step per action.
LEMMA SetupStep ==
  ASSUME SetupOK, Next
  PROVE  SetupOK'
BY SetupKept DEF SetupOK

LEMMA TypeStep ==
  ASSUME SetupOK, TypeOK, Flagged, Next
  PROVE  TypeOK'
<1>0. /\ UNCHANGED <<chain, kind, given, sender, script>> /\ End' = End
      /\ Sending' = Sending
  BY SetupKept DEF Sending
<1>1. Idle \in [at : 0..End, signal : Signal] /\ Idle.at = 0
  BY ChainType DEF Idle, Signal
<1>2. ASSUME NEW i \in 1..End, NEW s \in Signal
      PROVE  /\ [at |-> i, signal |-> s] \in [at : 0..End, signal : Signal]
             /\ [at |-> i, signal |-> s].at # 0
  BY ChainType
<1>3. "error" \in Signal /\ call.signal \in Signal /\ End \in 1..End
  BY ChainType DEF Signal, TypeOK
<1>4. CASE Submit \/ SubmitUnwrapped
  BY <1>0, <1>4, StartEffect DEF TypeOK, Untouched
<1>5. CASE DeferThrows
  BY <1>0, <1>5 DEF TypeOK, Untouched, DeferThrows, setup
<1>6. CASE Send
  <2>1. PICK x : x = senders[Len(senders)]
    OBVIOUS
  <2>2. x.to \in 1..End /\ x.script \in Seq(Signal) /\ x.script # <<>>
    BY <1>6, <2>1, SendEffect DEF Sending
  <2>3. Head(x.script) \in Signal
    BY <2>2
  <2>4. call' \in [at : 0..End, signal : Signal] /\ call'.at # 0
    BY <1>2, <1>6, <2>1, <2>2, <2>3, SendEffect
  <2> QED
    BY <1>0, <1>6, <2>4, SendEffect DEF TypeOK, Untouched
<1>7. CASE SenderReturns
  BY <1>0, <1>7, ReturnsEffect DEF TypeOK, Untouched
<1>8. CASE Ignored
  BY <1>0, <1>1, <1>8, IgnoredEffect DEF TypeOK, Untouched
<1>9. ASSUME NEW i \in 1..Len(chain), Operator(i) PROVE TypeOK'
  <2>1. call' \in [at : 0..End, signal : Signal] /\ (call'.at = 0 => call' = Idle)
    BY <1>1, <1>2, <1>3, <1>9, OperatorEffect
  <2>2. side' \in [1..End -> ReceiverType]
    BY <1>9, SideEffect
  <2>3. senders # <<>>
    BY <1>9, OperatorEffect DEF TypeOK, Untouched
  <2> QED
    BY <1>0, <1>9, <2>1, <2>2, <2>3, OperatorEffect DEF TypeOK, Untouched
<1>10. ASSUME NEW i \in 1..Len(chain), SwitchError(i) PROVE TypeOK'
  <2>1. i \in 1..End /\ phase = "called"
    BY <1>10, ChainType, SwitchEffect DEF TypeOK, At
  <2>2. done' \in [1..End -> BOOLEAN]
    BY <1>10, <2>1, SwitchEffect DEF TypeOK, Untouched
  <2> QED
    BY <1>0, <1>1, <1>10, <2>1, <2>2, SwitchEffect DEF TypeOK, Untouched
<1>11. CASE SinkValue
  <2>1. call' \in [at : 0..End, signal : Signal] /\ (call'.at = 0 => call' = Idle)
    BY <1>1, <1>2, <1>3, <1>11, SinkValueEffect DEF TypeOK, Untouched
  <2>2. senders # <<>>
    BY <1>11, SinkValueEffect DEF TypeOK, Untouched
  <2> QED
    BY <1>0, <1>11, <2>1, <2>2, SinkValueEffect DEF TypeOK, Untouched
<1>12. CASE SinkError
  BY <1>0, <1>1, <1>12, SinkErrorEffect DEF TypeOK, Untouched
<1>13. CASE SinkDone
  BY <1>0, <1>1, <1>13, SinkDoneEffect DEF TypeOK, Untouched
<1>14. CASE Get
  <2>1. result' \in {"value", "error", "undefined"}
    BY <1>14 DEF Get, Read
  <2>2. kind = "get"
    BY <1>14 DEF Get
  <2>3. UNCHANGED <<phase, senders, call, done, side, sink, dead>>
    BY <1>14 DEF Get
  <2> QED
    BY <1>0, <2>1, <2>3, <2>2 DEF TypeOK, Untouched
<1> QED
  BY <1>4, <1>5, <1>6, <1>7, <1>8, <1>9, <1>10, <1>11, <1>12, <1>13, <1>14 DEF Next, Operator

LEMMA FlaggedStep ==
  ASSUME SetupOK, TypeOK, Flagged, Next
  PROVE  Flagged'
<1>0. UNCHANGED <<chain, kind, given, sender, script>> /\ End' = End
  BY SetupKept
<1>1. CaughtInside' = CaughtInside
  BY <1>0 DEF CaughtInside, Blocking
<1>2. ASSUME UNCHANGED <<done, side, sink, dead>> PROVE Flagged'
  BY <1>0, <1>2, <1>1 DEF Flagged, Ended
<1>3. CASE Submit \/ SubmitUnwrapped \/ DeferThrows \/ Send \/ SenderReturns \/ Ignored \/ Get
  BY <1>2, <1>3 DEF Submit, SubmitUnwrapped, Start, DeferThrows, Send, SenderReturns, Ignored, Get
<1>4. ASSUME NEW i \in 1..Len(chain), Operator(i) PROVE Flagged'
  <2>1. \A j \in 1..End : side'[j].done <=> Ended(side'[j])
    BY <1>4, SideEffect DEF Flagged
  <2>2. ASSUME NEW j \in 1..Len(chain), done'[j], chain[j] = "tap" PROVE Ended(side'[j])
    <3>0. j \in 1..End
      BY ChainType
    <3>1. CASE j = i
      BY <1>4, <2>2, <3>0, <3>1, OperatorEffect, SideEffect DEF Flagged
    <3>2. CASE j # i
      BY <1>4, <2>2, <3>0, <3>2, OperatorEffect, SideEffect DEF Flagged
    <3> QED
      BY <3>1, <3>2
  <2>3. End \in 1..End /\ i # End
    BY <1>4, ChainType
  <2>4. (done'[End] <=> done[End]) /\ sink' = sink /\ (dead' <=> dead)
    BY <1>4, <2>3, OperatorEffect
  <2> QED
    BY <1>0, <1>1, <2>1, <2>2, <2>4 DEF Flagged, Ended
<1>5. ASSUME NEW i \in 1..Len(chain), SwitchError(i) PROVE Flagged'
  <2>1. i \in 1..End /\ i # End /\ done \in [1..End -> BOOLEAN] /\ End \in 1..End /\ Len(chain) < End
    BY ChainType DEF TypeOK
  <2>2. \A j \in 1..End : j # i => done'[j] = done[j]
    BY <1>5, <2>1, SwitchEffect
  <2>3. \A j \in 1..Len(chain) : chain[j] = "tap" => done'[j] = done[j]
    BY <1>5, <2>1, <2>2, ChainType, SwitchEffect
  <2> QED
    BY <1>0, <1>5, <1>1, <2>1, <2>2, <2>3, SwitchEffect DEF Flagged, Ended
<1>6. End \in 1..End /\ \A j \in 1..Len(chain) : j \in 1..End /\ j # End
  BY ChainType
<1>7. CASE SinkValue
  <2>1. /\ sink'.end = sink.end \/ (CaughtInside /\ sink'.end = "error")
        /\ ~dead /\ done' = done /\ side' = side
    BY <1>7, SinkValueEffect
  <2>2. CaughtInside => kind # "nullary"
    BY DEF CaughtInside, Blocking
  <2> QED
    BY <1>0, <1>1, <2>1, <2>2 DEF Flagged, Ended
<1>8. CASE SinkError
  <2>1. /\ \A j \in 1..Len(chain) : done'[j] = done[j]
        /\ done'[End] /\ side' = side
    BY <1>6, <1>8, SinkErrorEffect
  <2>2. sink'.end \in {"none", "error", "done"} /\ (~dead' => sink'.end = "error" /\ "error" \in given)
    BY <1>8, SinkErrorEffect DEF Flagged
  <2>3. sink'.end # "none" => kind # "nullary"
    BY <1>8, SinkErrorEffect DEF Flagged, Ended, SetupOK
  <2> QED
    BY <1>0, <2>1, <2>2, <2>3 DEF Flagged, Ended
<1>9. CASE SinkDone
  <2>1. /\ \A j \in 1..Len(chain) : done'[j] = done[j]
        /\ done'[End] /\ side' = side
    BY <1>6, <1>9, SinkDoneEffect
  <2>2. sink'.end \in {"none", "error", "done"} /\ ("done" \in given => sink'.end = "done")
    BY <1>9, SinkDoneEffect DEF Flagged
  <2>3. sink'.end # "none" => kind # "nullary"
    BY <1>9, SinkDoneEffect DEF Flagged, Ended
  <2>4. given = Signal => "done" \in given
    BY DEF Signal
  <2> QED
    BY <1>0, <2>1, <2>2, <2>3, <2>4 DEF Flagged, Ended
<1> QED
  BY <1>3, <1>4, <1>5, <1>7, <1>8, <1>9 DEF Next, Operator

\* A step that leaves the senders alone owes what was owed, unless the call was the debt.
LEMMA OwedKept ==
  ASSUME NEW i, Owed(i), senders' = senders,
         call.signal # "value" /\ call.at > i => call'.signal # "value" /\ call'.at > i
  PROVE  Owed(i)'
BY DEF Owed

LEMMA CompletingStep ==
  ASSUME SetupOK, TypeOK, Flagged, Completing, Next
  PROVE  Completing'
<1>0. UNCHANGED <<chain, kind, given, sender, script>> /\ End' = End
  BY SetupKept
<1>1. SUFFICES ASSUME phase' = "called", Completes(script), ~dead',
                      NEW i \in 0..End, i > 0 => done'[i], ~done'[End]
               PROVE  Owed(i)'
  BY <1>0 DEF Completing
<1>2. End \in Nat /\ i \in Nat /\ End \in 1..End /\ (i > 0 => i \in 1..End)
  BY ChainType
<1>3. ASSUME phase = "called", ~dead, i > 0 => done[i], ~done[End] PROVE Owed(i)
  BY <1>1, <1>3 DEF Completing
<1>4. CASE Submit \/ SubmitUnwrapped
  <2>1. CASE i = 0
    BY <1>1, <1>4, <2>1, StartEffect DEF Owed
  <2>2. CASE i > 0
    <3>1. done[i] /\ phase = "new"
      BY <1>1, <1>4, <2>2, StartEffect
    <3> QED
      BY <1>2, <2>2, <3>1 DEF TypeOK, Untouched
  <2> QED
    BY <1>2, <2>1, <2>2
<1>5. CASE DeferThrows
  BY <1>1, <1>5 DEF DeferThrows
<1>6. CASE Send
  <2>0. PICK l : l = Len(senders)
    OBVIOUS
  <2>1. /\ l \in 1..Len(senders) /\ Len(senders') = Len(senders)
        /\ senders[l].script \in Seq(Signal) /\ senders[l].script # <<>>
        /\ call = Idle /\ done' = done /\ phase' = phase /\ ~dead
        /\ call'.at = senders[l].to /\ call'.signal = Head(senders[l].script)
        /\ \A k \in 1..Len(senders) : senders'[k].to = senders[k].to
        /\ \A k \in 1..Len(senders) : k # l => senders'[k] = senders[k]
        /\ senders'[l].script = Tail(senders[l].script)
    BY <1>6, <2>0, SendEffect DEF Sending
  <2>2. Owed(i)
    BY <1>1, <1>3, <2>1
  <2>3. PICK k \in 1..Len(senders) : senders[k].to > i /\ Completes(senders[k].script)
    BY <2>1, <2>2, <1>2 DEF Owed, Idle
  <2>4. CASE k # l
    BY <2>1, <2>3, <2>4 DEF Owed
  <2>5. CASE k = l
    <3>1. Head(senders[l].script) # "value" \/ Completes(Tail(senders[l].script))
      BY <2>1, <2>3, <2>5, CompletesTail
    <3> QED
      BY <2>1, <2>3, <2>5, <3>1 DEF Owed
  <2> QED
    BY <2>4, <2>5
<1>7. CASE SenderReturns
  <2>1. Owed(i)
    BY <1>1, <1>3, <1>7, ReturnsEffect
  <2>2. PICK k \in 1..Len(senders) : senders[k].to > i /\ Completes(senders[k].script)
    BY <1>2, <1>7, <2>1, ReturnsEffect DEF Owed, Idle
  <2>3. k # Len(senders)
    BY <1>7, <2>2, ReturnsEffect DEF Completes
  <2>4. k \in 1..Len(senders') /\ senders'[k] = senders[k]
    BY <1>7, <2>2, <2>3, ReturnsEffect
  <2> QED
    BY <2>2, <2>4 DEF Owed
<1>8. CASE Ignored
  <2>0. /\ call.at \in 1..End /\ done[call.at] /\ ~dead /\ phase' = phase /\ done' = done
        /\ senders' = senders
    BY <1>8, IgnoredEffect
  <2>1. Owed(i)
    BY <1>1, <1>3, <2>0
  <2>2. Owed(call.at)
    BY <1>1, <2>0, ChainType DEF Completing
  <2>3. \/ call.at <= i
        \/ call.at > i
    BY <1>2, <2>0
  <2>4. \E k \in 1..Len(senders) : senders[k].to > i /\ Completes(senders[k].script)
    <3>1. CASE call.at <= i
      BY <1>2, <2>0, <2>1, <3>1 DEF Owed
    <3>2. CASE call.at > i
      <4>1. PICK k \in 1..Len(senders) : senders[k].to > call.at /\ Completes(senders[k].script)
        BY <2>0, <2>2 DEF Owed
      <4>2. senders[k] \in Sending
        BY DEF TypeOK
      <4>3. senders[k].to \in Nat
        BY <1>2, <4>2 DEF Sending
      <4> QED
        BY <1>2, <2>0, <3>2, <4>1, <4>3
    <3> QED
      BY <2>3, <3>1, <3>2
  <2> QED
    BY <2>0, <2>4 DEF Owed
<1>9. ASSUME NEW p \in 1..Len(chain), Operator(p) PROVE Owed(i)'
  <2>0. /\ p \in 1..End /\ p # End /\ call.at = p /\ ~dead /\ phase' = phase
        /\ senders' = senders /\ (done'[End] <=> done[End])
        /\ i > 0 /\ i # p => (done'[i] <=> done[i])
    BY <1>2, <1>9, OperatorEffect
  <2>1. CASE i = p
    <3>1. call' = [at |-> p + 1, signal |-> call.signal] /\ call.signal # "value"
      BY <1>1, <1>9, <2>0, <2>1, OperatorEffect
    <3> QED
      BY <2>0, <2>1, <3>1 DEF Owed
  <2>2. CASE i # p
    <3>1. Owed(i)
      BY <1>1, <1>3, <2>0, <2>2
    <3>2. call.signal # "value" /\ call.at > i => call'.signal # "value" /\ call'.at > i
      <4>1. SUFFICES ASSUME call.signal # "value", p > i PROVE call'.signal # "value" /\ call'.at > i
        BY <2>0
      <4>2. call' = [at |-> p + 1, signal |-> call.signal]
        BY <1>9, <4>1, OperatorEffect
      <4> QED
        BY <1>2, <2>0, <4>1, <4>2
    <3> QED
      BY <2>0, <3>1, <3>2, OwedKept
  <2> QED
    BY <2>1, <2>2
<1>10. ASSUME NEW p \in 1..Len(chain), SwitchError(p) PROVE Owed(i)'
  <2>0. /\ p \in 1..End /\ p # End /\ call.at = p /\ ~dead /\ phase' = phase
        /\ done \in [1..End -> BOOLEAN] /\ done' = [done EXCEPT ![p] = TRUE]
        /\ Len(senders) \in Nat /\ Len(senders') = Len(senders) + 1
        /\ \A k \in 1..Len(senders) : senders'[k] = senders[k]
        /\ senders'[Len(senders) + 1].to = p + 1
        /\ Completes(senders'[Len(senders) + 1].script)
    BY <1>10, ChainType, SwitchEffect DEF At, TypeOK
  <2>1. CASE i <= p
    BY <1>2, <2>0, <2>1 DEF Owed
  <2>2. CASE i > p
    <3>1. Owed(i)
      BY <1>1, <1>2, <1>3, <2>0, <2>2
    <3>2. PICK k \in 1..Len(senders) : senders[k].to > i /\ Completes(senders[k].script)
      BY <1>2, <2>0, <2>2, <3>1 DEF Owed
    <3> QED
      BY <2>0, <3>2 DEF Owed
  <2> QED
    BY <1>2, <2>0, <2>1, <2>2
<1>11. CASE SinkValue
  <2>1. /\ done' = done /\ ~dead /\ phase' = phase /\ senders' = senders
        /\ call.signal = "value"
    BY <1>11, SinkValueEffect
  <2>2. Owed(i)
    BY <1>1, <1>3, <2>1
  <2> QED
    BY <2>1, <2>2, OwedKept
<1>12. CASE SinkError \/ SinkDone
  BY <1>1, <1>12, SinkErrorEffect, SinkDoneEffect
<1>13. CASE Get
  <2>1. UNCHANGED <<phase, senders, call, done, dead>>
    BY <1>13 DEF Get
  <2>2. Owed(i)
    BY <1>1, <1>3, <2>1
  <2> QED
    BY <2>1, <2>2, OwedKept
<1> QED
  BY <1>4, <1>5, <1>6, <1>7, <1>8, <1>9, <1>10, <1>11, <1>12, <1>13 DEF Next, Operator

\* The first completion of a script that has one.
LEMMA FirstIs ==
  ASSUME NEW sc \in Seq(Signal), Completes(sc)
  PROVE  First(sc) \in 1..Len(sc) /\ sc[First(sc)] # "value"
<1> DEFINE S == {i \in 1..Len(sc) : sc[i] # "value"}
<1>1. S \subseteq Nat /\ S # {}
  BY DEF Completes
<1>2. PICK m \in S : \A y \in S : ~(<<y, m>> \in OpToRel(<, Nat))
  BY <1>1, NatLessThanWellFounded, WFMin, Zenon
<1>3. ASSUME NEW j \in 1..(m - 1) PROVE sc[j] = "value"
  <2> SUFFICES ASSUME sc[j] # "value" PROVE FALSE
    OBVIOUS
  <2>1. m \in 1..Len(sc)
    BY <1>2, Zenon
  <2>2. Len(sc) \in Nat /\ m \in 1..Len(sc)
    BY <2>1
  <2>3. j \in S /\ j < m /\ m \in Nat
    BY <2>2
  <2>4. <<j, m>> \in OpToRel(<, Nat)
    BY <1>1, <2>3 DEF OpToRel
  <2> QED
    BY <1>2, <2>3, <2>4
<1>4. \E i \in 1..Len(sc) : sc[i] # "value" /\ \A j \in 1..(i - 1) : sc[j] = "value"
  BY <1>2, <1>3
<1> QED
  BY <1>4 DEF First

\* The sender of a chain without switch_on_error.
LEMMA SentType ==
  ASSUME SetupOK, TypeOK, OneSender, ~Switches, senders # <<>>
  PROVE  /\ Len(senders) = 1 /\ senders[1].to = 1 /\ senders[1].script \in Seq(Signal)
         /\ Len(script) \in Nat /\ Len(senders[1].script) \in Nat
         /\ Sent \in Nat /\ Sent <= Len(script)
<1>0. Len(senders) <= 1
  BY DEF OneSender
<1>1. senders \in Seq(Sending) /\ senders[1].to = 1
  BY DEF TypeOK, OneSender
<1>2. Len(senders) \in Nat /\ Len(senders) # 0
  BY <1>1
<1>3. PICK l : l = Len(senders)
  OBVIOUS
<1>4. l \in Nat /\ l # 0
  BY <1>2, <1>3
<1>5. l <= 1
  BY <1>0, <1>3
<1>6. l = 1
  BY <1>4, <1>5
<1>7. Len(senders) = 1
  BY <1>3, <1>6
<1>8. Len(senders) = 1 /\ senders[1] \in Sending
  BY <1>1, <1>7
<1>9. senders[1].script \in Seq(Signal) /\ script \in Seq(Signal)
  BY <1>8 DEF Sending, SetupOK
<1>10. Len(senders[1].script) \in Nat /\ Len(script) \in Nat /\ Len(senders[1].script) <= Len(script)
  BY <1>9 DEF OneSender
<1> QED
  BY <1>1, <1>8, <1>9, <1>10 DEF Sent

LEMMA SentNext ==
  ASSUME SetupOK, TypeOK, OneSender, ~Switches, Send, script' = script
  PROVE  /\ Len(senders') = 1 /\ senders'[1].to = 1
         /\ senders'[1].script = Tail(senders[1].script) /\ senders[1].script # <<>>
         /\ Sent' = Sent + 1 /\ Sent + 1 <= Len(script) /\ Sent \in Nat
         /\ call' = [at |-> 1, signal |-> script[Sent + 1]]
<1>1. senders # <<>>
  BY SendEffect
<1>2. /\ Len(senders) = 1 /\ senders[1].to = 1 /\ senders[1].script \in Seq(Signal)
      /\ Len(script) \in Nat /\ Len(senders[1].script) \in Nat
      /\ Sent \in Nat /\ Sent <= Len(script)
  BY <1>1, SentType
<1>3. /\ Len(senders') = 1 /\ senders'[1].to = 1 /\ senders'[1].script = Tail(senders[1].script)
      /\ senders[1].script # <<>>
      /\ call' = [at |-> 1, signal |-> Head(senders[1].script)]
  BY <1>2, SendEffect
<1>4. Len(senders[1].script) > 0 /\ Len(Tail(senders[1].script)) = Len(senders[1].script) - 1
  BY <1>2, <1>3
<1>5. Sent = Len(script) - Len(senders[1].script) /\ Sent' = Len(script) - Len(senders'[1].script)
  BY DEF Sent
<1>6. Len(senders'[1].script) = Len(senders[1].script) - 1
  BY <1>3, <1>4
<1>7. Sent' = Sent + 1 /\ Sent + 1 <= Len(script)
  BY <1>2, <1>4, <1>5, <1>6
<1>8. Head(senders[1].script) = script[Sent + 1]
  <2>1. senders[1].script[1] = script[Sent + 1]
    BY <1>1, <1>2, <1>4 DEF OneSender
  <2> QED
    BY <1>2, <1>3, <2>1
<1> QED
  BY <1>2, <1>3, <1>7, <1>8

LEMMA OneSenderStep ==
  ASSUME SetupOK, TypeOK, Flagged, OneSender, Next
  PROVE  OneSender'
<1>0. UNCHANGED <<chain, kind, given, sender, script>> /\ End' = End /\ Switches' = Switches
  BY SetupKept DEF Switches
<1>1. SUFFICES ASSUME ~Switches
               PROVE  /\ Len(senders') <= 1
                      /\ senders' # <<>> =>
                           /\ senders'[1].to = 1
                           /\ Len(senders'[1].script) <= Len(script)
                           /\ \A j \in 1..Len(senders'[1].script) :
                                senders'[1].script[j] = script[Sent' + j]
  BY <1>0 DEF OneSender
<1>2. CASE senders' = senders
  BY <1>0, <1>1, <1>2 DEF OneSender, Sent
<1>3. CASE Submit \/ SubmitUnwrapped
  <2>1. Len(senders') = 1 /\ senders'[1].to = 1 /\ senders'[1].script = script
    BY <1>3, StartEffect
  <2>2. Len(script) \in Nat
    BY DEF SetupOK
  <2>3. Sent' = 0
    BY <1>0, <2>1, <2>2 DEF Sent
  <2> QED
    BY <2>1, <2>2, <2>3
<1>4. CASE Send
  <2>1. /\ Len(senders') = 1 /\ senders'[1].to = 1
        /\ senders'[1].script = Tail(senders[1].script) /\ senders[1].script # <<>>
        /\ Sent' = Sent + 1 /\ Sent + 1 <= Len(script) /\ Sent \in Nat
    BY <1>0, <1>1, <1>4, SentNext
  <2>2. senders # <<>>
    BY <1>4, SendEffect
  <2>3. /\ senders[1].script \in Seq(Signal) /\ Len(senders[1].script) \in Nat
        /\ Len(senders[1].script) <= Len(script) /\ Len(script) \in Nat
    BY <1>1, <2>2, SentType DEF OneSender
  <2>4. Len(Tail(senders[1].script)) = Len(senders[1].script) - 1
    BY <2>1, <2>3
  <2>5. ASSUME NEW j \in 1..Len(Tail(senders[1].script))
        PROVE  Tail(senders[1].script)[j] = script[Sent + 1 + j]
    <3>1. j + 1 \in 1..Len(senders[1].script) /\ Tail(senders[1].script)[j] = senders[1].script[j + 1]
      BY <2>1, <2>3, <2>4, <2>5
    <3>2. senders[1].script[j + 1] = script[Sent + (j + 1)]
      BY <1>1, <2>2, <3>1 DEF OneSender
    <3>3. Sent + (j + 1) = Sent + 1 + j
      BY <2>1, <2>3, <2>4
    <3> QED
      BY <3>1, <3>2, <3>3
  <2> QED
    BY <2>1, <2>3, <2>4, <2>5
<1>5. CASE SenderReturns
  <2>1. Len(senders) = 1
    BY <1>1, <1>5, ReturnsEffect, SentType
  <2>2. Len(senders') = 0 /\ senders' \in Seq(Sending)
    BY <1>5, <2>1, ReturnsEffect
  <2>3. senders' = <<>>
    BY <2>2
  <2> QED
    BY <2>2, <2>3
<1>6. ASSUME NEW i \in 1..Len(chain), SwitchError(i) PROVE FALSE
  BY <1>1, <1>6 DEF SwitchError, Switches
<1>7. ASSUME NEW i \in 1..Len(chain), Operator(i) PROVE senders' = senders
  BY <1>7, OperatorEffect
<1>8. CASE DeferThrows \/ Ignored \/ SinkValue \/ SinkError \/ SinkDone \/ Get
  BY <1>2, <1>8 DEF DeferThrows, Ignored, SinkValue, SinkError, SinkDone, Get
<1> QED
  BY <1>2, <1>3, <1>4, <1>5, <1>6, <1>7, <1>8 DEF Next, Operator

LEMMA OneResultStep ==
  ASSUME SetupOK, TypeOK, Flagged, OneSender, OneResult, Next
  PROVE  OneResult'
<1>0. UNCHANGED <<chain, kind, given, sender, script>> /\ End' = End /\ Single' = Single
  BY SetupKept DEF Single
<1> DEFINE F == First(script)
<1>1. SUFFICES ASSUME Single
               PROVE  /\ ~dead'
                      /\ phase' # "called" => ~Told(sink')
                      /\ senders' # <<>> =>
                           /\ Sent' = 0 => call' = Idle /\ ~Told(sink')
                           /\ Sent' = 1 /\ call' # Idle => ~Told(sink')
                           /\ Sent' = 1 /\ F = 1 => call'.signal # "value"
                           /\ Sent' = 2 /\ F = 2 => call'.signal = "done"
                           /\ Sent' >= F => call'.at = 1 \/ done'[1]
                           /\ Sent' > F => done'[1] /\ call'.at <= 1
  BY <1>0 DEF OneResult, Idle
<1>2. /\ F \in {1, 2} /\ F <= Len(script) /\ Len(script) \in Nat
      /\ F = 1 => script[1] # "value"
      /\ F = 2 => script[2] = "done"
  <2>1. Completes(script) /\ script \in Seq(Signal)
    BY <1>1 DEF Single, IsSingle, SetupOK
  <2>2. F \in 1..Len(script) /\ script[F] # "value"
    BY <2>1, FirstIs
  <2>3. F = 1 \/ (F = 2 /\ script[2] = "done")
    BY <1>1 DEF Single, IsSingle
  <2> QED
    BY <2>1, <2>2, <2>3
<1> HIDE DEF F
<1>3. kind \in {"promise", "future"} /\ given = {"value", "error"} /\ ~Switches
  BY <1>1 DEF Single, SetupOK, Switches
<1>4. /\ ~dead
      /\ phase # "called" => ~Told(sink)
      /\ senders # <<>> =>
           /\ Sent = 0 => call = Idle /\ ~Told(sink)
           /\ Sent = 1 /\ call # Idle => ~Told(sink)
           /\ Sent = 1 /\ F = 1 => call.signal # "value"
           /\ Sent = 2 /\ F = 2 => call.signal = "done"
           /\ Sent >= F => call.at = 1 \/ done[1]
           /\ Sent > F => done[1] /\ call.at <= 1
  BY <1>1 DEF OneResult, F
<1>5. End \in Nat /\ 1 \in 1..End /\ End \in 1..End
  BY ChainType
<1>6. Idle.at = 0 /\ Idle.signal = "done"
  BY DEF Idle
\* The signal that is travelling is one of the first, not one that follows the completion.
<1>7. ASSUME call # Idle, call.at \in 1..End, ~Ignores(call.at)
      PROVE  /\ senders # <<>> /\ Sent \in {1, 2} /\ Sent <= F
             /\ Sent = F => call.signal # "value"
             /\ Sent = 2 => call.signal = "done"
             /\ Sent = 1 => ~Told(sink)
             /\ call.at # 1 /\ Sent = F => done[1]
  <2>1. senders # <<>>
    BY <1>7 DEF TypeOK
  <2>2. Sent \in Nat /\ Sent <= Len(script) /\ Sent # 0
    BY <1>3, <1>4, <1>7, <2>1, SentType
  <2>3. Sent <= F
    <3> SUFFICES ASSUME Sent > F PROVE FALSE
      BY <1>2, <2>2
    <3>1. done[1] /\ call.at = 1
      BY <1>4, <1>5, <1>7, <2>1
    <3>2. 1 = End /\ kind \in Unwrapped
      BY <1>7, <3>1 DEF Ignores
    <3>3. kind = "future" /\ chain = <<>>
      BY <1>3, <3>2, ChainType DEF Unwrapped
    <3>4. F = Len(script)
      BY <1>1, <3>3 DEF Single, F
    <3> QED
      BY <1>2, <2>2, <3>4
  <2> QED
    BY <1>2, <1>4, <1>7, <2>1, <2>2, <2>3
<1>8. ASSUME UNCHANGED <<senders, script>> PROVE Sent' = Sent
  BY <1>8 DEF Sent
<1>9. CASE Submit \/ SubmitUnwrapped
  <2>1. /\ ~dead' /\ phase' = "called" /\ call' = Idle /\ ~Told(sink')
        /\ senders'[1].script = script
    BY <1>4, <1>9, StartEffect DEF Told
  <2>2. Sent' = 0
    BY <1>0, <1>2, <2>1 DEF Sent
  <2> QED
    BY <1>2, <2>1, <2>2
<1>10. CASE DeferThrows
  <2>1. UNCHANGED <<senders, sink, dead>> /\ phase = "new"
    BY <1>10 DEF DeferThrows
  <2>2. senders' = <<>>
    BY <2>1 DEF TypeOK
  <2> QED
    BY <1>4, <2>1, <2>2 DEF Told
<1>11. CASE Send
  <2>1. /\ Sent' = Sent + 1 /\ Sent \in Nat
        /\ call' = [at |-> 1, signal |-> script[Sent + 1]]
    BY <1>0, <1>3, <1>11, SentNext
  <2>2. call = Idle /\ senders # <<>> /\ UNCHANGED <<phase, done, sink, dead>>
    BY <1>11, SendEffect
  <2>3. phase = "called"
    BY <2>2 DEF TypeOK
  <2>4. call'.at = 1 /\ call'.signal = script[Sent + 1]
    BY <2>1
  <2>5. Sent >= F => done[1]
    BY <1>4, <1>6, <2>2
  <2>6. Sent = 0 => ~Told(sink)
    BY <1>4, <2>2
  <2>7. /\ Sent' = 1 => Sent = 0
        /\ Sent' = 2 => Sent = 1
        /\ Sent' # 0
        /\ Sent' > F => Sent >= F
    BY <1>2, <2>1
  <2> QED
    BY <1>2, <1>4, <2>2, <2>3, <2>4, <2>5, <2>6, <2>7 DEF Told
<1>12. CASE SenderReturns
  <2>1. senders # <<>> /\ UNCHANGED <<phase, dead>> /\ Len(senders') = Len(senders) - 1
        /\ senders' \in Seq(Sending)
    BY <1>12, ReturnsEffect
  <2>2. phase = "called" /\ Len(senders) = 1
    BY <1>3, <2>1, SentType DEF TypeOK
  <2>3. senders' = <<>>
    BY <2>1, <2>2
  <2> QED
    BY <1>4, <2>1, <2>2, <2>3
<1>13. CASE Ignored
  <2>1. /\ call # Idle /\ call.at \in 1..End /\ done[call.at] /\ call' = Idle
        /\ UNCHANGED <<phase, senders, done, sink, dead>>
    BY <1>13, IgnoredEffect
  <2>2. senders # <<>> /\ phase = "called"
    BY <2>1 DEF TypeOK
  <2>3. Sent' = Sent /\ Sent \in Nat /\ Sent # 0
    BY <1>0, <1>3, <1>4, <1>8, <2>1, <2>2, SentType
  <2>4. Sent >= F => done[1]
    BY <1>4, <2>1, <2>2
  <2> QED
    BY <1>2, <1>4, <1>6, <2>1, <2>2, <2>3, <2>4
<1>14. ASSUME NEW p \in 1..Len(chain), Operator(p)
       PROVE  /\ ~dead' /\ phase' = "called" /\ Sent' \in {1, 2} /\ Sent' <= F
              /\ Sent' = 1 => ~Told(sink')
              /\ Sent' = 1 /\ F = 1 => call'.signal # "value"
              /\ Sent' = 2 /\ F = 2 => call'.signal = "done"
              /\ Sent' >= F => call'.at = 1 \/ done'[1]
  <2>1. /\ p \in 1..End /\ p # End /\ call.at = p /\ call # Idle /\ ~done[p]
        /\ UNCHANGED <<phase, senders, sink, dead>>
        /\ \A j \in 1..End : j # p => (done'[j] <=> done[j])
    BY <1>14, OperatorEffect
  <2>2. /\ senders # <<>> /\ Sent \in {1, 2} /\ Sent <= F
        /\ Sent = F => call.signal # "value"
        /\ Sent = 2 => call.signal = "done"
        /\ Sent = 1 => ~Told(sink)
        /\ call.at # 1 /\ Sent = F => done[1]
    BY <1>7, <2>1 DEF Ignores
  <2>3. Sent' = Sent /\ phase = "called"
    BY <1>0, <1>8, <2>1, <2>2 DEF TypeOK
  <2>4. call.signal # "value" => call'.signal = call.signal /\ done'[p]
    BY <1>14, OperatorEffect
  <2>5. Sent = F => done'[1]
    BY <1>5, <2>1, <2>2, <2>4
  <2>6. Sent = 2 => F = 2 /\ Sent = F
    BY <1>2, <2>2
  <2> QED
    BY <1>2, <1>4, <2>1, <2>2, <2>3, <2>4, <2>5, <2>6 DEF Told
<1>15. ASSUME NEW i \in 1..Len(chain), SwitchError(i) PROVE FALSE
  BY <1>3, <1>15 DEF SwitchError, Switches
<1>16. CASE SinkValue
  <2>1. /\ call.at = End /\ call.signal = "value" /\ call # Idle /\ ~Ignores(End)
        /\ UNCHANGED <<phase, senders, done>>
    BY <1>16, SinkValueEffect
  <2>2. senders # <<>> /\ Sent = 1 /\ F = 2 /\ ~Told(sink)
    BY <1>2, <1>5, <1>7, <2>1
  <2>3. Sent' = 1 /\ phase = "called" /\ ~Satisfied
    BY <1>0, <1>8, <2>1, <2>2 DEF TypeOK, Satisfied
  <2>4. ~dead' /\ (call' # Idle => sink' = sink)
    BY <1>3, <1>16, <2>3, SinkValueEffect
  <2>5. call' # Idle => ~Told(sink')
    BY <2>2, <2>4
  <2> QED
    BY <2>1, <2>2, <2>3, <2>4, <2>5
<1>17. CASE SinkError \/ SinkDone
  <2>1. /\ call.at = End /\ call.signal \in {"error", "done"} /\ call # Idle /\ ~Ignores(End)
        /\ call' = Idle /\ done'[End] /\ UNCHANGED <<phase, senders>>
        /\ \A j \in 1..End : j # End => done'[j] = done[j]
    BY <1>17, SinkErrorEffect, SinkDoneEffect
  <2>2. /\ senders # <<>> /\ Sent \in {1, 2} /\ Sent <= F
        /\ Sent = 2 => call.signal = "done"
        /\ Sent = 1 => ~Told(sink)
        /\ call.at # 1 /\ Sent = F => done[1]
    BY <1>5, <1>7, <2>1
  <2>3. Sent' = Sent /\ phase = "called"
    BY <1>0, <1>8, <2>1, <2>2 DEF TypeOK
  <2>4. ~dead'
    <3>1. CASE SinkDone
      BY <1>4, <3>1, SinkDoneEffect
    <3>2. CASE SinkError
      <4>1. call.signal = "error"
        BY <3>2, SinkErrorEffect
      <4>2. ~Satisfied
        BY <2>2, <4>1 DEF Satisfied
      <4> QED
        BY <1>3, <3>2, <4>2, SinkErrorEffect
    <3> QED
      BY <1>17, <3>1, <3>2
  <2>5. Sent = F => done'[1]
    BY <1>5, <2>1, <2>2
  <2> QED
    BY <1>2, <1>6, <2>1, <2>2, <2>3, <2>4, <2>5
<1>18. CASE Get
  BY <1>3, <1>18 DEF Get
<1>19. ASSUME NEW p \in 1..Len(chain), Operator(p)
       PROVE  /\ ~dead'
              /\ phase' # "called" => ~Told(sink')
              /\ senders' # <<>> =>
                   /\ Sent' = 0 => call' = Idle /\ ~Told(sink')
                   /\ Sent' = 1 /\ call' # Idle => ~Told(sink')
                   /\ Sent' = 1 /\ F = 1 => call'.signal # "value"
                   /\ Sent' = 2 /\ F = 2 => call'.signal = "done"
                   /\ Sent' >= F => call'.at = 1 \/ done'[1]
                   /\ Sent' > F => done'[1] /\ call'.at <= 1
  <2>1. Sent' # 0 /\ ~(Sent' > F)
    BY <1>2, <1>14, <1>19
  <2> QED
    BY <1>14, <1>19, <2>1
<1> QED
  BY <1>9, <1>10, <1>11, <1>12, <1>13, <1>15, <1>16, <1>17, <1>18, <1>19 DEF Next, Operator

LEMMA FetchedStep ==
  ASSUME SetupOK, TypeOK, Flagged, OneSender, Fetched, Next
  PROVE  Fetched'
<1>0. UNCHANGED <<chain, kind, given, sender, script>> /\ End' = End /\ Plain' = Plain
  BY SetupKept DEF Plain
<1>1. SUFFICES ASSUME Plain, script # <<>> => Head(script) # "done"
               PROVE  /\ senders' # <<>> /\ Sent' = 0 => call' = Idle /\ Untouched'
                      /\ senders' # <<>> /\ Sent' > 0 /\ ~Told(sink') =>
                           /\ Sent' = 1 /\ call' # Idle /\ call'.signal # "done"
                           /\ \A j \in call'.at..End : ~done'[j]
                      /\ phase' = "called" /\ senders' = <<>> =>
                           Told(sink') \/ (script = <<>> /\ Untouched')
                      /\ result' # "undefined"
  BY <1>0 DEF Fetched, Idle, Told
<1>2. /\ senders # <<>> /\ Sent = 0 => call = Idle /\ Untouched
      /\ senders # <<>> /\ Sent > 0 /\ ~Told(sink) =>
           /\ Sent = 1 /\ call # Idle /\ call.signal # "done"
           /\ \A j \in call.at..End : ~done[j]
      /\ phase = "called" /\ senders = <<>> => Told(sink) \/ (script = <<>> /\ Untouched)
      /\ result # "undefined"
  BY <1>1 DEF Fetched
<1>3. /\ kind = "get" /\ given = {"value", "error"} /\ ~Switches
      /\ \A i \in 1..Len(chain) : chain[i] # "filter"
  BY <1>1 DEF Plain, SetupOK, Switches
<1>4. End \in Nat /\ End \in 1..End /\ ~Satisfied
  BY <1>3, ChainType DEF Satisfied
<1>5. ASSUME UNCHANGED <<senders, script>> PROVE Sent' = Sent
  BY <1>5 DEF Sent
<1>6. ASSUME UNCHANGED done PROVE Untouched' = Untouched
  BY <1>0, <1>6 DEF Untouched
\* A call is running: the first signal has been sent.
<1>7. ASSUME call # Idle PROVE senders # <<>> /\ phase = "called" /\ Sent \in Nat /\ Sent > 0
  <2>1. senders # <<>>
    BY <1>7 DEF TypeOK
  <2>2. Sent \in Nat /\ Sent # 0
    BY <1>2, <1>3, <1>7, <2>1, SentType
  <2> QED
    BY <2>1, <2>2 DEF TypeOK
<1>8. CASE Submit \/ SubmitUnwrapped
  <2>1. /\ phase = "new" /\ phase' = "called" /\ call' = Idle /\ result' = result
        /\ done' = done /\ senders' # <<>> /\ senders'[1].script = script
    BY <1>8, StartEffect
  <2>2. Sent' = 0
    <3>1. Len(script) \in Nat
      BY DEF SetupOK
    <3> QED
      BY <1>0, <2>1, <3>1 DEF Sent
  <2>3. Untouched'
    BY <1>6, <2>1 DEF TypeOK
  <2> QED
    BY <1>2, <2>1, <2>2, <2>3
<1>9. CASE DeferThrows
  <2>1. phase' = "refused" /\ phase = "new" /\ UNCHANGED <<senders, result>>
    BY <1>9 DEF DeferThrows, setup
  <2>2. senders' = <<>>
    BY <2>1 DEF TypeOK
  <2> QED
    BY <1>2, <2>1, <2>2
<1>10. CASE Send
  <2>1. /\ Sent' = Sent + 1 /\ Sent \in Nat /\ Sent + 1 <= Len(script)
        /\ call' = [at |-> 1, signal |-> script[Sent + 1]]
    BY <1>0, <1>3, <1>10, SentNext
  <2>2. /\ call = Idle /\ senders # <<>> /\ senders' # <<>>
        /\ UNCHANGED <<phase, result, done, sink, dead>>
    BY <1>10, SendEffect
  <2>3. call'.at = 1 /\ call'.signal = script[Sent + 1] /\ call' # Idle /\ Sent' # 0
    BY <2>1 DEF Idle
  <2>4. ASSUME ~Told(sink)
        PROVE  Sent' = 1 /\ call'.signal # "done" /\ \A j \in call'.at..End : ~done'[j]
    <3>1. Sent = 0 /\ Untouched
      BY <1>2, <2>1, <2>2, <2>4
    <3>2. script \in Seq(Signal) /\ script # <<>>
      BY <2>1, <3>1 DEF SetupOK
    <3>3. call'.signal = Head(script)
      BY <2>3, <3>1, <3>2
    <3>4. Sent' = 1
      BY <2>1, <3>1
    <3> QED
      BY <1>1, <2>2, <2>3, <3>1, <3>2, <3>3, <3>4 DEF Untouched
  <2>5. Told(sink') = Told(sink)
    BY <2>2
  <2> QED
    BY <1>2, <2>2, <2>3, <2>4, <2>5
<1>11. CASE SenderReturns
  <2>1. /\ senders # <<>> /\ UNCHANGED <<phase, call, result, done, sink>>
        /\ Len(senders') = Len(senders) - 1 /\ call = Idle /\ senders' \in Seq(Sending)
        /\ senders[Len(senders)].script = <<>>
    BY <1>11, ReturnsEffect
  <2>2. Len(senders) = 1 /\ Sent \in Nat /\ Len(script) \in Nat
    BY <1>3, <2>1, SentType
  <2>3. senders' = <<>>
    BY <2>1, <2>2
  <2>4. Sent = Len(script)
    BY <2>1, <2>2 DEF Sent
  <2>5. Told(sink') \/ (script = <<>> /\ Untouched')
    <3>1. CASE Sent = 0
      <4>1. Untouched'
        BY <1>2, <1>6, <2>1, <3>1
      <4>2. script \in Seq(Signal) /\ Len(script) = 0
        BY <2>4, <3>1 DEF SetupOK
      <4>3. script = <<>>
        BY <4>2
      <4> QED
        BY <4>1, <4>3
    <3>2. CASE Sent > 0
      BY <1>2, <2>1, <3>2
    <3> QED
      BY <2>2, <3>1, <3>2
  <2> QED
    BY <1>2, <2>1, <2>3, <2>5
<1>12. CASE Ignored
  <2>1. /\ call # Idle /\ call.at \in 1..End /\ done[call.at]
        /\ UNCHANGED <<phase, result, senders, done, sink, dead>>
    BY <1>12, IgnoredEffect
  <2>2. senders # <<>> /\ Sent \in Nat /\ Sent > 0 /\ Sent' = Sent
    BY <1>0, <1>5, <1>7, <2>1
  <2>3. call.at \in call.at..End
    BY <1>4, <2>1
  <2>4. Told(sink) /\ Told(sink')
    BY <1>2, <2>1, <2>2, <2>3
  <2> QED
    BY <1>2, <2>1, <2>2, <2>4
<1>13. ASSUME NEW p \in 1..Len(chain), Operator(p)
       PROVE  /\ senders' # <<>> /\ Sent' \in Nat /\ Sent' > 0 /\ result' # "undefined"
              /\ ~Told(sink') =>
                   /\ Sent' = 1 /\ call' # Idle /\ call'.signal # "done"
                   /\ \A j \in call'.at..End : ~done'[j]
  <2>1. /\ p \in 1..End /\ p + 1 \in 1..End /\ p # End /\ call.at = p /\ call # Idle /\ ~done[p]
        /\ UNCHANGED <<phase, result, senders, sink, dead>>
        /\ \A j \in 1..End : j # p => (done'[j] <=> done[j])
        /\ \/ call' = [at |-> p + 1, signal |-> call.signal]
           \/ call' = [at |-> p, signal |-> "error"] /\ ~done'[p]
    BY <1>3, <1>13, OperatorEffect
  <2>2. senders # <<>> /\ Sent \in Nat /\ Sent > 0 /\ Sent' = Sent
    BY <1>0, <1>5, <1>7, <2>1
  <2>3. ASSUME ~Told(sink)
        PROVE  Sent = 1 /\ call' # Idle /\ call'.signal # "done" /\ \A j \in call'.at..End : ~done'[j]
    <3>1. Sent = 1 /\ call.signal # "done" /\ \A j \in p..End : ~done[j]
      BY <1>2, <2>1, <2>2, <2>3
    <3>2. CASE call' = [at |-> p + 1, signal |-> call.signal]
      <4>1. call'.at = p + 1 /\ call'.signal = call.signal
        BY <3>2
      <4>2. \A j \in (p + 1)..End : j \in 1..End /\ j # p /\ j \in p..End
        BY <1>4, <2>1
      <4> QED
        BY <2>1, <3>1, <4>1, <4>2 DEF Idle
    <3>3. CASE call' = [at |-> p, signal |-> "error"] /\ ~done'[p]
      <4>1. call'.at = p /\ call'.signal = "error"
        BY <3>3
      <4>2. \A j \in p..End : j \in 1..End
        BY <1>4, <2>1
      <4> QED
        BY <2>1, <3>1, <3>3, <4>1, <4>2 DEF Idle
    <3> QED
      BY <2>1, <3>2, <3>3
  <2>4. Told(sink') = Told(sink)
    BY <2>1
  <2> QED
    BY <1>2, <2>1, <2>2, <2>3, <2>4
<1>14. ASSUME NEW i \in 1..Len(chain), SwitchError(i) PROVE FALSE
  BY <1>3, <1>14 DEF SwitchError, Switches
<1>15. CASE SinkValue
  <2>1. /\ call.at = End /\ call # Idle /\ UNCHANGED <<phase, result, senders, done>>
        /\ \/ sink'.n = sink.n + 1
           \/ sink'.end = "error"
           \/ call' = [at |-> End, signal |-> "error"] /\ sink' = sink
    BY <1>3, <1>4, <1>15, SinkValueEffect
  <2>2. senders # <<>> /\ Sent \in Nat /\ Sent > 0 /\ Sent' = Sent
    BY <1>0, <1>5, <1>7, <2>1
  <2>3. CASE sink'.n = sink.n + 1 \/ sink'.end = "error"
    <3>1. sink.n \in Nat
      BY DEF TypeOK, ReceiverType
    <3>2. Told(sink')
      BY <2>3, <3>1 DEF Told
    <3> QED
      BY <1>2, <2>1, <2>2, <3>2
  <2>4. CASE call' = [at |-> End, signal |-> "error"] /\ sink' = sink
    <3>1. call'.at = End /\ call'.signal = "error" /\ call' # Idle
      BY <2>4 DEF Idle
    <3>2. ~Told(sink') => Sent = 1 /\ \A j \in End..End : ~done'[j]
      BY <1>2, <2>1, <2>2, <2>4
    <3> QED
      BY <1>2, <2>1, <2>2, <3>1, <3>2
  <2> QED
    BY <2>1, <2>3, <2>4
<1>16. CASE SinkError \/ SinkDone
  <2>1. /\ call.at = End /\ call # Idle /\ UNCHANGED <<phase, result, senders>>
        /\ sink'.end = "error" \/ (sink' = sink /\ call.signal = "done")
    BY <1>3, <1>4, <1>16, SinkErrorEffect, SinkDoneEffect
  <2>2. senders # <<>> /\ Sent \in Nat /\ Sent > 0 /\ Sent' = Sent
    BY <1>0, <1>5, <1>7, <2>1
  <2>3. Told(sink')
    <3>1. CASE sink'.end = "error"
      BY <3>1 DEF Told
    <3>2. CASE sink' = sink /\ call.signal = "done"
      BY <1>2, <2>2, <3>2
    <3> QED
      BY <2>1, <3>1, <3>2
  <2> QED
    BY <1>2, <2>1, <2>2, <2>3
<1>17. CASE Get
  <2>1. /\ Returned /\ UNCHANGED <<phase, senders, call, done, sink>>
        /\ sender = "user" => done[End]
        /\ result' = IF Ended(sink) THEN "error" ELSE Read(sink)
    BY <1>17 DEF Get, Blocking
  <2>2. phase = "called" /\ senders = <<>>
    BY <2>1 DEF Returned
  <2>3. Told(sink)
    <3>1. ~(script = <<>> /\ Untouched)
      BY <1>4, <2>1 DEF SetupOK, Untouched
    <3> QED
      BY <1>2, <2>2, <3>1
  <2>4. result' # "undefined"
    BY <2>1, <2>3 DEF Told, Ended, Read
  <2> QED
    BY <2>1, <2>2, <2>3, <2>4
<1>18. ASSUME NEW p \in 1..Len(chain), Operator(p)
       PROVE  /\ senders' # <<>> /\ Sent' = 0 => call' = Idle /\ Untouched'
              /\ senders' # <<>> /\ Sent' > 0 /\ ~Told(sink') =>
                   /\ Sent' = 1 /\ call' # Idle /\ call'.signal # "done"
                   /\ \A j \in call'.at..End : ~done'[j]
              /\ phase' = "called" /\ senders' = <<>> =>
                   Told(sink') \/ (script = <<>> /\ Untouched')
              /\ result' # "undefined"
  <2>1. Sent' # 0
    BY <1>13, <1>18
  <2> QED
    BY <1>13, <1>18, <2>1
<1> QED
  BY <1>8, <1>9, <1>10, <1>11, <1>12, <1>14, <1>15, <1>16, <1>17, <1>18 DEF Next, Operator

-----------------------------------------------------------------------------
\* A step after which one of the observed has been told one thing more is a step of the
\* contract, or none.
LEMMA ContractStep ==
  ASSUME NEW s \in 0..MaxChain,
         \A i \in 0..MaxChain : i # s => Observed(i)' = Observed(i),
         Grows(Observed(s), Observed(s)')
  PROVE  [Contract!Next]_(Contract!vars)
<1> DEFINE n  == [i \in 0..MaxChain |-> Observed(i).n]
           n2 == [i \in 0..MaxChain |-> Observed(i)'.n]
           e  == [i \in 0..MaxChain |-> Kind(Observed(i).end)]
           e2 == [i \in 0..MaxChain |-> Kind(Observed(i)'.end)]
<1>0. PICK o, o2 : /\ o = [i \in 0..MaxChain |-> Observed(i)]
                   /\ o2 = [i \in 0..MaxChain |-> Observed(i)']
  OBVIOUS
<1>1. /\ n = [i \in 0..MaxChain |-> o[i].n] /\ n2 = [i \in 0..MaxChain |-> o2[i].n]
      /\ e = [i \in 0..MaxChain |-> Kind(o[i].end)] /\ e2 = [i \in 0..MaxChain |-> Kind(o2[i].end)]
      /\ \A i \in 0..MaxChain : i # s => o2[i] = o[i]
      /\ Grows(o[s], o2[s])
  BY <1>0
<1>2. CASE o2[s].n = o[s].n /\ o2[s].end = o[s].end
  <2>1. n2 = n /\ e2 = e
    BY <1>1, <1>2
  <2> QED
    BY <2>1 DEF Contract!vars
<1>3. CASE ~Ended(o[s]) /\ ~Ended(o2[s]) /\ o2[s].n = o[s].n + 1
  <2>1. \A i \in 0..MaxChain : o2[i].n = IF i = s THEN o[s].n + 1 ELSE o[i].n
    BY <1>1, <1>3
  <2>2. [i \in 0..MaxChain |-> o2[i].n] = [[i \in 0..MaxChain |-> o[i].n] EXCEPT ![s] = @ + 1]
    BY <2>1
  <2>3. n2 = [n EXCEPT ![s] = @ + 1]
    BY <1>1, <2>2, Zenon
  <2>4. e2 = e /\ e[s] = "none"
    BY <1>1, <1>3 DEF Kind, Ended, Errors
  <2>5. Contract!Value(s)
    BY <2>3, <2>4 DEF Contract!Value
  <2> QED
    BY <2>5 DEF Contract!Next
<1>4. CASE ~Ended(o[s]) /\ o2[s].end \in Errors \cup {"done"} /\ o2[s].n = o[s].n
  <2>1. n2 = n
    BY <1>1, <1>4
  <2>2. \A i \in 0..MaxChain : Kind(o2[i].end) = IF i = s THEN Kind(o2[s].end) ELSE Kind(o[i].end)
    BY <1>1
  <2>3. [i \in 0..MaxChain |-> Kind(o2[i].end)]
          = [[i \in 0..MaxChain |-> Kind(o[i].end)] EXCEPT ![s] = Kind(o2[s].end)]
    BY <2>2
  <2>4. e2 = [e EXCEPT ![s] = Kind(o2[s].end)]
    BY <1>1, <2>3, Zenon
  <2>5. e[s] = "none"
    BY <1>1, <1>4 DEF Kind, Ended, Errors
  <2>6. Kind(o2[s].end) \in {"error", "done"}
    BY <1>4 DEF Kind, Errors
  <2>7. Contract!Complete(s, Kind(o2[s].end))
    BY <2>1, <2>4, <2>5 DEF Contract!Complete
  <2> QED
    BY <2>6, <2>7 DEF Contract!Next
<1> QED
  BY <1>1, <1>2, <1>3, <1>4 DEF Grows

LEMMA ContractNext ==
  ASSUME SetupOK, TypeOK, Flagged, [Next]_vars
  PROVE  [Contract!Next]_(Contract!vars)
<1>0. MaxChain \in Nat /\ 0 \in 0..MaxChain /\ Len(chain) \in Nat /\ Len(chain) <= MaxChain
  BY ChainType
<1>1. UNCHANGED <<chain, kind, sender, Blocking>>
  BY SetupKept DEF vars, Blocking
<1>2. ASSUME UNCHANGED <<chain, side, sink>> PROVE [Contract!Next]_(Contract!vars)
  <2>1. \A i \in 0..MaxChain : Observed(i)' = Observed(i)
    BY <1>2, <1>1 DEF Observed
  <2> QED
    BY <2>1 DEF Contract!vars
<1>3. ASSUME chain' = chain, side' = side, Grows(sink, sink') \/ Blocking
      PROVE  [Contract!Next]_(Contract!vars)
  <2>1. IF Blocking THEN Observed(0)' = Observed(0)
                    ELSE Observed(0) = sink /\ Observed(0)' = sink'
    BY <1>0, <1>1 DEF Observed
  <2>2. \A i \in 0..MaxChain : i # 0 => Observed(i)' = Observed(i)
    BY <1>3, <1>1 DEF Observed
  <2>3. CASE Blocking
    BY <2>1, <2>2, <2>3 DEF Contract!vars
  <2>4. CASE ~Blocking
    BY <1>0, <1>3, <2>1, <2>2, <2>4, ContractStep
  <2> QED
    BY <2>3, <2>4
<1>4. CASE UNCHANGED vars
  BY <1>2, <1>4 DEF vars
<1>5. CASE Submit \/ SubmitUnwrapped \/ DeferThrows \/ Send \/ SenderReturns \/ Ignored \/ Get
  BY <1>2, <1>5 DEF Submit, SubmitUnwrapped, Start, DeferThrows, Send, SenderReturns, Ignored,
     Get, setup
<1>6. ASSUME NEW i \in 1..Len(chain), Operator(i) PROVE [Contract!Next]_(Contract!vars)
  <2>1. /\ \A j \in 1..Len(chain) : j # i => side'[j] = side[j]
        /\ Grows(side[i], side'[i])
    BY <1>6, SideEffect, ChainType
  <2>2. chain' = chain /\ sink' = sink
    BY <1>6 DEF Operator, TransformValue, FilterValue, TapValue, TapCompletion, PassOn, setup
  <2>3. i \in 0..MaxChain /\ i # 0 /\ i <= Len(chain)
    BY <1>0
  <2>4. Observed(i) = side[i] /\ Observed(i)' = side'[i]
    BY <1>0, <1>1, <2>2, <2>3 DEF Observed
  <2>5. ASSUME NEW j \in 0..MaxChain, j # i PROVE Observed(j)' = Observed(j)
    <3> QED
      BY <1>1, <2>1, <2>2, <2>5 DEF Observed
  <2> QED
    BY <2>1, <2>3, <2>4, <2>5, ContractStep
<1>7. ASSUME NEW i \in 1..Len(chain), SwitchError(i) PROVE [Contract!Next]_(Contract!vars)
  BY <1>2, <1>7 DEF SwitchError, setup
<1>8. CASE SinkValue
  <2>1. chain' = chain /\ side' = side
    BY <1>8 DEF SinkValue, setup
  <2>2. Grows(sink, sink') \/ Blocking
    BY <1>8, SinkValueEffect DEF Grows, Ended, Errors
  <2> QED
    BY <1>3, <2>1, <2>2
<1>9. CASE SinkError \/ SinkDone
  <2>1. chain' = chain /\ side' = side
    BY <1>9 DEF SinkError, SinkDone, setup
  <2>2. Grows(sink, sink') \/ Blocking
    BY <1>9, SinkErrorEffect, SinkDoneEffect DEF Grows, Ended, Errors
  <2> QED
    BY <1>3, <2>1, <2>2
<1> QED
  BY <1>4, <1>5, <1>6, <1>7, <1>8, <1>9 DEF Next, Operator

-----------------------------------------------------------------------------
LEMMA InitInv == Init => PipelineInv /\ Contract!Init
<1> SUFFICES ASSUME Init PROVE PipelineInv /\ Contract!Init
  OBVIOUS
<1>1. SetupOK
  <2>1. script \in Seq(Signal) /\ (sender # "user" => Len(script) > 0)
    BY ScriptType DEF Init
  <2>2. sender # "user" => script # <<>>
    BY <2>1
  <2> QED
    BY <2>1, <2>2 DEF Init, SetupOK
<1>2. NewReceiver \in ReceiverType /\ NewReceiver.n = 0 /\ ~NewReceiver.done /\ NewReceiver.end = "none"
  BY DEF NewReceiver, ReceiverType, Ends
<1>3. Untouched /\ done \in [1..End -> BOOLEAN]
  BY DEF Init, NotDone, Untouched
<1>4. call \in [at : 0..End, signal : Signal]
  BY <1>1, ChainType DEF Init, Idle, Signal
<1>5. TypeOK
  <2>1. side \in [1..End -> ReceiverType] /\ sink \in ReceiverType
    BY <1>2 DEF Init
  <2>2. senders = <<>> /\ senders \in Seq(Sending)
    BY DEF Init
  <2>3. /\ phase = "new" /\ call = Idle /\ dead \in BOOLEAN /\ result = "none"
    BY DEF Init
  <2> QED
    BY <1>3, <1>4, <2>1, <2>2, <2>3 DEF TypeOK
<1>6. Flagged
  <2>1. End \in 1..End /\ \A i \in 1..Len(chain) : i \in 1..End
    BY <1>1, ChainType
  <2> QED
    BY <1>2, <1>3, <2>1 DEF Init, Flagged, Untouched, Ended
<1>7. Completing
  BY DEF Init, Completing
<1>8. OneSender /\ Fetched
  BY DEF Init, OneSender, Fetched
<1>9. OneResult
  BY <1>2 DEF Init, OneResult, Told
<1>10. Contract!Init
  <2>1. \A i \in 1..Len(chain) : i \in 1..End
    BY <1>1, ChainType
  <2>2. \A i \in 0..MaxChain : Observed(i) = NewReceiver
    <3> SUFFICES ASSUME NEW i \in 1..Len(chain) PROVE side[i] = NewReceiver
      BY DEF Observed, Init
    <3> QED
      BY <2>1 DEF Init
  <2>3. Kind("none") = "none"
    BY DEF Kind, Errors
  <2> QED
    BY <1>2, <2>2, <2>3 DEF Contract!Init
<1> QED
  BY <1>1, <1>5, <1>6, <1>7, <1>8, <1>9, <1>10 DEF PipelineInv

LEMMA StepInv == PipelineInv /\ [Next]_vars => PipelineInv'
<1> SUFFICES ASSUME PipelineInv, [Next]_vars PROVE PipelineInv'
  OBVIOUS
<1>1. CASE Next
  BY <1>1, SetupStep, TypeStep, FlaggedStep, CompletingStep, OneSenderStep, OneResultStep,
     FetchedStep DEF PipelineInv
<1>2. CASE UNCHANGED vars
  <2>0. UNCHANGED <<chain, kind, given, sender, script, phase, senders, call, done, side, sink,
                    dead, result>>
    BY <1>2 DEF vars
  <2>1. SetupOK' /\ TypeOK'
    BY <2>0 DEF PipelineInv, SetupOK, TypeOK, Untouched, Sending, End
  <2>2. Flagged' /\ Completing'
    BY <2>0 DEF PipelineInv, Flagged, Ended, Completing, Owed, End, CaughtInside, Blocking
  <2>3. OneSender' /\ OneResult'
    BY <2>0 DEF PipelineInv, OneSender, Sent, Switches, OneResult, Single
  <2>4. Fetched'
    BY <2>0 DEF PipelineInv, Fetched, Plain, Sent, Untouched, End
  <2> QED
    BY <2>1, <2>2, <2>3, <2>4 DEF PipelineInv
<1> QED
  BY <1>1, <1>2

\* The inductive invariant: what the flags mean, where the completion that is still owed
\* comes from, what is left of the script, and who has been told of what has been sent.
THEOREM PipelineCorrect == Spec => []PipelineInv
BY InitInv, StepInv, PTL DEF Spec

\* When submit() of a sender that completes has returned, the end of the chain has been
\* completed, and so have the side effects of every tap that was: no operator swallows a
\* completion, however long the chain and wherever functions throw or senders are switched.
THEOREM AllCompletedCorrect == Spec => []AllCompleted
<1>1. PipelineInv => AllCompleted
  <2> SUFFICES ASSUME PipelineInv, Returned, Completes(script), ~dead
               PROVE  /\ done[End]
                      /\ given = Signal => Ended(sink)
                      /\ \A i \in 1..Len(chain) : done[i] /\ chain[i] = "tap" => Ended(side[i])
    BY DEF AllCompleted
  <2>1. phase = "called" /\ senders = <<>> /\ call = Idle
    BY DEF Returned
  <2>2. ~Owed(0)
    BY <2>1 DEF Owed, Idle
  <2>3. 0 \in 0..End
    BY ChainType DEF PipelineInv
  <2>4. done[End]
    BY <2>1, <2>2, <2>3 DEF PipelineInv, Completing
  <2> QED
    BY <2>4 DEF PipelineInv, Flagged
<1> QED
  BY <1>1, PipelineCorrect, PTL

\* A promise at the end of a chain gets at most one result from a sender that keeps to the
\* protocol of a single up to its completion, so nothing ends the process.
THEOREM PromiseCorrect == Spec => []PromiseOnce
<1>1. PipelineInv => PromiseOnce
  BY DEF PipelineInv, OneResult, Single, PromiseOnce
<1> QED
  BY <1>1, PipelineCorrect, PTL

\* get reads a result that nobody stored only if the sender was done at once, or a filter
\* or a chosen sender kept the value from it.
THEOREM ResultCorrect == Spec => []ResultDefined
<1>1. PipelineInv => ResultDefined
  <2> SUFFICES ASSUME PipelineInv, result = "undefined",
                      ~ \E i \in 1..Len(chain) : chain[i] \in {"filter", "switch_on_error"}
               PROVE  Head(script) = "done"
    BY DEF ResultDefined
  <2>1. Plain
    BY DEF PipelineInv, TypeOK, Plain
  <2> QED
    BY <2>1 DEF PipelineInv, Fetched
<1> QED
  BY <1>1, PipelineCorrect, PTL

\* The functions at the end (behind submit) and the side effects of every tap get values, then
\* at most one completion, and nothing after it: the chain implements the contract of a
\* receiver.
THEOREM ContractCorrect == Spec => ContractKept
<1>1. Init => PipelineInv /\ Contract!Init
  BY InitInv
<1>2. PipelineInv /\ [Next]_vars => PipelineInv'
  BY StepInv
<1>3. PipelineInv /\ [Next]_vars => [Contract!Next]_(Contract!vars)
  BY ContractNext DEF PipelineInv
<1> QED
  BY <1>1, <1>2, <1>3, PTL DEF Spec, ContractKept, Contract!Spec
=============================================================================
