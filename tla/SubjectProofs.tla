---------------------------- MODULE SubjectProofs ----------------------------
(***************************************************************************)
(* Proofs about Subject, for every number of subscribers and producers and  *)
(* with receivers that may come back to the subject that calls them.        *)
(*                                                                         *)
(* That nobody is forgotten needs to know what the loops of error() and     *)
(* done() have achieved when they end: the receivers before next have been  *)
(* completed, and receivers_ holds nobody once the subject is over, except  *)
(* while such a loop runs.  A loop runs only in the thread that holds lock_. *)
(***************************************************************************)
EXTENDS Subject, TLAPS

\* A loop runs in the thread that holds lock_.
Exclusive == \A p \in Producer : call[p] # "none" => lock = p

\* done_ of a receiver says that it was completed.
Flagged == \A s \in Subscriber : out[s].done <=> Ended(out[s])

Waiting(s) == \E i \in 1..Len(receivers) : receivers[i] = s

\* Whoever has submitted waits, was completed, or came late and was told.
Served ==
  \A s \in Subscriber :
    status[s] = "returned" => Waiting(s) \/ Ended(out[s]) \/ (s \in late /\ Told(out[s]))

Completing(p) == call[p] \in {"error", "done"}

\* When the subject is over nobody waits, unless a loop is completing those who do.
OverEmpty == done \/ ep => receivers = <<>> \/ \E p \in Producer : Completing(p)

\* A loop that completes receivers has completed those before its position.
Progress ==
  \A p \in Producer :
    Completing(p) => \A i \in 1..Len(receivers) : i < next => Ended(out[receivers[i]])

SubjectInv == TypeOK /\ Exclusive /\ Flagged /\ Served /\ OverEmpty /\ Progress

-----------------------------------------------------------------------------
LEMMA ReceiverCalls ==
  ASSUME NEW r \in ReceiverType
  PROVE  /\ Value(r) \in ReceiverType /\ Error(r, "thrown") \in ReceiverType
         /\ Error(r, "error") \in ReceiverType /\ Error(r, "null") \in ReceiverType
         /\ Done(r) \in ReceiverType
         /\ ~r.done => /\ Value(r).n = r.n + 1 /\ ~Value(r).done /\ Value(r).end = r.end
                       /\ \A e \in Errors : /\ Error(r, e).done /\ Error(r, e).n = r.n
                                            /\ Error(r, e).end = e
                       /\ Done(r).done /\ Done(r).n = r.n /\ Done(r).end = "done"
         /\ r.done => Value(r) = r /\ Done(r) = r /\ \A e \in Errors : Error(r, e) = r
<1>1. Value(r) \in ReceiverType
  BY DEF ReceiverType, Value
<1>2. /\ Error(r, "thrown") \in ReceiverType /\ Error(r, "error") \in ReceiverType
      /\ Error(r, "null") \in ReceiverType
  BY DEF ReceiverType, Error, Ends, Errors
<1>3. Done(r) \in ReceiverType
  BY DEF ReceiverType, Done, Ends
<1>4. r.done => Value(r) = r /\ Done(r) = r /\ \A e \in Errors : Error(r, e) = r
  BY DEF Value, Error, Done
<1>5. ~r.done => /\ Value(r).n = r.n + 1 /\ ~Value(r).done /\ Value(r).end = r.end
  BY DEF ReceiverType, Value
<1>6. ~r.done => /\ \A e \in Errors : /\ Error(r, e).done /\ Error(r, e).n = r.n
                                      /\ Error(r, e).end = e
                 /\ Done(r).done /\ Done(r).n = r.n /\ Done(r).end = "done"
  BY DEF ReceiverType, Error, Done
<1> QED
  BY <1>1, <1>2, <1>3, <1>4, <1>5, <1>6

\* What a call of a receiver may make of it.
Called(r, r2) ==
  /\ r2 \in ReceiverType
  /\ r2.done <=> Ended(r2)
  /\ Ended(r) => r2 = r
  /\ Told(r) => Told(r2)
  /\ \/ r2 = r
     \/ ~Ended(r) /\ ~Ended(r2) /\ r2.n = r.n + 1
     \/ ~Ended(r) /\ r2.n = r.n /\ r2.end \in Errors \cup {"done"}

LEMMA Calls ==
  ASSUME NEW r \in ReceiverType, r.done <=> Ended(r)
  PROVE  /\ \A throws \in BOOLEAN : Called(r, set_value(r, throws)) /\ Told(set_value(r, throws))
         /\ \A e \in {"error", "null"} : Called(r, set_error(r, e)) /\ Ended(set_error(r, e))
         /\ Called(r, set_done(r)) /\ Ended(set_done(r))
<1>1. r.n \in Nat /\ r.end \in Ends
  BY DEF ReceiverType
<1>2. Called(r, r)
  BY DEF Called
<1>3. CASE r.done
  BY <1>2, <1>3, ReceiverCalls DEF set_value, set_error, set_done, Told, Ended, Errors
<1>4. CASE ~r.done
  <2>1. r.end = "none"
    BY <1>4 DEF Ended
  <2>2. Called(r, Value(r)) /\ Told(Value(r))
    BY <1>1, <1>4, <2>1, ReceiverCalls DEF Called, Told, Ended
  <2>3. \A e \in Errors : Error(r, e) \in ReceiverType
    BY ReceiverCalls DEF Errors
  <2>4. \A e \in Errors : /\ Error(r, e).done /\ Error(r, e).n = r.n
                          /\ Error(r, e).end = e /\ e # "none"
    BY <1>4, ReceiverCalls DEF Errors
  <2>5. \A e \in Errors : Called(r, Error(r, e)) /\ Ended(Error(r, e)) /\ Told(Error(r, e))
    BY <1>4, <2>1, <2>3, <2>4 DEF Called, Told, Ended
  <2>6. Called(r, Done(r)) /\ Ended(Done(r))
    BY <1>4, <2>1, ReceiverCalls DEF Called, Told, Ended
  <2> QED
    BY <1>4, <2>2, <2>5, <2>6 DEF set_value, set_error, set_done, Errors
<1> QED
  BY <1>3, <1>4 DEF ReceiverType

\* A call of one receiver is a step of the contract.
LEMMA ContractStep ==
  ASSUME TypeOK, Flagged, NEW s \in Subscriber, NEW r2, Called(out[s], r2),
         out' = [out EXCEPT ![s] = r2]
  PROVE  [Contract!Next]_(Contract!vars)
<1> DEFINE n  == [u \in Subscriber |-> out[u].n]
           n2 == [u \in Subscriber |-> out'[u].n]
           e  == [u \in Subscriber |-> Kind(out[u].end)]
           e2 == [u \in Subscriber |-> Kind(out'[u].end)]
<1>1. out'[s] = r2 /\ \A u \in Subscriber \ {s} : out'[u] = out[u]
  BY DEF TypeOK
<1>2. CASE r2 = out[s]
  <2>1. out' = out
    BY <1>2 DEF TypeOK
  <2> QED
    BY <2>1 DEF Contract!vars
<1>3. CASE ~Ended(out[s]) /\ ~Ended(r2) /\ r2.n = out[s].n + 1
  <2>1. n2 = [n EXCEPT ![s] = @ + 1]
    <3>1. \A u \in Subscriber : out'[u].n = IF u = s THEN out[s].n + 1 ELSE out[u].n
      BY <1>1, <1>3
    <3> QED
      BY <3>1
  <2>2. e2 = e /\ e[s] = "none"
    BY <1>1, <1>3 DEF Kind, Ended, Errors
  <2>3. Contract!Value(s)
    BY <2>1, <2>2 DEF Contract!Value
  <2> QED
    BY <2>3 DEF Contract!Next
<1>4. CASE ~Ended(out[s]) /\ r2.n = out[s].n /\ r2.end \in Errors \cup {"done"}
  <2>1. n2 = n
    BY <1>1, <1>4
  <2>2. e2 = [e EXCEPT ![s] = Kind(r2.end)] /\ e[s] = "none"
    <3>1. \A u \in Subscriber : Kind(out'[u].end) = IF u = s THEN Kind(r2.end) ELSE Kind(out[u].end)
      BY <1>1
    <3>2. e2 = [e EXCEPT ![s] = Kind(r2.end)]
      BY <3>1
    <3>3. e[s] = "none"
      BY <1>4 DEF Kind, Ended, Errors
    <3> QED
      BY <3>2, <3>3
  <2>3. Kind(r2.end) \in {"error", "done"}
    BY <1>4 DEF Kind, Errors
  <2>4. Contract!Complete(s, Kind(r2.end))
    BY <2>1, <2>2 DEF Contract!Complete
  <2> QED
    BY <2>3, <2>4 DEF Contract!Next
<1> QED
  BY <1>2, <1>3, <1>4 DEF Called

LEMMA ContractStutter ==
  ASSUME UNCHANGED out
  PROVE  [Contract!Next]_(Contract!vars)
BY DEF Contract!vars

\* Calls complete receivers and never take a completion or a value back.
LEMMA OutEffect ==
  ASSUME TypeOK, Flagged, NEW s \in Subscriber, NEW r2, Called(out[s], r2),
         out' = [out EXCEPT ![s] = r2]
  PROVE  /\ out' \in [Subscriber -> ReceiverType] /\ Flagged' /\ out'[s] = r2
         /\ \A u \in Subscriber : /\ Ended(out[u]) => Ended(out'[u])
                                  /\ Told(out[u]) => Told(out'[u])
<1>1. out'[s] = r2 /\ \A u \in Subscriber \ {s} : out'[u] = out[u]
  BY DEF TypeOK
<1>2. out' \in [Subscriber -> ReceiverType]
  BY DEF TypeOK, Called
<1>3. Flagged'
  BY <1>1 DEF Flagged, Called
<1> QED
  BY <1>1, <1>2, <1>3 DEF Called

-----------------------------------------------------------------------------
LEMMA InitInv == Init => SubjectInv /\ Contract!Init
<1> SUFFICES ASSUME Init PROVE SubjectInv /\ Contract!Init
  OBVIOUS
<1>1. NewReceiver \in ReceiverType /\ NewReceiver.n = 0 /\ ~NewReceiver.done /\ NewReceiver.end = "none"
  BY DEF NewReceiver, ReceiverType, Ends
<1>2. TypeOK
  <2>1. nests \in BOOLEAN /\ lock = Free /\ lock \notin Producer
    BY SubjectAssumption DEF Init
  <2>2. receivers \in Seq(Subscriber) /\ next \in Nat
    BY DEF Init
  <2>3. /\ out \in [Subscriber -> ReceiverType]
        /\ status \in [Subscriber -> {"new", "calling", "returned"}]
    BY <1>1 DEF Init
  <2>4. /\ call \in [Producer -> Signals] /\ calls \in [Producer -> Nat]
        /\ closed \in [Producer -> BOOLEAN]
    BY DEF Init, Signals
  <2>5. /\ done \in BOOLEAN /\ t \in BOOLEAN /\ ep \in BOOLEAN /\ late \subseteq Subscriber
        /\ moved \in BOOLEAN /\ stuck \in BOOLEAN
    BY DEF Init
  <2> QED
    BY <2>1, <2>2, <2>3, <2>4, <2>5 DEF TypeOK
<1>3. Exclusive /\ Served /\ OverEmpty /\ Progress
  BY DEF Init, Exclusive, Served, OverEmpty, Progress, Completing
<1>4. Flagged
  BY <1>1 DEF Init, Flagged, Ended
<1>5. Contract!Init
  <2>1. \A s \in Subscriber : out[s].n = 0 /\ Kind(out[s].end) = "none"
    BY <1>1 DEF Init, Kind, Errors
  <2> QED
    BY <2>1 DEF Contract!Init
<1> QED
  BY <1>2, <1>3, <1>4, <1>5 DEF SubjectInv

LEMMA CallSubmitStep ==
  ASSUME SubjectInv, NEW s \in Subscriber, CallSubmit(s)
  PROVE  SubjectInv' /\ [Contract!Next]_(Contract!vars)
<1>1. /\ status[s] = "new" /\ status' = [status EXCEPT ![s] = "calling"]
      /\ UNCHANGED <<nests, lock, done, t, ep, receivers, out, late, call, closed, calls,
                     next, moved, stuck>>
  BY DEF CallSubmit
<1>2. TypeOK'
  BY <1>1 DEF SubjectInv, TypeOK
<1>3. \A u \in Subscriber : status'[u] = "returned" => status[u] = "returned"
  BY <1>1 DEF SubjectInv, TypeOK
<1>4. Served'
  BY <1>1, <1>3 DEF SubjectInv, Served, Waiting
<1>5. Exclusive' /\ Flagged' /\ OverEmpty' /\ Progress'
  BY <1>1 DEF SubjectInv, Exclusive, Flagged, OverEmpty, Progress, Completing
<1> QED
  BY <1>1, <1>2, <1>4, <1>5, ContractStutter DEF SubjectInv

LEMMA SubmitStep ==
  ASSUME SubjectInv, NEW s \in Subscriber, Submit(s)
  PROVE  SubjectInv' /\ [Contract!Next]_(Contract!vars)
<1>1. /\ status[s] = "calling" /\ lock = Free /\ status' = [status EXCEPT ![s] = "returned"]
      /\ UNCHANGED <<nests, lock, done, t, ep, call, closed, calls, next, moved, stuck>>
  BY DEF Submit
<1>2. \A p \in Producer : call[p] = "none"
  BY <1>1, SubjectAssumption DEF SubjectInv, Exclusive
<1>3. Exclusive' /\ Progress'
  BY <1>1, <1>2 DEF Exclusive, Progress, Completing
<1>4. status' \in [Subscriber -> {"new", "calling", "returned"}]
  BY <1>1 DEF SubjectInv, TypeOK
<1>5. \A u \in Subscriber \ {s} : status'[u] = status[u]
  BY <1>1 DEF SubjectInv, TypeOK
<1>6. lock \notin Producer
  BY <1>1, SubjectAssumption
<1>7. out[s] \in ReceiverType /\ (out[s].done <=> Ended(out[s]))
  BY DEF SubjectInv, TypeOK, Flagged
<1>8. ASSUME NEW r2, Called(out[s], r2), out' = [out EXCEPT ![s] = r2], UNCHANGED receivers,
             \/ Ended(r2) /\ late' = late
             \/ Told(r2) /\ late' = late \cup {s}
      PROVE  SubjectInv' /\ [Contract!Next]_(Contract!vars)
  <2>1. /\ out' \in [Subscriber -> ReceiverType] /\ Flagged' /\ out'[s] = r2
        /\ \A u \in Subscriber : /\ Ended(out[u]) => Ended(out'[u])
                                 /\ Told(out[u]) => Told(out'[u])
    BY <1>8, OutEffect DEF SubjectInv
  <2>2. TypeOK'
    BY <1>1, <1>4, <1>6, <1>8, <2>1 DEF SubjectInv, TypeOK
  <2>3. Served'
    BY <1>5, <1>8, <2>1 DEF SubjectInv, Served, Waiting
  <2>4. OverEmpty'
    BY <1>1, <1>8 DEF SubjectInv, OverEmpty, Completing
  <2> QED
    BY <1>3, <1>8, <2>1, <2>2, <2>3, <2>4, ContractStep DEF SubjectInv
<1>9. CASE ep /\ out' = [out EXCEPT ![s] = set_error(@, "error")] /\ UNCHANGED <<receivers, late>>
  <2>1. Called(out[s], set_error(out[s], "error")) /\ Ended(set_error(out[s], "error"))
    BY <1>7, Calls
  <2> QED
    BY <1>8, <1>9, <2>1
<1>10. ASSUME NEW throws \in BOOLEAN, out' = [out EXCEPT ![s] = set_value(@, throws)],
              late' = late \cup {s}, UNCHANGED receivers
       PROVE  SubjectInv' /\ [Contract!Next]_(Contract!vars)
  <2>1. Called(out[s], set_value(out[s], throws)) /\ Told(set_value(out[s], throws))
    BY <1>7, Calls
  <2> QED
    BY <1>8, <1>10, <2>1
<1>11. CASE out' = [out EXCEPT ![s] = set_done(@)] /\ UNCHANGED <<receivers, late>>
  <2>1. Called(out[s], set_done(out[s])) /\ Ended(set_done(out[s]))
    BY <1>7, Calls
  <2> QED
    BY <1>8, <1>11, <2>1
<1>12. CASE ~ep /\ ~Over /\ receivers' = Append(receivers, s) /\ UNCHANGED <<out, late>>
  <2>1. receivers \in Seq(Subscriber)
    BY DEF SubjectInv, TypeOK
  <2>2. /\ receivers' \in Seq(Subscriber) /\ Len(receivers') = Len(receivers) + 1
        /\ \A i \in 1..Len(receivers) : i \in 1..Len(receivers') /\ receivers'[i] = receivers[i]
        /\ Len(receivers') \in 1..Len(receivers') /\ receivers'[Len(receivers')] = s
    BY <1>12, <2>1
  <2>3. TypeOK'
    BY <1>1, <1>4, <1>6, <1>12, <2>2 DEF SubjectInv, TypeOK
  <2>4. Served'
    <3>1. \A u \in Subscriber : Waiting(u) => Waiting(u)'
      BY <2>2 DEF Waiting
    <3>2. Waiting(s)'
      BY <2>2 DEF Waiting
    <3> QED
      BY <1>5, <1>12, <3>1, <3>2 DEF SubjectInv, Served
  <2>5. OverEmpty' /\ Flagged'
    BY <1>1, <1>12 DEF SubjectInv, OverEmpty, Over, Flagged
  <2> QED
    BY <1>3, <1>12, <2>3, <2>4, <2>5, ContractStutter DEF SubjectInv
<1> QED
  BY <1>9, <1>10, <1>11, <1>12 DEF Submit

LEMMA SubmitNestedLateStep ==
  ASSUME SubjectInv, NEW s \in Subscriber, SubmitNestedLate(s)
  PROVE  SubjectInv' /\ [Contract!Next]_(Contract!vars)
<1>1. /\ lock = Free /\ lock' = s /\ stuck' = TRUE
      /\ UNCHANGED <<nests, done, t, ep, receivers, out, status, late, call, closed, calls,
                     next, moved>>
  BY DEF SubmitNestedLate
<1>2. \A p \in Producer : call[p] = "none"
  BY <1>1, SubjectAssumption DEF SubjectInv, Exclusive
<1>3. s \notin Producer
  BY SubjectAssumption
<1>4. TypeOK'
  BY <1>1, <1>3 DEF SubjectInv, TypeOK
<1>5. Exclusive' /\ Flagged' /\ Served' /\ OverEmpty' /\ Progress'
  BY <1>1, <1>2 DEF SubjectInv, Exclusive, Flagged, Served, Waiting, OverEmpty, Progress, Completing
<1> QED
  BY <1>1, <1>4, <1>5, ContractStutter DEF SubjectInv

LEMMA BeginStep ==
  ASSUME SubjectInv, NEW p \in Producer, NEW signal \in Signals \ {"none"}, Begin(p, signal)
  PROVE  SubjectInv' /\ [Contract!Next]_(Contract!vars)
<1>1. /\ lock = Free /\ lock' = p /\ call' = [call EXCEPT ![p] = signal]
      /\ calls' = [calls EXCEPT ![p] = @ + 1]
      /\ closed' = [closed EXCEPT ![p] = signal # "value"]
      /\ ep' = (ep \/ signal = "error") /\ done' = (done \/ signal = "done")
      /\ next' = 1 /\ moved' = FALSE
      /\ UNCHANGED <<nests, t, receivers, out, status, late, stuck>>
  BY DEF Begin, FirstReceiver
<1>2. \A q \in Producer : call[q] = "none"
  BY <1>1, SubjectAssumption DEF SubjectInv, Exclusive
<1>3. call'[p] = signal /\ \A q \in Producer \ {p} : call'[q] = "none"
  BY <1>1, <1>2 DEF SubjectInv, TypeOK
<1>4. Len(receivers) \in Nat
  BY DEF SubjectInv, TypeOK
<1>5. TypeOK'
  <2>1. call' \in [Producer -> Signals] /\ calls' \in [Producer -> Nat]
    BY <1>1 DEF SubjectInv, TypeOK
  <2>2. closed' \in [Producer -> BOOLEAN] /\ ep' \in BOOLEAN /\ done' \in BOOLEAN
    BY <1>1 DEF SubjectInv, TypeOK
  <2>3. next' \in Nat /\ next' \in 1..(Len(receivers') + 1)
    BY <1>1, <1>4
  <2> QED
    BY <1>1, <2>1, <2>2, <2>3 DEF SubjectInv, TypeOK
<1>6. Exclusive' /\ Flagged' /\ Served'
  BY <1>1, <1>3 DEF SubjectInv, Exclusive, Flagged, Served, Waiting
<1>7. OverEmpty'
  <2>1. CASE signal \in {"error", "done"}
    BY <1>3, <2>1 DEF OverEmpty, Completing
  <2>2. CASE signal = "value"
    BY <1>1, <1>2, <2>2 DEF SubjectInv, OverEmpty, Completing
  <2> QED
    BY <2>1, <2>2 DEF Signals
<1>8. Progress'
  BY <1>1, <1>4 DEF Progress
<1> QED
  BY <1>1, <1>5, <1>6, <1>7, <1>8, ContractStutter DEF SubjectInv

LEMMA DeliverStep ==
  ASSUME SubjectInv, NEW p \in Producer, Deliver(p)
  PROVE  SubjectInv' /\ [Contract!Next]_(Contract!vars)
<1>1. /\ call[p] # "none" /\ next <= Len(receivers) /\ next' = next + 1
      /\ UNCHANGED <<nests, lock, done, t, ep, receivers, status, late, call, closed, calls,
                     stuck>>
  BY DEF Deliver
<1>2. lock = p /\ receivers \in Seq(Subscriber) /\ Len(receivers) \in Nat
      /\ next \in 1..(Len(receivers) + 1)
  BY <1>1 DEF SubjectInv, Exclusive, TypeOK
<1>3. next \in 1..Len(receivers) /\ next' \in 1..(Len(receivers) + 1)
  BY <1>1, <1>2
<1>4. PICK s \in Subscriber : s = receivers[next]
  BY <1>2, <1>3
<1>5. out[s] \in ReceiverType /\ (out[s].done <=> Ended(out[s]))
  BY DEF SubjectInv, TypeOK, Flagged
<1>6. \E r2 : /\ Called(out[s], r2) /\ out' = [out EXCEPT ![s] = r2]
              /\ Completing(p) => Ended(r2)
  <2>1. ASSUME NEW throws \in BOOLEAN, call[p] = "value",
               out' = [out EXCEPT ![receivers[next]] = set_value(@, throws)]
        PROVE  \E r2 : /\ Called(out[s], r2) /\ out' = [out EXCEPT ![s] = r2]
                       /\ Completing(p) => Ended(r2)
    BY <1>4, <1>5, <2>1, Calls DEF Completing
  <2>2. CASE call[p] = "error" /\ out' = [out EXCEPT ![receivers[next]] = set_error(@, Passed)]
    BY <1>4, <1>5, <2>2, Calls DEF Passed
  <2>3. CASE call[p] = "done" /\ out' = [out EXCEPT ![receivers[next]] = set_done(@)]
    BY <1>4, <1>5, <2>3, Calls
  <2> QED
    BY <2>1, <2>2, <2>3 DEF Deliver
<1>7. PICK r2 : Called(out[s], r2) /\ out' = [out EXCEPT ![s] = r2] /\ (Completing(p) => Ended(r2))
  BY <1>6
<1>8. /\ out' \in [Subscriber -> ReceiverType] /\ Flagged' /\ out'[s] = r2
      /\ \A u \in Subscriber : /\ Ended(out[u]) => Ended(out'[u])
                               /\ Told(out[u]) => Told(out'[u])
  BY <1>7, OutEffect DEF SubjectInv
<1>9. TypeOK'
  <2>1. moved' \in BOOLEAN
    BY DEF Deliver, SubjectInv, TypeOK
  <2> QED
    BY <1>1, <1>2, <1>3, <1>8, <2>1 DEF SubjectInv, TypeOK
<1>10. Exclusive' /\ OverEmpty'
  BY <1>1 DEF SubjectInv, Exclusive, OverEmpty, Completing
<1>11. Served'
  BY <1>1, <1>8 DEF SubjectInv, Served, Waiting
<1>12. Progress'
  <2>1. SUFFICES ASSUME NEW q \in Producer, call[q] \in {"error", "done"},
                        NEW i \in 1..Len(receivers), i < next + 1
                 PROVE  Ended(out'[receivers[i]])
    BY <1>1 DEF Progress, Completing
  <2>2. q = p
    BY <1>2, <2>1 DEF SubjectInv, Exclusive
  <2>3. receivers[i] \in Subscriber
    BY <1>2
  <2>4. CASE i < next
    BY <1>8, <2>1, <2>3, <2>4 DEF SubjectInv, Progress, Completing
  <2>5. CASE i = next
    BY <1>4, <1>7, <1>8, <2>1, <2>2, <2>5 DEF Completing
  <2> QED
    BY <1>3, <2>1, <2>4, <2>5
<1> QED
  BY <1>7, <1>8, <1>9, <1>10, <1>11, <1>12, ContractStep DEF SubjectInv

LEMMA FinishStep ==
  ASSUME SubjectInv, NEW p \in Producer, Finish(p)
  PROVE  SubjectInv' /\ [Contract!Next]_(Contract!vars)
<1>1. /\ call[p] # "none" /\ next > Len(receivers) /\ t' = (t \/ call[p] = "value")
      /\ receivers' = IF call[p] = "value" THEN receivers ELSE <<>>
      /\ lock' = Free /\ call' = [call EXCEPT ![p] = "none"]
      /\ UNCHANGED <<nests, done, ep, out, status, late, closed, calls, next, moved, stuck>>
  BY DEF Finish, LoopEnds
<1>2. lock = p /\ receivers \in Seq(Subscriber) /\ Len(receivers) \in Nat
      /\ next \in 1..(Len(receivers) + 1)
  BY <1>1 DEF SubjectInv, Exclusive, TypeOK
<1>3. \A q \in Producer : (call[q] # "none" => q = p) /\ call'[q] = "none"
  BY <1>1, <1>2 DEF SubjectInv, Exclusive, TypeOK
<1>4. TypeOK'
  <2>1. call' \in [Producer -> Signals]
    BY <1>1 DEF SubjectInv, TypeOK, Signals
  <2>2. t' \in BOOLEAN
    BY <1>1 DEF SubjectInv, TypeOK
  <2>3. receivers' \in Seq(Subscriber)
    BY <1>1, <1>2
  <2>4. lock' \notin Producer
    BY <1>1, SubjectAssumption
  <2> QED
    BY <1>1, <2>1, <2>2, <2>3, <2>4 DEF SubjectInv, TypeOK
<1>5. Exclusive' /\ Flagged' /\ Progress'
  BY <1>1, <1>3 DEF SubjectInv, Exclusive, Flagged, Progress, Completing
<1>6. CASE call[p] = "value"
  <2>1. OverEmpty' /\ Served'
    BY <1>1, <1>3, <1>6 DEF SubjectInv, OverEmpty, Completing, Served, Waiting
  <2> QED
    BY <1>1, <1>4, <1>5, <2>1, ContractStutter DEF SubjectInv
<1>7. CASE call[p] # "value"
  <2>1. Completing(p)
    BY <1>1, <1>7 DEF SubjectInv, TypeOK, Signals, Completing
  <2>2. \A i \in 1..Len(receivers) : i < next
    BY <1>1, <1>2
  <2>3. \A s \in Subscriber : Waiting(s) => Ended(out[s])
    BY <2>1, <2>2 DEF SubjectInv, Progress, Waiting
  <2>4. Served'
    BY <1>1, <2>3 DEF SubjectInv, Served
  <2>5. OverEmpty'
    BY <1>1, <1>7 DEF OverEmpty
  <2> QED
    BY <1>1, <1>4, <1>5, <2>4, <2>5, ContractStutter DEF SubjectInv
<1> QED
  BY <1>6, <1>7

LEMMA NextInv ==
  SubjectInv /\ [Next]_vars => SubjectInv' /\ [Contract!Next]_(Contract!vars)
<1> SUFFICES ASSUME SubjectInv, [Next]_vars
             PROVE  SubjectInv' /\ [Contract!Next]_(Contract!vars)
  OBVIOUS
<1>1. CASE UNCHANGED vars
  <2>1. SubjectInv'
    BY <1>1
    DEF vars, SubjectInv, TypeOK, Exclusive, Flagged, Served, Waiting, OverEmpty, Progress, Completing
  <2> QED
    BY <1>1, <2>1, ContractStutter DEF vars
<1>2. ASSUME NEW p \in Producer, SubmitNested(p)
      PROVE  SubjectInv' /\ [Contract!Next]_(Contract!vars)
  <2>1. /\ stuck' = TRUE
        /\ UNCHANGED <<nests, lock, done, t, ep, receivers, out, status, late, call, closed,
                       calls, next, moved>>
    BY <1>2 DEF SubmitNested
  <2>2. SubjectInv'
    BY <2>1
    DEF SubjectInv, TypeOK, Exclusive, Flagged, Served, Waiting, OverEmpty, Progress, Completing
  <2> QED
    BY <2>1, <2>2, ContractStutter
<1> QED
  BY <1>1, <1>2, CallSubmitStep, SubmitStep, SubmitNestedLateStep, BeginStep, DeliverStep,
     FinishStep DEF Next

-----------------------------------------------------------------------------
\* The state of a subject keeps its types, its loops run under the lock, and whoever has
\* submitted waits, was completed or was told: the inductive invariant of the subject.
THEOREM SubjectCorrect == Spec => []SubjectInv
<1>1. Init => SubjectInv
  BY InitInv
<1>2. SubjectInv /\ [Next]_vars => SubjectInv'
  BY NextInv
<1> QED
  BY <1>1, <1>2, PTL DEF Spec

\* However subscribers and producers interleave, once the subject is over and its lock is
\* free nobody whose submit() has returned is left waiting.
THEOREM NobodyForgottenCorrect == Spec => []NobodyForgotten
<1>1. SubjectInv => NobodyForgotten
  <2> SUFFICES ASSUME SubjectInv, Settled
               PROVE  /\ receivers = <<>>
                      /\ \A s \in Subscriber :
                           status[s] = "returned" => Ended(out[s]) \/ (s \in late /\ Told(out[s]))
    BY DEF NobodyForgotten
  <2>1. \A p \in Producer : call[p] = "none"
    BY SubjectAssumption DEF Settled, SubjectInv, Exclusive
  <2>2. receivers = <<>>
    BY <2>1 DEF Settled, SubjectInv, OverEmpty, Completing
  <2>3. \A s \in Subscriber : ~Waiting(s)
    BY <2>2 DEF Waiting
  <2> QED
    BY <2>2, <2>3 DEF SubjectInv, Served
<1> QED
  BY <1>1, SubjectCorrect, PTL

\* The subject uses every subscriber's receiver as its contract says: values first, at most
\* one completion, nothing after it.
THEOREM ContractCorrect == Spec => ContractKept
<1>1. Init => SubjectInv /\ Contract!Init
  BY InitInv
<1>2. SubjectInv /\ [Next]_vars => SubjectInv'
  BY NextInv
<1>3. SubjectInv /\ [Next]_vars => [Contract!Next]_(Contract!vars)
  BY NextInv
<1> QED
  BY <1>1, <1>2, <1>3, PTL DEF Spec, ContractKept, Contract!Spec
=============================================================================
