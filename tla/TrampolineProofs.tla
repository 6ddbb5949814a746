-------------------------- MODULE TrampolineProofs --------------------------
(***************************************************************************)
(* Proofs about Trampoline and Bulk, for every number of tasks, threads and *)
(* indices and every limit on the depth.                                    *)
(*                                                                         *)
(* Trampoline.  That depth counts the delegated calls is inductive only     *)
(* together with what the stacks look like (a nesting call at the bottom,   *)
(* which alone drains) and with the fact that a thread takes over its stack *)
(* once.  That a task runs once needs where every task is: Positions says   *)
(* that what is on a stack or deferred is there once and has not ended,     *)
(* Located that what was accepted and has not ended is somewhere.           *)
(*                                                                         *)
(* Bulk.  Every step of either target is a step of Reduction or leaves it   *)
(* alone.  The invariant is that pending counts the tasks that exist and    *)
(* the loop that makes them, so that it reaches zero only when every task   *)
(* has ended, and that an exception that was counted is stored before the   *)
(* task that counted it is done.                                            *)
(***************************************************************************)
EXTENDS Trampoline, Bulk, FiniteSetTheorems, TLAPS

\* A thread other than Main is owned only after its first task was placed, and each of
\* these threads has a first task of its own.
Threads ==
  /\ spawned[Main] = None
  /\ \A th \in Thread, uh \in Thread : spawned[th] = spawned[uh] => spawned[th] = None \/ th = uh
  /\ \A th \in Thread :
       /\ th # Main /\ calls[th] # <<>> => spawned[th] # None
       /\ spawned[th] # None /\ calls[th] # <<>> => place[spawned[th]] # None

\* The call at the bottom of a stack is a nesting one, and stays while work is deferred;
\* only nesting calls drain.
Stacks ==
  \A th \in Thread :
    /\ calls[th] # <<>> => calls[th][1].how = "nest"
    /\ calls[th] = <<>> => pending[th] = <<>>
    /\ \A i \in 1..Len(calls[th]) : calls[th][i].how # "nest" => calls[th][i].task # None

\* What is on a stack or deferred is there once, and is a task of that thread that runs or
\* has not begun.
Positions ==
  \A th \in Thread :
    /\ \A i \in 1..Len(calls[th]), j \in 1..Len(calls[th]) :
         calls[th][i].task = calls[th][j].task => calls[th][i].task = None \/ i = j
    /\ \A i \in 1..Len(pending[th]), j \in 1..Len(pending[th]) :
         pending[th][i] = pending[th][j] => i = j
    /\ \A i \in 1..Len(calls[th]) :
         calls[th][i].task # None =>
           /\ place[calls[th][i].task] = th
           /\ out[calls[th][i].task] = Value(NewReceiver)
    /\ \A i \in 1..Len(pending[th]) :
         /\ place[pending[th][i]] = th
         /\ out[pending[th][i]] = NewReceiver

Located ==
  \A t \in Task :
    \/ place[t] = None /\ out[t] = NewReceiver
    \/ place[t] # None /\ Ended(out[t]) /\ out[t].done /\ out[t].n = 1
    \/ /\ place[t] # None
       /\ \/ \E i \in 1..Len(calls[place[t]]) : calls[place[t]][i].task = t
          \/ \E i \in 1..Len(pending[place[t]]) : pending[place[t]][i] = t

TaskInv == TypeOK /\ Threads /\ Stacks /\ DepthExact /\ Positions /\ Located

-----------------------------------------------------------------------------
(* What the steps do to a stack and to the deferred work, element by element. *)

Others(th) ==
  \A uh \in Thread \ {th} : calls'[uh] = calls[uh]

Pushes(th, c) ==
  /\ calls' \in [Thread -> Seq(Call)]
  /\ Others(th)
  /\ Len(calls'[th]) = Len(calls[th]) + 1
  /\ \A i \in 1..Len(calls[th]) : calls'[th][i] = calls[th][i]
  /\ calls'[th][Len(calls[th]) + 1] = c

Pops(th) ==
  /\ calls' \in [Thread -> Seq(Call)]
  /\ Others(th)
  /\ Len(calls[th]) >= 1
  /\ Len(calls'[th]) = Len(calls[th]) - 1
  /\ \A i \in 1..(Len(calls[th]) - 1) : calls'[th][i] = calls[th][i]

Retasks(th, x) ==
  /\ calls' \in [Thread -> Seq(Call)]
  /\ Others(th)
  /\ Len(calls[th]) >= 1
  /\ Len(calls'[th]) = Len(calls[th])
  /\ \A i \in 1..(Len(calls[th]) - 1) : calls'[th][i] = calls[th][i]
  /\ calls'[th][Len(calls[th])] = [how |-> Top(th).how, task |-> x]

Defers(th, t) ==
  /\ pending' \in [Thread -> Seq(Task)]
  /\ \A uh \in Thread \ {th} : pending'[uh] = pending[uh]
  /\ Len(pending'[th]) = Len(pending[th]) + 1
  /\ \A i \in 1..Len(pending[th]) : pending'[th][i] = pending[th][i]
  /\ pending'[th][Len(pending[th]) + 1] = t

Takes(th) ==
  /\ pending' \in [Thread -> Seq(Task)]
  /\ \A uh \in Thread \ {th} : pending'[uh] = pending[uh]
  /\ Len(pending[th]) >= 1
  /\ Len(pending'[th]) = Len(pending[th]) - 1
  /\ \A i \in 1..(Len(pending[th]) - 1) : pending'[th][i] = pending[th][i + 1]

LEMMA CallType ==
  ASSUME NEW h \in {"delegate", "nest", "inline"}, NEW x \in Task \cup {None}
  PROVE  /\ [how |-> h, task |-> x] \in Call
         /\ [how |-> h, task |-> x].how = h
         /\ [how |-> h, task |-> x].task = x
BY DEF Call

LEMMA PushEffect ==
  ASSUME TypeOK, NEW th \in Thread, NEW h \in {"delegate", "nest", "inline"},
         NEW x \in Task \cup {None}, Push(th, h, x)
  PROVE  Pushes(th, [how |-> h, task |-> x])
<1> DEFINE c == [how |-> h, task |-> x]
<1>1. c \in Call
  BY CallType
<1>2. calls \in [Thread -> Seq(Call)] /\ calls[th] \in Seq(Call)
  BY DEF TypeOK
<1>3. calls' = [calls EXCEPT ![th] = Append(calls[th], c)]
  BY DEF Push
<1> HIDE DEF c
<1>4. /\ Append(calls[th], c) \in Seq(Call)
      /\ Len(Append(calls[th], c)) = Len(calls[th]) + 1
      /\ \A i \in 1..Len(calls[th]) : Append(calls[th], c)[i] = calls[th][i]
      /\ Append(calls[th], c)[Len(calls[th]) + 1] = c
  BY <1>1, <1>2
<1>5. calls'[th] = Append(calls[th], c)
  BY <1>2, <1>3
<1>6. calls' \in [Thread -> Seq(Call)] /\ Others(th)
  BY <1>2, <1>3, <1>4 DEF Others
<1>7. Pushes(th, c)
  BY <1>4, <1>5, <1>6 DEF Pushes
<1> QED
  BY <1>7 DEF c

LEMMA Front ==
  ASSUME NEW S, NEW s \in Seq(S), NEW n \in Nat, n <= Len(s)
  PROVE  /\ SubSeq(s, 1, n) \in Seq(S)
         /\ Len(SubSeq(s, 1, n)) = n
         /\ \A i \in 1..n : SubSeq(s, 1, n)[i] = s[i]
OBVIOUS

LEMMA PopEffect ==
  ASSUME TypeOK, NEW th \in Thread, calls[th] # <<>>,
         calls' = [calls EXCEPT ![th] = SubSeq(@, 1, Len(@) - 1)]
  PROVE  Pops(th)
<1> DEFINE s == calls[th]
           r == SubSeq(s, 1, Len(s) - 1)
<1>1. calls \in [Thread -> Seq(Call)] /\ s \in Seq(Call)
  BY DEF TypeOK
<1>2. calls' = [calls EXCEPT ![th] = r]
  OBVIOUS
<1>3. s # <<>>
  OBVIOUS
<1>4. /\ r \in Seq(Call)
      /\ Len(s) \in Nat /\ Len(s) >= 1
      /\ Len(r) = Len(s) - 1
      /\ \A i \in 1..(Len(s) - 1) : r[i] = s[i]
  <2>1. Len(s) \in Nat /\ Len(s) >= 1 /\ \A i \in 1..(Len(s) - 1) : s[i] \in Call
    BY <1>1, <1>3
  <2>2. Len(s) - 1 \in Nat /\ Len(s) - 1 <= Len(s)
    BY <2>1
  <2> HIDE DEF s
  <2> QED
    BY <1>1, <2>1, <2>2, Front
<1>5. calls'[th] = r
  BY <1>1, <1>2
<1>6. calls' \in [Thread -> Seq(Call)] /\ Others(th)
  BY <1>1, <1>2, <1>4 DEF Others
<1> QED
  BY <1>4, <1>5, <1>6 DEF Pops

LEMMA RetaskEffect ==
  ASSUME TypeOK, NEW th \in Thread, calls[th] # <<>>, NEW x \in Task \cup {None},
         calls' = [calls EXCEPT ![th][Len(calls[th])].task = x]
  PROVE  Retasks(th, x)
<1> DEFINE s == calls[th]
           c == [how |-> Top(th).how, task |-> x]
           r == [s EXCEPT ![Len(s)] = c]
<1>1. calls \in [Thread -> Seq(Call)] /\ s \in Seq(Call) /\ s # <<>>
  BY DEF TypeOK
<1>2. Len(s) \in Nat /\ Len(s) >= 1 /\ s[Len(s)] \in Call
  BY <1>1
<1>3. c \in Call /\ [s[Len(s)] EXCEPT !.task = x] = c
  BY <1>2 DEF Call, Top
<1>4. calls' = [calls EXCEPT ![th] = r]
  BY <1>3
<1> HIDE DEF c
<1>5. /\ r \in Seq(Call)
      /\ Len(r) = Len(s)
      /\ \A i \in 1..(Len(s) - 1) : r[i] = s[i]
      /\ r[Len(s)] = c
  BY <1>1, <1>2, <1>3
<1>6. calls'[th] = r
  BY <1>1, <1>4
<1>7. calls' \in [Thread -> Seq(Call)] /\ Others(th)
  BY <1>1, <1>4, <1>5 DEF Others
<1> QED
  BY <1>2, <1>5, <1>6, <1>7 DEF Retasks, c

LEMMA DeferEffect ==
  ASSUME TypeOK, NEW th \in Thread, NEW t \in Task, Defer(th, t)
  PROVE  Defers(th, t)
<1>1. pending \in [Thread -> Seq(Task)] /\ pending[th] \in Seq(Task)
  BY DEF TypeOK
<1>2. pending' = [pending EXCEPT ![th] = Append(pending[th], t)]
  BY DEF Defer
<1>3. /\ Append(pending[th], t) \in Seq(Task)
      /\ Len(Append(pending[th], t)) = Len(pending[th]) + 1
      /\ \A i \in 1..Len(pending[th]) : Append(pending[th], t)[i] = pending[th][i]
      /\ Append(pending[th], t)[Len(pending[th]) + 1] = t
  BY <1>1
<1>4. pending'[th] = Append(pending[th], t)
  BY <1>1, <1>2
<1> QED
  BY <1>1, <1>2, <1>3, <1>4 DEF Defers

LEMMA TakeEffect ==
  ASSUME TypeOK, NEW th \in Thread, pending[th] # <<>>,
         pending' = [pending EXCEPT ![th] = Tail(@)]
  PROVE  Takes(th) /\ Head(pending[th]) = pending[th][1] /\ Head(pending[th]) \in Task
<1> DEFINE s == pending[th]
           r == Tail(s)
<1>1. pending \in [Thread -> Seq(Task)] /\ s \in Seq(Task) /\ s # <<>>
  BY DEF TypeOK
<1>2. pending' = [pending EXCEPT ![th] = r]
  OBVIOUS
<1>3. /\ r \in Seq(Task)
      /\ Len(s) \in Nat /\ Len(s) >= 1
      /\ Len(r) = Len(s) - 1
      /\ \A i \in 1..(Len(s) - 1) : r[i] = s[i + 1]
      /\ Head(s) = s[1] /\ Head(s) \in Task
  BY <1>1
<1>4. pending'[th] = r
  BY <1>1, <1>2
<1> QED
  BY <1>1, <1>2, <1>3, <1>4 DEF Takes

-----------------------------------------------------------------------------
(* depth counts the delegated calls. *)

LEMMA DelegatedFinite ==
  ASSUME TypeOK, NEW th \in Thread
  PROVE  /\ IsFiniteSet(Delegated(th)) /\ Cardinality(Delegated(th)) \in Nat
         /\ Len(calls[th]) \in Nat
<1>1. calls[th] \in Seq(Call)
  BY DEF TypeOK
<1>2. Len(calls[th]) \in Nat
  BY <1>1
<1>3. IsFiniteSet(1..Len(calls[th]))
  BY <1>2, FS_Interval
<1>4. Delegated(th) \in SUBSET (1..Len(calls[th]))
  BY DEF Delegated
<1> QED
  BY <1>2, <1>3, <1>4, FS_Subset, FS_CardinalityType

LEMMA DepthElsewhere ==
  ASSUME DepthExact, NEW th \in Thread, Others(th), NEW uh \in Thread \ {th},
         depth'[uh] = depth[uh]
  PROVE  depth'[uh] = Cardinality(Delegated(uh)')
<1>1. calls'[uh] = calls[uh]
  BY DEF Others
<1>2. Delegated(uh)' = Delegated(uh)
  BY <1>1 DEF Delegated
<1> QED
  BY <1>2 DEF DepthExact

LEMMA DepthPush ==
  ASSUME TypeOK, DepthExact, NEW th \in Thread, NEW c \in Call, Pushes(th, c),
         depth' = [depth EXCEPT ![th] = IF c.how = "delegate" THEN @ + 1 ELSE @]
  PROVE  DepthExact'
<1>1. IsFiniteSet(Delegated(th)) /\ Cardinality(Delegated(th)) \in Nat /\ Len(calls[th]) \in Nat
  BY DelegatedFinite
<1>2. depth[th] = Cardinality(Delegated(th))
  BY DEF DepthExact
<1>3. /\ depth'[th] = IF c.how = "delegate" THEN depth[th] + 1 ELSE depth[th]
      /\ \A uh \in Thread \ {th} : depth'[uh] = depth[uh]
  BY DEF TypeOK
<1>4. depth'[th] = Cardinality(Delegated(th)')
  <2>1. CASE c.how = "delegate"
    <3>1. Delegated(th)' = Delegated(th) \cup {Len(calls[th]) + 1}
      BY <1>1, <2>1 DEF Delegated, Pushes
    <3>2. Len(calls[th]) + 1 \notin Delegated(th)
      BY <1>1 DEF Delegated
    <3> QED
      BY <1>1, <1>2, <1>3, <2>1, <3>1, <3>2, FS_AddElement
  <2>2. CASE c.how # "delegate"
    <3>1. Delegated(th)' = Delegated(th)
      BY <1>1, <2>2 DEF Delegated, Pushes
    <3> QED
      BY <1>2, <1>3, <2>2, <3>1
  <2> QED
    BY <2>1, <2>2
<1>5. \A uh \in Thread \ {th} : depth'[uh] = Cardinality(Delegated(uh)')
  BY <1>3, DepthElsewhere DEF Pushes
<1> QED
  BY <1>4, <1>5 DEF DepthExact

LEMMA DepthPop ==
  ASSUME TypeOK, DepthExact, NEW th \in Thread, Pops(th),
         depth' = [depth EXCEPT ![th] = IF Top(th).how = "delegate" THEN @ - 1 ELSE @]
  PROVE  DepthExact' /\ (Top(th).how = "delegate" => depth[th] >= 1)
<1>1. IsFiniteSet(Delegated(th)) /\ Cardinality(Delegated(th)) \in Nat /\ Len(calls[th]) \in Nat
  BY DelegatedFinite
<1>2. depth[th] = Cardinality(Delegated(th))
  BY DEF DepthExact
<1>3. /\ depth'[th] = IF Top(th).how = "delegate" THEN depth[th] - 1 ELSE depth[th]
      /\ \A uh \in Thread \ {th} : depth'[uh] = depth[uh]
  BY DEF TypeOK
<1>4. /\ depth'[th] = Cardinality(Delegated(th)')
      /\ Top(th).how = "delegate" => depth[th] >= 1
  <2>1. CASE Top(th).how = "delegate"
    <3>1. Delegated(th)' = Delegated(th) \ {Len(calls[th])}
      <4>1. Delegated(th)' \subseteq Delegated(th) \ {Len(calls[th])}
        BY <1>1 DEF Delegated, Pops
      <4>2. Delegated(th) \ {Len(calls[th])} \subseteq Delegated(th)'
        BY <1>1 DEF Delegated, Pops
      <4> QED
        BY <4>1, <4>2
    <3>2. Len(calls[th]) \in Delegated(th)
      BY <1>1, <2>1 DEF Delegated, Pops, Top
    <3>3. IsFiniteSet(Delegated(th) \ {Len(calls[th])})
          /\ Cardinality(Delegated(th) \ {Len(calls[th])}) = Cardinality(Delegated(th)) - 1
      BY <1>1, <3>2, FS_RemoveElement
    <3>4. Cardinality(Delegated(th) \ {Len(calls[th])}) \in Nat
      BY <3>3, FS_CardinalityType
    <3> QED
      BY <1>1, <1>2, <1>3, <2>1, <3>1, <3>3, <3>4
  <2>2. CASE Top(th).how # "delegate"
    <3>1. Delegated(th)' = Delegated(th)
      <4>1. Delegated(th)' \subseteq Delegated(th)
        BY <1>1 DEF Delegated, Pops
      <4>2. Delegated(th) \subseteq Delegated(th)'
        BY <1>1, <2>2 DEF Delegated, Pops, Top
      <4> QED
        BY <4>1, <4>2
    <3> QED
      BY <1>2, <1>3, <2>2, <3>1
  <2> QED
    BY <2>1, <2>2
<1>5. \A uh \in Thread \ {th} : depth'[uh] = Cardinality(Delegated(uh)')
  BY <1>3, DepthElsewhere DEF Pops
<1> QED
  BY <1>4, <1>5 DEF DepthExact

LEMMA DepthRetask ==
  ASSUME TypeOK, DepthExact, NEW th \in Thread, NEW x \in Task \cup {None}, Retasks(th, x),
         UNCHANGED depth
  PROVE  DepthExact'
<1>1. Len(calls[th]) \in Nat
  BY DelegatedFinite
<1>2. Delegated(th)' = Delegated(th)
  <2>1. \A i \in 1..Len(calls[th]) : calls'[th][i].how = calls[th][i].how
    BY <1>1 DEF Retasks, Top
  <2> QED
    BY <2>1 DEF Delegated, Retasks
<1>3. \A uh \in Thread \ {th} : depth'[uh] = Cardinality(Delegated(uh)')
  BY DepthElsewhere DEF Retasks
<1> QED
  BY <1>2, <1>3 DEF DepthExact

-----------------------------------------------------------------------------
(* Each task is in one place. *)

LEMMA ReceiverCalls ==
  ASSUME NEW r \in ReceiverType
  PROVE  /\ Value(r) \in ReceiverType /\ Error(r, "thrown") \in ReceiverType
         /\ Error(r, "error") \in ReceiverType /\ Done(r) \in ReceiverType
         /\ ~r.done => /\ Value(r).n = r.n + 1 /\ ~Value(r).done /\ Value(r).end = r.end
                       /\ \A e \in Errors : /\ Error(r, e).done /\ Error(r, e).n = r.n
                                            /\ Error(r, e).end = e
                       /\ Done(r).done /\ Done(r).n = r.n /\ Done(r).end = "done"
         /\ r.done => /\ Value(r) = r /\ Error(r, "thrown") = r
                      /\ Error(r, "error") = r /\ Done(r) = r
<1>1. Value(r) \in ReceiverType
  BY DEF ReceiverType, Value
<1>2. Error(r, "thrown") \in ReceiverType /\ Error(r, "error") \in ReceiverType
  BY DEF ReceiverType, Error, Ends, Errors
<1>3. Done(r) \in ReceiverType
  BY DEF ReceiverType, Done, Ends
<1>4. r.done => Value(r) = r /\ Error(r, "thrown") = r /\ Error(r, "error") = r /\ Done(r) = r
  BY DEF Value, Error, Done
<1>5. ~r.done => /\ Value(r).n = r.n + 1 /\ ~Value(r).done /\ Value(r).end = r.end
  BY DEF ReceiverType, Value
<1>6. ~r.done => /\ \A e \in Errors : /\ Error(r, e).done /\ Error(r, e).n = r.n
                                      /\ Error(r, e).end = e
                 /\ Done(r).done /\ Done(r).n = r.n /\ Done(r).end = "done"
  BY DEF ReceiverType, Error, Done
<1> QED
  BY <1>1, <1>2, <1>3, <1>4, <1>5, <1>6

LEMMA ReceiverFacts ==
  /\ NewReceiver \in ReceiverType
  /\ Value(NewReceiver) \in ReceiverType
  /\ ~Ended(NewReceiver) /\ NewReceiver.n = 0
  /\ ~Ended(Value(NewReceiver)) /\ Value(NewReceiver).n = 1
  /\ \A throws \in BOOLEAN :
       LET r == set_done(IF throws THEN Error(Value(NewReceiver), "thrown") ELSE Value(NewReceiver))
       IN  r \in ReceiverType /\ Ended(r) /\ r.done /\ r.n = 1
<1>1. NewReceiver \in ReceiverType /\ NewReceiver.n = 0 /\ ~NewReceiver.done /\ NewReceiver.end = "none"
  BY DEF NewReceiver, ReceiverType, Ends
<1>2. /\ Value(NewReceiver) \in ReceiverType /\ ~Value(NewReceiver).done
      /\ Value(NewReceiver).n = 1 /\ Value(NewReceiver).end = "none"
  BY <1>1, ReceiverCalls
<1> DEFINE v == Value(NewReceiver)
           w == Error(v, "thrown")
<1> HIDE DEF v
<1>3. w \in ReceiverType /\ w.done /\ w.n = 1 /\ w.end = "thrown"
  BY <1>2, ReceiverCalls DEF v, Errors
<1> HIDE DEF w
<1>4. Done(w) = w
  BY <1>3, ReceiverCalls
<1>5. Done(v) \in ReceiverType /\ Done(v).done /\ Done(v).n = 1 /\ Done(v).end = "done"
  BY <1>2, ReceiverCalls DEF v
<1>6. \A throws \in BOOLEAN :
        LET r == set_done(IF throws THEN w ELSE v)
        IN  r \in ReceiverType /\ Ended(r) /\ r.done /\ r.n = 1
  BY <1>3, <1>4, <1>5 DEF set_done, Ended
<1> QED
  BY <1>1, <1>2, <1>6 DEF v, w, Ended

LEMMA Elements ==
  ASSUME TypeOK, NEW th \in Thread
  PROVE  /\ Len(calls[th]) \in Nat /\ Len(pending[th]) \in Nat
         /\ \A i \in 1..Len(calls[th]) : calls[th][i] \in Call /\ calls[th][i].task \in Task \cup {None}
         /\ \A i \in 1..Len(pending[th]) : pending[th][i] \in Task
         /\ calls[th] = <<>> <=> Len(calls[th]) = 0
         /\ pending[th] = <<>> <=> Len(pending[th]) = 0
<1>1. calls[th] \in Seq(Call) /\ pending[th] \in Seq(Task)
  BY DEF TypeOK
<1>2. \A i \in 1..Len(calls[th]) : calls[th][i] \in Call
  BY <1>1
<1>3. \A i \in 1..Len(calls[th]) : calls[th][i].task \in Task \cup {None}
  BY <1>2 DEF Call
<1> QED
  BY <1>1, <1>2, <1>3

\* A task that has not been placed is put on a stack and entered.
LEMMA EnteredPositions ==
  ASSUME TypeOK, Positions, Located, NEW th \in Thread, NEW t \in Task, NEW c \in Call,
         c.task = t, place[t] = None,
         Pushes(th, c), Enter(t), Accept(th, t), UNCHANGED pending
  PROVE  Positions' /\ Located'
<1>1. out[t] = NewReceiver
  BY TrampolineAssumption DEF Located
<1>2. /\ place'[t] = th /\ \A u \in Task \ {t} : place'[u] = place[u]
      /\ out'[t] = Value(NewReceiver) /\ \A u \in Task \ {t} : out'[u] = out[u]
  BY <1>1 DEF Enter, Accept, TypeOK
<1>3. \A uh \in Thread, i \in Nat :
        /\ i \in 1..Len(calls[uh]) => calls[uh][i].task # t
        /\ i \in 1..Len(pending[uh]) => pending[uh][i] # t
  <2>1. t # None /\ place[t] \notin Thread
    BY TrampolineAssumption DEF Task
  <2> QED
    BY <2>1 DEF Positions
<1>4. t # None /\ th # None
  BY TrampolineAssumption DEF Task
<1>5. ASSUME NEW uh \in Thread
      PROVE  /\ \A i \in 1..Len(calls'[uh]), j \in 1..Len(calls'[uh]) :
                  calls'[uh][i].task = calls'[uh][j].task => calls'[uh][i].task = None \/ i = j
             /\ \A i \in 1..Len(calls'[uh]) :
                  calls'[uh][i].task # None =>
                    /\ place'[calls'[uh][i].task] = uh
                    /\ out'[calls'[uh][i].task] = Value(NewReceiver)
  <2>1. /\ Len(calls[uh]) \in Nat
        /\ \A i \in 1..Len(calls[uh]) : calls[uh][i].task \in Task \cup {None}
    BY Elements
  <2>2. CASE uh # th
    <3>1. calls'[uh] = calls[uh]
      BY <2>2 DEF Pushes, Others
    <3> QED
      BY <1>2, <1>3, <2>1, <3>1 DEF Positions
  <2>3. CASE uh = th
    <3>1. \A i \in 1..Len(calls'[uh]) :
            \/ i \in 1..Len(calls[uh]) /\ calls'[uh][i] = calls[uh][i]
            \/ i = Len(calls[uh]) + 1 /\ calls'[uh][i].task = t
      BY <2>1, <2>3 DEF Pushes
    <3>2. \A i \in 1..Len(calls'[uh]), j \in 1..Len(calls'[uh]) :
            calls'[uh][i].task = calls'[uh][j].task => calls'[uh][i].task = None \/ i = j
      <4> SUFFICES ASSUME NEW i \in 1..Len(calls'[uh]), NEW j \in 1..Len(calls'[uh]),
                          calls'[uh][i].task = calls'[uh][j].task, calls'[uh][i].task # None
                   PROVE  i = j
        OBVIOUS
      <4>1. CASE calls'[uh][i].task = t
        <5>1. ASSUME NEW k \in 1..Len(calls[uh]) PROVE calls[uh][k].task # t
          <6>1. k \in Nat
            BY <2>1
          <6> QED
            BY <1>3, <6>1
        <5> QED
          BY <3>1, <4>1, <5>1
      <4>2. CASE calls'[uh][i].task # t
        <5>1. /\ i \in 1..Len(calls[uh]) /\ j \in 1..Len(calls[uh])
              /\ calls[uh][i].task = calls[uh][j].task /\ calls[uh][i].task # None
          BY <3>1, <4>2
        <5> QED
          BY <5>1 DEF Positions
      <4> QED
        BY <4>1, <4>2
    <3>3. ASSUME NEW i \in 1..Len(calls'[uh]), calls'[uh][i].task # None
          PROVE  /\ place'[calls'[uh][i].task] = uh
                 /\ out'[calls'[uh][i].task] = Value(NewReceiver)
      <4>1. CASE calls'[uh][i].task = t
        BY <1>2, <2>3, <4>1
      <4>2. CASE calls'[uh][i].task # t
        <5>1. /\ i \in 1..Len(calls[uh]) /\ calls'[uh][i] = calls[uh][i]
              /\ calls[uh][i].task \in Task \ {t}
          BY <2>1, <3>1, <3>3, <4>2
        <5> QED
          BY <1>2, <3>3, <5>1 DEF Positions
      <4> QED
        BY <4>1, <4>2
    <3> QED
      BY <3>2, <3>3
  <2> QED
    BY <2>2, <2>3
<1>6. ASSUME NEW uh \in Thread, NEW i \in 1..Len(pending'[uh])
      PROVE  place'[pending'[uh][i]] = uh /\ out'[pending'[uh][i]] = NewReceiver
  BY <1>2, <1>3, Elements DEF Positions
<1>7. Positions'
  BY <1>5, <1>6 DEF Positions
<1>8. ASSUME NEW u \in Task
      PROVE  \/ place'[u] = None /\ out'[u] = NewReceiver
             \/ place'[u] # None /\ Ended(out'[u]) /\ out'[u].done /\ out'[u].n = 1
             \/ /\ place'[u] # None
                /\ \/ \E i \in 1..Len(calls'[place'[u]]) : calls'[place'[u]][i].task = u
                   \/ \E i \in 1..Len(pending'[place'[u]]) : pending'[place'[u]][i] = u
  <2>1. CASE u = t
    <3>1. Len(calls[th]) + 1 \in 1..Len(calls'[th])
      BY Elements DEF Pushes
    <3> QED
      BY <1>2, <1>4, <2>1, <3>1 DEF Pushes
  <2>2. CASE u # t
    <3>1. place'[u] = place[u] /\ out'[u] = out[u] /\ place[u] \in Thread \cup {None}
      BY <1>2, <2>2 DEF TypeOK
    <3>2. \A uh \in Thread :
            (\E i \in 1..Len(calls[uh]) : calls[uh][i].task = u)
              => \E i \in 1..Len(calls'[uh]) : calls'[uh][i].task = u
      <4>1. SUFFICES ASSUME NEW uh \in Thread, NEW i \in 1..Len(calls[uh])
                     PROVE  i \in 1..Len(calls'[uh]) /\ calls'[uh][i] = calls[uh][i]
        OBVIOUS
      <4> QED
        BY Elements DEF Pushes, Others
    <3> QED
      BY <3>1, <3>2 DEF Located
  <2> QED
    BY <2>1, <2>2
<1> QED
  BY <1>7, <1>8 DEF Located

\* A task is deferred; the call that does so may drain next.
LEMMA DeferredPositions ==
  ASSUME TypeOK, Positions, Located, NEW th \in Thread, NEW t \in Task,
         place[t] = None, Defers(th, t), Accept(th, t), UNCHANGED out,
         \/ UNCHANGED calls
         \/ \E c \in Call : c.task = None /\ Pushes(th, c)
  PROVE  Positions' /\ Located'
<1>1. out[t] = NewReceiver
  BY TrampolineAssumption DEF Located
<1>2. place'[t] = th /\ \A u \in Task \ {t} : place'[u] = place[u]
  BY DEF Accept, TypeOK
<1>3. t # None /\ th # None
  BY TrampolineAssumption DEF Task
<1>4. \A uh \in Thread, i \in Nat :
        /\ i \in 1..Len(calls[uh]) => calls[uh][i].task # t
        /\ i \in 1..Len(pending[uh]) => pending[uh][i] # t
  <2>1. t # None /\ place[t] \notin Thread
    BY TrampolineAssumption DEF Task
  <2> QED
    BY <2>1 DEF Positions
<1>5. ASSUME NEW uh \in Thread
      PROVE  /\ \A i \in 1..Len(calls[uh]) :
                  i \in 1..Len(calls'[uh]) /\ calls'[uh][i] = calls[uh][i]
             /\ \A i \in 1..Len(calls'[uh]) : i \in 1..Len(calls[uh]) \/ calls'[uh][i].task = None
  <2>1. CASE calls'[uh] = calls[uh]
    BY <2>1
  <2>2. CASE calls'[uh] # calls[uh]
    <3>1. PICK c \in Call : c.task = None /\ Pushes(th, c)
      BY <2>2
    <3>2. uh = th
      BY <2>2, <3>1 DEF Pushes, Others
    <3>3. Len(calls[uh]) \in Nat
      BY Elements
    <3>4. \A i \in 1..Len(calls'[uh]) :
            i \in 1..Len(calls[uh]) \/ i = Len(calls[uh]) + 1
      BY <3>1, <3>2, <3>3 DEF Pushes
    <3>5. \A i \in 1..Len(calls[uh]) : i \in 1..Len(calls'[uh])
      BY <3>1, <3>2, <3>3 DEF Pushes
    <3> QED
      BY <3>1, <3>2, <3>4, <3>5 DEF Pushes
  <2> QED
    BY <2>1, <2>2
<1>6. ASSUME NEW uh \in Thread
      PROVE  /\ \A i \in 1..Len(calls'[uh]), j \in 1..Len(calls'[uh]) :
                  calls'[uh][i].task = calls'[uh][j].task => calls'[uh][i].task = None \/ i = j
             /\ \A i \in 1..Len(calls'[uh]) :
                  calls'[uh][i].task # None =>
                    /\ place'[calls'[uh][i].task] = uh
                    /\ out'[calls'[uh][i].task] = Value(NewReceiver)
  <2>1. \A i \in 1..Len(calls'[uh]) :
          calls'[uh][i].task # None =>
            /\ i \in 1..Len(calls[uh]) /\ calls'[uh][i] = calls[uh][i]
            /\ calls[uh][i].task \in Task \ {t}
    <3>1. \A i \in 1..Len(calls[uh]) : calls[uh][i].task \in Task \cup {None}
      BY Elements
    <3> QED
      BY <1>4, <1>5, <3>1
  <2>2. \A i \in 1..Len(calls'[uh]), j \in 1..Len(calls'[uh]) :
          calls'[uh][i].task = calls'[uh][j].task => calls'[uh][i].task = None \/ i = j
    BY <2>1 DEF Positions
  <2>3. ASSUME NEW i \in 1..Len(calls'[uh]), calls'[uh][i].task # None
        PROVE  /\ place'[calls'[uh][i].task] = uh
               /\ out'[calls'[uh][i].task] = Value(NewReceiver)
    BY <1>2, <2>1, <2>3 DEF Positions
  <2> QED
    BY <2>2, <2>3
<1>7. ASSUME NEW uh \in Thread
      PROVE  /\ \A i \in 1..Len(pending'[uh]), j \in 1..Len(pending'[uh]) :
                  pending'[uh][i] = pending'[uh][j] => i = j
             /\ \A i \in 1..Len(pending'[uh]) :
                  place'[pending'[uh][i]] = uh /\ out'[pending'[uh][i]] = NewReceiver
             /\ \A i \in 1..Len(pending[uh]) :
                  i \in 1..Len(pending'[uh]) /\ pending'[uh][i] = pending[uh][i]
  <2>1. /\ Len(pending[uh]) \in Nat
        /\ \A i \in 1..Len(pending[uh]) : pending[uh][i] \in Task
    BY Elements
  <2>2. CASE uh # th
    <3>1. pending'[uh] = pending[uh]
      BY <2>2 DEF Defers
    <3> QED
      BY <1>2, <1>4, <2>1, <3>1 DEF Positions
  <2>3. CASE uh = th
    <3>1. \A i \in 1..Len(pending'[uh]) :
            \/ i \in 1..Len(pending[uh]) /\ pending'[uh][i] = pending[uh][i]
            \/ i = Len(pending[uh]) + 1 /\ pending'[uh][i] = t
      BY <2>1, <2>3 DEF Defers
    <3>2. \A i \in 1..Len(pending[uh]) :
            i \in 1..Len(pending'[uh]) /\ pending'[uh][i] = pending[uh][i]
      BY <2>1, <2>3 DEF Defers
    <3>3. \A i \in 1..Len(pending'[uh]), j \in 1..Len(pending'[uh]) :
            pending'[uh][i] = pending'[uh][j] => i = j
      BY <1>4, <2>1, <3>1 DEF Positions
    <3>4. \A i \in 1..Len(pending'[uh]) :
            place'[pending'[uh][i]] = uh /\ out'[pending'[uh][i]] = NewReceiver
      <4>1. \A i \in 1..Len(pending[uh]) :
              place'[pending[uh][i]] = uh /\ out'[pending[uh][i]] = NewReceiver
        BY <1>2, <1>4, <2>1 DEF Positions
      <4> QED
        BY <1>1, <1>2, <2>3, <3>1, <4>1
    <3> QED
      BY <3>2, <3>3, <3>4
  <2> QED
    BY <2>2, <2>3
<1>8. Positions'
  BY <1>6, <1>7 DEF Positions
<1>9. ASSUME NEW u \in Task
      PROVE  \/ place'[u] = None /\ out'[u] = NewReceiver
             \/ place'[u] # None /\ Ended(out'[u]) /\ out'[u].done /\ out'[u].n = 1
             \/ /\ place'[u] # None
                /\ \/ \E i \in 1..Len(calls'[place'[u]]) : calls'[place'[u]][i].task = u
                   \/ \E i \in 1..Len(pending'[place'[u]]) : pending'[place'[u]][i] = u
  <2>1. CASE u = t
    <3>1. Len(pending[th]) + 1 \in 1..Len(pending'[th])
      BY Elements DEF Defers
    <3> QED
      BY <1>2, <1>3, <2>1, <3>1 DEF Defers
  <2>2. CASE u # t
    <3>1. place'[u] = place[u] /\ out'[u] = out[u] /\ place[u] \in Thread \cup {None}
      BY <1>2, <2>2 DEF TypeOK
    <3>2. \A uh \in Thread :
            /\ (\E i \in 1..Len(calls[uh]) : calls[uh][i].task = u)
                 => \E i \in 1..Len(calls'[uh]) : calls'[uh][i].task = u
            /\ (\E i \in 1..Len(pending[uh]) : pending[uh][i] = u)
                 => \E i \in 1..Len(pending'[uh]) : pending'[uh][i] = u
      BY <1>5, <1>7
    <3> QED
      BY <3>1, <3>2 DEF Located
  <2> QED
    BY <2>1, <2>2
<1> QED
  BY <1>8, <1>9 DEF Located

\* The task on top of a stack ends: it leaves the stack.
LEMMA EndedPositions ==
  ASSUME TypeOK, Positions, Located, NEW th \in Thread, Running(th),
         UNCHANGED <<pending, place>>, Pops(th) \/ Retasks(th, None),
         NEW r, r.n = 1, r.done, Ended(r), out' = [out EXCEPT ![Top(th).task] = r]
  PROVE  Positions' /\ Located'
<1> DEFINE t == Top(th).task
           k == Len(calls[th])
<1>1. k \in 1..Len(calls[th]) /\ calls[th][k].task = t /\ t \in Task /\ t # None
  BY Elements DEF Running, is_owned, Top
<1>2. out'[t] = r /\ \A u \in Task \ {t} : out'[u] = out[u]
  BY <1>1 DEF TypeOK
<1>3. place[t] = th /\ out[t] = Value(NewReceiver)
  BY <1>1 DEF Positions
<1>4. \A uh \in Thread, i \in Nat :
        /\ i \in 1..Len(calls[uh]) /\ calls[uh][i].task = t => uh = th /\ i = k
        /\ i \in 1..Len(pending[uh]) => pending[uh][i] # t
  <2>1. Value(NewReceiver) # NewReceiver
    BY ReceiverFacts
  <2> QED
    BY <1>1, <1>3, <2>1 DEF Positions
<1>5. ASSUME NEW uh \in Thread
      PROVE  /\ \A i \in 1..Len(calls[uh]) :
                  calls[uh][i].task # t =>
                    i \in 1..Len(calls'[uh]) /\ calls'[uh][i].task = calls[uh][i].task
             /\ \A i \in 1..Len(calls'[uh]) :
                  \/ calls'[uh][i].task = None
                  \/ i \in 1..Len(calls[uh]) /\ calls'[uh][i].task = calls[uh][i].task
                     /\ calls[uh][i].task # t
  <2>1. Len(calls[uh]) \in Nat
    BY Elements
  <2>2. CASE uh # th
    <3>1. calls'[uh] = calls[uh]
      BY <2>2 DEF Pops, Retasks, Others
    <3> QED
      BY <1>4, <2>1, <2>2, <3>1
  <2>3. CASE uh = th /\ Pops(th)
    BY <1>1, <1>4, <2>1, <2>3 DEF Pops
  <2>4. CASE uh = th /\ Retasks(th, None)
    <3>1. [how |-> Top(th).how, task |-> None].task = None
      OBVIOUS
    <3>2. calls'[th][k].task = None
      BY <2>4, <3>1 DEF Retasks
    <3>3. \A i \in 1..Len(calls[th]) : i = k \/ i \in 1..(k - 1)
      BY <2>1, <2>4
    <3>4. Len(calls'[th]) = k /\ \A i \in 1..(k - 1) : calls'[th][i] = calls[th][i]
      BY <2>4 DEF Retasks
    <3>5. \A i \in 1..(k - 1) : i # k /\ i \in 1..Len(calls[th])
      BY <2>1, <2>4
    <3> HIDE DEF t
    <3>6. \A i \in 1..(k - 1) : calls[th][i].task # t
      BY <1>4, <3>5
    <3> QED
      BY <1>1, <2>4, <3>2, <3>3, <3>4, <3>6
  <2> QED
    BY <2>2, <2>3, <2>4
<1>6. ASSUME NEW uh \in Thread
      PROVE  /\ \A i \in 1..Len(calls'[uh]), j \in 1..Len(calls'[uh]) :
                  calls'[uh][i].task = calls'[uh][j].task => calls'[uh][i].task = None \/ i = j
             /\ \A i \in 1..Len(calls'[uh]) :
                  calls'[uh][i].task # None =>
                    /\ place'[calls'[uh][i].task] = uh
                    /\ out'[calls'[uh][i].task] = Value(NewReceiver)
             /\ \A i \in 1..Len(pending[uh]) : out'[pending[uh][i]] = NewReceiver
  <2> HIDE DEF t, k
  <2>1. \A i \in 1..Len(calls'[uh]), j \in 1..Len(calls'[uh]) :
          calls'[uh][i].task = calls'[uh][j].task => calls'[uh][i].task = None \/ i = j
    BY <1>5 DEF Positions
  <2>2. ASSUME NEW i \in 1..Len(calls'[uh]), calls'[uh][i].task # None
        PROVE  /\ place'[calls'[uh][i].task] = uh
               /\ out'[calls'[uh][i].task] = Value(NewReceiver)
    <3>1. /\ i \in 1..Len(calls[uh]) /\ calls'[uh][i].task = calls[uh][i].task
          /\ calls[uh][i].task # t
      BY <1>5, <2>2
    <3>2. calls[uh][i].task \in Task
      BY <2>2, <3>1, Elements
    <3> QED
      BY <1>2, <2>2, <3>1, <3>2 DEF Positions
  <2>3. \A i \in 1..Len(pending[uh]) : out'[pending[uh][i]] = NewReceiver
    BY <1>2, <1>4, Elements DEF Positions
  <2> QED
    BY <2>1, <2>2, <2>3
<1>7. Positions'
  BY <1>6 DEF Positions
<1>8. ASSUME NEW u \in Task
      PROVE  \/ place'[u] = None /\ out'[u] = NewReceiver
             \/ place'[u] # None /\ Ended(out'[u]) /\ out'[u].done /\ out'[u].n = 1
             \/ /\ place'[u] # None
                /\ \/ \E i \in 1..Len(calls'[place'[u]]) : calls'[place'[u]][i].task = u
                   \/ \E i \in 1..Len(pending'[place'[u]]) : pending'[place'[u]][i] = u
  <2>1. CASE u = t
    BY <1>2, <1>3, <2>1, TrampolineAssumption
  <2>2. CASE u # t
    <3>1. out'[u] = out[u] /\ place[u] \in Thread \cup {None}
      BY <1>2, <2>2 DEF TypeOK
    <3> HIDE DEF t, k
    <3> QED
      BY <1>5, <2>2, <3>1 DEF Located
  <2> QED
    BY <2>1, <2>2
<1> QED
  BY <1>7, <1>8 DEF Located

\* The front of the deferred work goes to the call on top of the stack.
LEMMA DrainedPositions ==
  ASSUME TypeOK, Positions, Located, NEW th \in Thread, Draining(th),
         NEW t \in Task, Len(pending[th]) >= 1, t = pending[th][1],
         Takes(th), Retasks(th, t), Enter(t), UNCHANGED place
  PROVE  Positions' /\ Located'
<1> DEFINE k == Len(calls[th])
<1>1. k \in 1..Len(calls[th]) /\ calls[th][k].task = None
  BY Elements DEF Draining, is_owned, Top
<1>2. place[t] = th /\ out[t] = NewReceiver
  <2>1. 1 \in 1..Len(pending[th])
    BY Elements
  <2> QED
    BY <2>1 DEF Positions
<1>3. out'[t] = Value(NewReceiver) /\ \A u \in Task \ {t} : out'[u] = out[u]
  BY <1>2 DEF TypeOK, Enter
<1>4. t # None /\ th # None
  BY TrampolineAssumption DEF Task
<1>5. \A uh \in Thread, i \in Nat :
        /\ i \in 1..Len(calls[uh]) => calls[uh][i].task # t
        /\ i \in 1..Len(pending[uh]) /\ pending[uh][i] = t => uh = th /\ i = 1
  <2>1. Value(NewReceiver) # NewReceiver
    BY ReceiverFacts
  <2>2. 1 \in 1..Len(pending[th])
    BY Elements
  <2> QED
    BY <1>2, <1>4, <2>1, <2>2 DEF Positions
<1>6. ASSUME NEW uh \in Thread
      PROVE  /\ \A i \in 1..Len(calls[uh]) :
                  calls[uh][i].task # None =>
                    i \in 1..Len(calls'[uh]) /\ calls'[uh][i].task = calls[uh][i].task
             /\ \A i \in 1..Len(calls'[uh]) :
                  \/ uh = th /\ i = k /\ calls'[uh][i].task = t
                  \/ i \in 1..Len(calls[uh]) /\ calls'[uh][i].task = calls[uh][i].task
  <2>1. CASE uh # th
    <3>1. calls'[uh] = calls[uh]
      BY <2>1 DEF Retasks, Others
    <3> QED
      BY <3>1
  <2>2. CASE uh = th
    <3>1. [how |-> Top(th).how, task |-> t].task = t
      OBVIOUS
    <3>2. calls'[th][k].task = t
      BY <3>1 DEF Retasks
    <3>3. \A i \in 1..Len(calls[th]) : i = k \/ i \in 1..(k - 1)
      BY Elements
    <3>4. Len(calls'[th]) = k /\ \A i \in 1..(k - 1) : calls'[th][i] = calls[th][i]
      BY DEF Retasks
    <3> QED
      BY <1>1, <2>2, <3>2, <3>3, <3>4
  <2> QED
    BY <2>1, <2>2
<1>7. ASSUME NEW uh \in Thread
      PROVE  /\ \A i \in 1..Len(pending'[uh]) :
                  \E j \in 1..Len(pending[uh]) :
                    /\ pending'[uh][i] = pending[uh][j] /\ pending[uh][j] # t
                    /\ j = IF uh = th THEN i + 1 ELSE i
             /\ \A j \in 1..Len(pending[uh]) :
                  pending[uh][j] # t => \E i \in 1..Len(pending'[uh]) : pending'[uh][i] = pending[uh][j]
  <2>1. Len(pending[uh]) \in Nat
    BY Elements
  <2>2. CASE uh # th
    <3>1. pending'[uh] = pending[uh]
      BY <2>2 DEF Takes
    <3> QED
      BY <1>5, <2>1, <2>2, <3>1
  <2>3. CASE uh = th
    <3>1. \A i \in 1..Len(pending'[uh]) :
            i + 1 \in 1..Len(pending[uh]) /\ i + 1 # 1 /\ pending'[uh][i] = pending[uh][i + 1]
      BY <2>1, <2>3 DEF Takes
    <3>2. \A i \in 1..Len(pending'[uh]) : pending[uh][i + 1] # t
      BY <1>5, <3>1
    <3>3. ASSUME NEW j \in 1..Len(pending[uh]), pending[uh][j] # t
          PROVE  \E i \in 1..Len(pending'[uh]) : pending'[uh][i] = pending[uh][j]
      <4>1. j # 1
        BY <2>3, <3>3
      <4>2. j - 1 \in 1..(Len(pending[uh]) - 1) /\ (j - 1) + 1 = j
        BY <2>1, <4>1
      <4>3. j - 1 \in 1..Len(pending'[uh]) /\ pending'[uh][j - 1] = pending[uh][j]
        BY <2>3, <4>2 DEF Takes
      <4> QED
        BY <4>3
    <3> QED
      BY <2>3, <3>1, <3>2, <3>3
  <2> QED
    BY <2>2, <2>3
<1> HIDE DEF k
<1>8. ASSUME NEW uh \in Thread
      PROVE  \A i \in 1..Len(calls'[uh]), j \in 1..Len(calls'[uh]) :
               calls'[uh][i].task = calls'[uh][j].task => calls'[uh][i].task = None \/ i = j
  BY <1>5, <1>6 DEF Positions
<1>9. ASSUME NEW uh \in Thread, NEW i \in 1..Len(calls'[uh]), calls'[uh][i].task # None
      PROVE  /\ place'[calls'[uh][i].task] = uh
             /\ out'[calls'[uh][i].task] = Value(NewReceiver)
  <2>1. CASE uh = th /\ calls'[uh][i].task = t
    BY <1>2, <1>3, <2>1
  <2>2. CASE i \in 1..Len(calls[uh]) /\ calls'[uh][i].task = calls[uh][i].task
    <3>1. calls[uh][i].task # t /\ calls[uh][i].task \in Task
      BY <1>5, <1>9, <2>2, Elements
    <3> QED
      BY <1>3, <1>9, <2>2, <3>1 DEF Positions
  <2> QED
    BY <1>6, <2>1, <2>2
<1>10. ASSUME NEW uh \in Thread
       PROVE  \A i \in 1..Len(pending'[uh]), j \in 1..Len(pending'[uh]) :
                pending'[uh][i] = pending'[uh][j] => i = j
  <2>1. SUFFICES ASSUME NEW i \in 1..Len(pending'[uh]), NEW j \in 1..Len(pending'[uh]),
                        pending'[uh][i] = pending'[uh][j]
                 PROVE  i = j
    OBVIOUS
  <2>2. PICK a \in 1..Len(pending[uh]) :
          pending'[uh][i] = pending[uh][a] /\ a = IF uh = th THEN i + 1 ELSE i
    BY <1>7
  <2>3. PICK b \in 1..Len(pending[uh]) :
          pending'[uh][j] = pending[uh][b] /\ b = IF uh = th THEN j + 1 ELSE j
    BY <1>7
  <2>4. pending[uh][a] = pending[uh][b]
    BY <2>1, <2>2, <2>3
  <2>5. a = b
    <3>1. \A c \in 1..Len(pending[uh]), d \in 1..Len(pending[uh]) :
            pending[uh][c] = pending[uh][d] => c = d
      BY DEF Positions
    <3> QED
      BY <2>4, <3>1
  <2> QED
    BY <2>2, <2>3, <2>5
<1>11. ASSUME NEW uh \in Thread, NEW i \in 1..Len(pending'[uh])
       PROVE  place'[pending'[uh][i]] = uh /\ out'[pending'[uh][i]] = NewReceiver
  <2>1. PICK a \in 1..Len(pending[uh]) : pending'[uh][i] = pending[uh][a] /\ pending[uh][a] # t
    BY <1>7
  <2>2. pending[uh][a] \in Task
    BY Elements
  <2> QED
    BY <1>3, <2>1, <2>2 DEF Positions
<1>12. Positions'
  BY <1>8, <1>9, <1>10, <1>11 DEF Positions
<1>13. ASSUME NEW u \in Task
       PROVE  \/ place'[u] = None /\ out'[u] = NewReceiver
              \/ place'[u] # None /\ Ended(out'[u]) /\ out'[u].done /\ out'[u].n = 1
              \/ /\ place'[u] # None
                 /\ \/ \E i \in 1..Len(calls'[place'[u]]) : calls'[place'[u]][i].task = u
                    \/ \E i \in 1..Len(pending'[place'[u]]) : pending'[place'[u]][i] = u
  <2>1. CASE u = t
    <3>1. k \in 1..Len(calls'[th]) /\ calls'[th][k].task = t
      <4>1. [how |-> Top(th).how, task |-> t].task = t
        OBVIOUS
      <4> QED
        BY <1>1, <4>1 DEF Retasks, k
    <3> QED
      BY <1>2, <1>4, <2>1, <3>1
  <2>2. CASE u # t
    <3>1. out'[u] = out[u] /\ place[u] \in Thread \cup {None}
      BY <1>3, <2>2 DEF TypeOK
    <3>2. u # None
      BY TrampolineAssumption DEF Task
    <3>3. ASSUME place[u] # None, NEW i \in 1..Len(calls[place[u]]), calls[place[u]][i].task = u
          PROVE  \E j \in 1..Len(calls'[place[u]]) : calls'[place[u]][j].task = u
      BY <1>6, <3>1, <3>2, <3>3
    <3>4. ASSUME place[u] # None, NEW i \in 1..Len(pending[place[u]]), pending[place[u]][i] = u
          PROVE  \E j \in 1..Len(pending'[place[u]]) : pending'[place[u]][j] = u
      <4>1. place[u] \in Thread /\ pending[place[u]][i] # t
        BY <2>2, <3>1, <3>4
      <4>2. \E j \in 1..Len(pending'[place[u]]) : pending'[place[u]][j] = pending[place[u]][i]
        BY <1>7, <4>1
      <4> QED
        BY <3>4, <4>2
    <3> QED
      BY <3>1, <3>3, <3>4 DEF Located
  <2> QED
    BY <2>1, <2>2
<1> QED
  BY <1>12, <1>13 DEF Located

\* A call that has drained the deferred work returns.
LEMMA ReturnedPositions ==
  ASSUME TypeOK, Positions, Located, NEW th \in Thread, Draining(th), Pops(th),
         UNCHANGED <<pending, out, place>>
  PROVE  Positions' /\ Located'
<1>1. calls[th][Len(calls[th])].task = None
  BY DEF Draining, Top
<1>2. ASSUME NEW uh \in Thread
      PROVE  /\ \A i \in 1..Len(calls[uh]) :
                  calls[uh][i].task # None =>
                    i \in 1..Len(calls'[uh]) /\ calls'[uh][i] = calls[uh][i]
             /\ \A i \in 1..Len(calls'[uh]) :
                  i \in 1..Len(calls[uh]) /\ calls'[uh][i] = calls[uh][i]
  <2>1. CASE uh # th
    BY <2>1 DEF Pops, Others
  <2>2. CASE uh = th
    <3>1. \A i \in 1..Len(calls[th]) : i = Len(calls[th]) \/ i \in 1..(Len(calls[th]) - 1)
      BY Elements
    <3>2. \A i \in 1..(Len(calls[th]) - 1) : i \in 1..Len(calls[th])
      BY Elements
    <3> QED
      BY <1>1, <2>2, <3>1, <3>2 DEF Pops
  <2> QED
    BY <2>1, <2>2
<1>3. Positions'
  <2> SUFFICES ASSUME NEW uh \in Thread
               PROVE  /\ \A i \in 1..Len(calls'[uh]), j \in 1..Len(calls'[uh]) :
                           calls'[uh][i].task = calls'[uh][j].task
                             => calls'[uh][i].task = None \/ i = j
                      /\ \A i \in 1..Len(calls'[uh]) :
                           calls'[uh][i].task # None =>
                             /\ place[calls'[uh][i].task] = uh
                             /\ out[calls'[uh][i].task] = Value(NewReceiver)
    BY DEF Positions
  <2>1. \A i \in 1..Len(calls'[uh]) : i \in 1..Len(calls[uh]) /\ calls'[uh][i] = calls[uh][i]
    BY <1>2
  <2>2. ASSUME NEW i \in 1..Len(calls'[uh]), NEW j \in 1..Len(calls'[uh]),
               calls'[uh][i].task = calls'[uh][j].task
        PROVE  calls'[uh][i].task = None \/ i = j
    <3>1. /\ i \in 1..Len(calls[uh]) /\ j \in 1..Len(calls[uh])
          /\ calls[uh][i].task = calls[uh][j].task /\ calls'[uh][i] = calls[uh][i]
      BY <2>1, <2>2
    <3> QED
      BY <3>1 DEF Positions
  <2>3. ASSUME NEW i \in 1..Len(calls'[uh]), calls'[uh][i].task # None
        PROVE  /\ place[calls'[uh][i].task] = uh
               /\ out[calls'[uh][i].task] = Value(NewReceiver)
    <3>1. i \in 1..Len(calls[uh]) /\ calls[uh][i].task # None /\ calls'[uh][i] = calls[uh][i]
      BY <2>1, <2>3
    <3> QED
      BY <3>1 DEF Positions
  <2> QED
    BY <2>2, <2>3
<1>4. ASSUME NEW u \in Task, place[u] # None
      PROVE  \A i \in 1..Len(calls[place[u]]) :
               calls[place[u]][i].task = u => \E j \in 1..Len(calls'[place[u]]) : calls'[place[u]][j].task = u
  <2>1. place[u] \in Thread /\ u # None
    BY <1>4, TrampolineAssumption DEF TypeOK, Task
  <2> QED
    BY <1>2, <2>1
<1> QED
  BY <1>3, <1>4 DEF Located

-----------------------------------------------------------------------------
(* The shape of the stacks, and the threads. *)

LEMMA StacksPush ==
  ASSUME TypeOK, TypeOK', Stacks, NEW th \in Thread, NEW c \in Call, Pushes(th, c),
         calls[th] = <<>> => c.how = "nest",
         c.how # "nest" => c.task # None,
         \A uh \in Thread \ {th} : pending'[uh] = pending[uh]
  PROVE  Stacks'
<1> SUFFICES ASSUME NEW uh \in Thread
             PROVE  /\ calls'[uh] # <<>> => calls'[uh][1].how = "nest"
                    /\ calls'[uh] = <<>> => pending'[uh] = <<>>
                    /\ \A i \in 1..Len(calls'[uh]) :
                         calls'[uh][i].how # "nest" => calls'[uh][i].task # None
  BY DEF Stacks
<1>1. CASE uh # th
  <2>1. calls'[uh] = calls[uh] /\ pending'[uh] = pending[uh]
    BY <1>1 DEF Pushes, Others
  <2> QED
    BY <2>1 DEF Stacks
<1>2. CASE uh = th
  <2>1. Len(calls[th]) \in Nat /\ (calls[th] = <<>> <=> Len(calls[th]) = 0)
    BY Elements
  <2>2. calls'[th] = <<>> <=> Len(calls'[th]) = 0
    BY DEF TypeOK
  <2>3. calls'[th] # <<>>
    BY <2>1, <2>2 DEF Pushes
  <2>4. calls'[th][1].how = "nest"
    BY <2>1 DEF Pushes, Stacks
  <2>5. \A i \in 1..Len(calls'[th]) : calls'[th][i].how # "nest" => calls'[th][i].task # None
    <3>1. \A i \in 1..Len(calls'[th]) : i \in 1..Len(calls[th]) \/ i = Len(calls[th]) + 1
      BY <2>1 DEF Pushes
    <3> QED
      BY <3>1 DEF Pushes, Stacks
  <2> QED
    BY <1>2, <2>3, <2>4, <2>5
<1> QED
  BY <1>1, <1>2

LEMMA StacksPop ==
  ASSUME TypeOK, TypeOK', Stacks, NEW th \in Thread, Pops(th),
         Top(th).how = "nest" => pending[th] = <<>>, UNCHANGED pending
  PROVE  Stacks'
<1> SUFFICES ASSUME NEW uh \in Thread
             PROVE  /\ calls'[uh] # <<>> => calls'[uh][1].how = "nest"
                    /\ calls'[uh] = <<>> => pending'[uh] = <<>>
                    /\ \A i \in 1..Len(calls'[uh]) :
                         calls'[uh][i].how # "nest" => calls'[uh][i].task # None
  BY DEF Stacks
<1>1. CASE uh # th
  <2>1. calls'[uh] = calls[uh] /\ pending'[uh] = pending[uh]
    BY <1>1 DEF Pops, Others
  <2> QED
    BY <2>1 DEF Stacks
<1>2. CASE uh = th
  <2>1. Len(calls[th]) \in Nat /\ (calls[th] = <<>> <=> Len(calls[th]) = 0)
    BY Elements
  <2>2. calls'[th] = <<>> <=> Len(calls'[th]) = 0
    BY DEF TypeOK
  <2>3. calls'[th] # <<>> => calls'[th][1].how = "nest"
    BY <2>1, <2>2 DEF Pops, Stacks
  <2>4. calls'[th] = <<>> => pending[th] = <<>>
    BY <2>1, <2>2 DEF Pops, Stacks, Top
  <2>5. \A i \in 1..Len(calls'[th]) : calls'[th][i].how # "nest" => calls'[th][i].task # None
    <3>1. \A i \in 1..Len(calls'[th]) : i \in 1..Len(calls[th]) /\ calls'[th][i] = calls[th][i]
      BY <2>1 DEF Pops
    <3> QED
      BY <3>1 DEF Stacks
  <2> QED
    BY <1>2, <2>3, <2>4, <2>5
<1> QED
  BY <1>1, <1>2

LEMMA StacksRetask ==
  ASSUME TypeOK, TypeOK', Stacks, NEW th \in Thread, NEW x \in Task \cup {None},
         Retasks(th, x), Top(th).how = "nest",
         \A uh \in Thread \ {th} : pending'[uh] = pending[uh]
  PROVE  Stacks'
<1> SUFFICES ASSUME NEW uh \in Thread
             PROVE  /\ calls'[uh] # <<>> => calls'[uh][1].how = "nest"
                    /\ calls'[uh] = <<>> => pending'[uh] = <<>>
                    /\ \A i \in 1..Len(calls'[uh]) :
                         calls'[uh][i].how # "nest" => calls'[uh][i].task # None
  BY DEF Stacks
<1>1. CASE uh # th
  <2>1. calls'[uh] = calls[uh] /\ pending'[uh] = pending[uh]
    BY <1>1 DEF Retasks, Others
  <2> QED
    BY <2>1 DEF Stacks
<1>2. CASE uh = th
  <2>1. Len(calls[th]) \in Nat /\ (calls[th] = <<>> <=> Len(calls[th]) = 0)
    BY Elements
  <2>2. calls'[th] = <<>> <=> Len(calls'[th]) = 0
    BY DEF TypeOK
  <2>3. calls'[th] # <<>> /\ calls[th] # <<>>
    BY <2>1, <2>2 DEF Retasks
  <2>4. calls'[th][Len(calls[th])].how = "nest"
    BY DEF Retasks
  <2>5. \A i \in 1..Len(calls'[th]) :
          i = Len(calls[th]) \/ (i \in 1..Len(calls[th]) /\ calls'[th][i] = calls[th][i])
    BY <2>1 DEF Retasks
  <2>6. calls'[th][1].how = "nest"
    <3>1. 1 \in 1..Len(calls'[th])
      BY <2>1 DEF Retasks
    <3> QED
      BY <2>3, <2>4, <2>5, <3>1 DEF Stacks
  <2>7. \A i \in 1..Len(calls'[th]) : calls'[th][i].how # "nest" => calls'[th][i].task # None
    BY <2>4, <2>5 DEF Stacks
  <2> QED
    BY <1>2, <2>3, <2>6, <2>7
<1> QED
  BY <1>1, <1>2

LEMMA ThreadsKept ==
  ASSUME Threads, NEW th \in Thread, Others(th), UNCHANGED spawned,
         \A u \in Task : place[u] # None => place'[u] # None,
         spawned \in [Thread -> Task \cup {None}],
         \/ calls[th] # <<>>
         \/ th = Main
         \/ spawned[th] # None /\ place'[spawned[th]] # None
  PROVE  Threads'
<1>1. ASSUME NEW uh \in Thread
      PROVE  /\ uh # Main /\ calls'[uh] # <<>> => spawned'[uh] # None
             /\ spawned'[uh] # None /\ calls'[uh] # <<>> => place'[spawned'[uh]] # None
  <2>1. CASE uh # th
    BY <2>1 DEF Threads, Others
  <2>2. CASE uh = th
    BY <2>2 DEF Threads
  <2> QED
    BY <2>1, <2>2
<1> QED
  BY <1>1 DEF Threads

-----------------------------------------------------------------------------
(* The actions. *)

LEMMA InitInv == Init => TaskInv
<1> SUFFICES ASSUME Init PROVE TaskInv
  OBVIOUS
<1>1. TypeOK
  <2>1. NewReceiver \in ReceiverType
    BY ReceiverFacts
  <2> QED
    BY <2>1, TrampolineAssumption DEF Init, TypeOK
<1>2. Threads
  BY TrampolineAssumption DEF Init, Threads
<1>3. \A th \in Thread : Len(calls[th]) = 0 /\ Len(pending[th]) = 0
  BY DEF Init
<1>4. Stacks
  BY <1>3 DEF Init, Stacks
<1>5. DepthExact
  <2>1. \A th \in Thread : Delegated(th) = {}
    BY <1>3 DEF Delegated
  <2> QED
    BY <2>1, FS_EmptySet DEF Init, DepthExact
<1>6. Positions
  BY <1>3 DEF Positions
<1>7. Located
  BY DEF Init, Located
<1> QED
  BY <1>1, <1>2, <1>4, <1>5, <1>6, <1>7 DEF TaskInv

\* A task that has not been placed is put on a stack and entered.
LEMMA EnterStep ==
  ASSUME TaskInv, NEW th \in Thread, NEW t \in Task, NEW h \in {"delegate", "nest", "inline"},
         place[t] = None, Push(th, h, t), Enter(t), Accept(th, t),
         UNCHANGED <<pending, spawned, refused>>,
         h = "delegate" => depth[th] < Limit,
         depth' = [depth EXCEPT ![th] = IF h = "delegate" THEN @ + 1 ELSE @],
         calls[th] = <<>> => h = "nest" /\ (th = Main \/ spawned[th] = t)
  PROVE  TaskInv'
<1> DEFINE c == [how |-> h, task |-> t]
<1>1. c \in Call /\ c.how = h /\ c.task = t
  BY CallType
<1>2. Pushes(th, c)
  BY PushEffect DEF TaskInv
<1> HIDE DEF c
<1>3. TypeOK'
  <2>1. calls' \in [Thread -> Seq(Call)]
    BY <1>2 DEF Pushes
  <2>2. depth' \in [Thread -> 0..Limit]
    BY TrampolineAssumption DEF TaskInv, TypeOK
  <2>3. out' \in [Task -> ReceiverType]
    BY ReceiverCalls DEF Enter, TaskInv, TypeOK
  <2>4. place' \in [Task -> Thread \cup {None}]
    BY DEF Accept, TaskInv, TypeOK
  <2> QED
    BY <2>1, <2>2, <2>3, <2>4 DEF TaskInv, TypeOK
<1>4. Threads'
  <2>1. Others(th)
    BY <1>2 DEF Pushes
  <2>2. place'[t] # None /\ \A u \in Task : place[u] # None => place'[u] # None
    BY TrampolineAssumption DEF Accept, TaskInv, TypeOK
  <2>3. t # None
    BY TrampolineAssumption DEF Task
  <2> QED
    BY <2>1, <2>2, <2>3, ThreadsKept DEF TaskInv, TypeOK
<1>5. Stacks'
  <2>1. t # None
    BY TrampolineAssumption DEF Task
  <2> QED
    BY <1>1, <1>2, <1>3, <2>1, StacksPush DEF TaskInv
<1>6. DepthExact'
  BY <1>1, <1>2, DepthPush DEF TaskInv
<1>7. Positions' /\ Located'
  BY <1>1, <1>2, EnteredPositions DEF TaskInv
<1> QED
  BY <1>3, <1>4, <1>5, <1>6, <1>7 DEF TaskInv

\* A task is deferred, and the call that does so may drain next.
LEMMA DeferStep ==
  ASSUME TaskInv, NEW th \in Thread, NEW t \in Task, Running(th),
         place[t] = None, Defer(th, t), Accept(th, t), UNCHANGED <<depth, out, spawned, refused>>,
         UNCHANGED calls \/ Push(th, "nest", None)
  PROVE  TaskInv'
<1> DEFINE c == [how |-> "nest", task |-> None]
<1>1. c \in Call /\ c.how = "nest" /\ c.task = None
  BY CallType
<1>2. UNCHANGED calls \/ Pushes(th, c)
  BY PushEffect DEF TaskInv
<1> HIDE DEF c
<1>3. Defers(th, t)
  BY DeferEffect DEF TaskInv
<1>4. TypeOK'
  <2>1. calls' \in [Thread -> Seq(Call)] /\ pending' \in [Thread -> Seq(Task)]
    BY <1>2, <1>3 DEF Pushes, Defers, TaskInv, TypeOK
  <2>2. place' \in [Task -> Thread \cup {None}]
    BY DEF Accept, TaskInv, TypeOK
  <2> QED
    BY <2>1, <2>2 DEF TaskInv, TypeOK
<1>5. calls[th] # <<>>
  BY DEF Running, is_owned
<1>6. Threads'
  <2>1. Others(th)
    BY <1>2 DEF Pushes, Others
  <2>2. \A u \in Task : place[u] # None => place'[u] # None
    BY TrampolineAssumption DEF Accept, TaskInv, TypeOK
  <2> QED
    BY <1>5, <2>1, <2>2, ThreadsKept DEF TaskInv, TypeOK
<1>7. \A uh \in Thread \ {th} : pending'[uh] = pending[uh]
  BY <1>3 DEF Defers
<1>8. Stacks' /\ DepthExact'
  <2>1. CASE UNCHANGED calls
    <3>1. Stacks'
      BY <1>5, <1>7, <2>1 DEF TaskInv, Stacks
    <3>2. DepthExact'
      BY <2>1 DEF TaskInv, DepthExact, Delegated
    <3> QED
      BY <3>1, <3>2
  <2>2. CASE Pushes(th, c)
    <3>1. depth' = [depth EXCEPT ![th] = IF c.how = "delegate" THEN @ + 1 ELSE @]
      BY <1>1 DEF TaskInv, TypeOK
    <3>2. DepthExact'
      BY <1>1, <2>2, <3>1, DepthPush DEF TaskInv
    <3>3. Stacks'
      BY <1>1, <1>4, <1>7, <2>2, StacksPush DEF TaskInv
    <3> QED
      BY <3>2, <3>3
  <2> QED
    BY <1>2, <2>1, <2>2
<1>9. Positions' /\ Located'
  BY <1>1, <1>2, <1>3, DeferredPositions DEF TaskInv
<1> QED
  BY <1>4, <1>6, <1>8, <1>9 DEF TaskInv

LEMMA TaskEndsStep ==
  ASSUME TaskInv, NEW th \in Thread, TaskEnds(th)
  PROVE  TaskInv'
<1> DEFINE t == Top(th).task
<1>1. t \in Task /\ calls[th] # <<>> /\ Running(th)
  BY Elements DEF TaskEnds, Running, is_owned, Top, TaskInv
<1>2. out[t] = Value(NewReceiver)
  <2>1. Len(calls[th]) \in 1..Len(calls[th])
    BY <1>1, Elements DEF TaskInv
  <2> QED
    BY <1>1, <2>1 DEF TaskInv, Positions, Running, Top
<1>3. PICK throws \in BOOLEAN :
        out' = [out EXCEPT ![t] = set_done(IF throws THEN Error(Value(NewReceiver), "thrown")
                                           ELSE Value(NewReceiver))]
  BY <1>2 DEF TaskEnds
<1> DEFINE r == set_done(IF throws THEN Error(Value(NewReceiver), "thrown")
                         ELSE Value(NewReceiver))
<1>4. r \in ReceiverType /\ Ended(r) /\ r.done /\ r.n = 1
  BY ReceiverFacts
<1>5. out' = [out EXCEPT ![t] = r]
  BY <1>3
<1> HIDE DEF r
<1>6. \/ Pops(th) /\ Top(th).how # "nest"
         /\ depth' = [depth EXCEPT ![th] = IF Top(th).how = "delegate" THEN @ - 1 ELSE @]
      \/ Retasks(th, None) /\ Top(th).how = "nest" /\ UNCHANGED depth
  <2>1. CASE /\ Top(th).how = "delegate"
             /\ calls' = [calls EXCEPT ![th] = SubSeq(@, 1, Len(@) - 1)]
             /\ depth' = [depth EXCEPT ![th] = Leave(@)]
    BY <1>1, <2>1, PopEffect DEF TaskInv, Leave
  <2>2. CASE /\ Top(th).how = "inline"
             /\ calls' = [calls EXCEPT ![th] = SubSeq(@, 1, Len(@) - 1)]
             /\ UNCHANGED depth
    <3>1. depth' = [depth EXCEPT ![th] = IF Top(th).how = "delegate" THEN @ - 1 ELSE @]
      BY <2>2 DEF TaskInv, TypeOK
    <3> QED
      BY <1>1, <2>2, <3>1, PopEffect DEF TaskInv
  <2>3. CASE /\ Top(th).how = "nest"
             /\ calls' = [calls EXCEPT ![th][Len(calls[th])].task = None]
             /\ UNCHANGED depth
    BY <1>1, <2>3, RetaskEffect DEF TaskInv
  <2> QED
    BY <2>1, <2>2, <2>3 DEF TaskEnds
<1>7. UNCHANGED <<pending, place, spawned, refused>>
  BY DEF TaskEnds
<1>8. DepthExact' /\ depth' \in [Thread -> 0..Limit]
  <2>1. CASE Pops(th) /\ depth' = [depth EXCEPT ![th] = IF Top(th).how = "delegate" THEN @ - 1 ELSE @]
    <3>1. DepthExact' /\ (Top(th).how = "delegate" => depth[th] >= 1)
      BY <2>1, DepthPop DEF TaskInv
    <3> QED
      BY <2>1, <3>1, TrampolineAssumption DEF TaskInv, TypeOK
  <2>2. CASE Retasks(th, None) /\ UNCHANGED depth
    BY <2>2, DepthRetask DEF TaskInv, TypeOK
  <2> QED
    BY <1>6, <2>1, <2>2
<1>9. TypeOK'
  <2>1. calls' \in [Thread -> Seq(Call)]
    BY <1>6 DEF Pops, Retasks
  <2>2. out' \in [Task -> ReceiverType]
    BY <1>4, <1>5 DEF TaskInv, TypeOK
  <2> QED
    BY <1>7, <1>8, <2>1, <2>2 DEF TaskInv, TypeOK
<1>10. Threads'
  <2>1. Others(th)
    BY <1>6 DEF Pops, Retasks
  <2> QED
    BY <1>1, <1>7, <2>1, ThreadsKept DEF TaskInv, TypeOK
<1>11. Stacks'
  BY <1>6, <1>7, <1>9, StacksPop, StacksRetask DEF TaskInv
<1>12. Positions' /\ Located'
  BY <1>1, <1>4, <1>5, <1>6, <1>7, EndedPositions DEF TaskInv
<1> QED
  BY <1>8, <1>9, <1>10, <1>11, <1>12 DEF TaskInv

LEMMA DrainStep ==
  ASSUME TaskInv, NEW th \in Thread, Drain(th)
  PROVE  TaskInv'
<1>1. /\ Takes(th) /\ Head(pending[th]) = pending[th][1] /\ Head(pending[th]) \in Task
      /\ calls[th] # <<>> /\ Draining(th)
  BY TakeEffect DEF Drain, Draining, is_owned, TaskInv
<1>2. PICK t \in Task : t = Head(pending[th])
  BY <1>1
<1>3. Retasks(th, t) /\ Enter(t) /\ UNCHANGED <<depth, place, spawned, refused>>
  BY <1>1, <1>2, RetaskEffect DEF Drain, TaskInv
<1>4. Top(th).how = "nest"
  <2>1. Len(calls[th]) \in 1..Len(calls[th])
    BY <1>1, Elements DEF TaskInv
  <2> QED
    BY <1>1, <2>1 DEF TaskInv, Stacks, Draining, Top
<1>5. TypeOK'
  <2>1. calls' \in [Thread -> Seq(Call)] /\ pending' \in [Thread -> Seq(Task)]
    BY <1>1, <1>3 DEF Takes, Retasks
  <2>2. out' \in [Task -> ReceiverType]
    BY <1>3, ReceiverCalls DEF Enter, TaskInv, TypeOK
  <2> QED
    BY <1>3, <2>1, <2>2 DEF TaskInv, TypeOK
<1>6. Threads'
  BY <1>1, <1>3, ThreadsKept DEF TaskInv, TypeOK, Retasks
<1>7. Stacks'
  <2>1. \A uh \in Thread \ {th} : pending'[uh] = pending[uh]
    BY <1>1 DEF Takes
  <2> QED
    BY <1>3, <1>4, <1>5, <2>1, StacksRetask DEF TaskInv
<1>8. DepthExact'
  BY <1>3, DepthRetask DEF TaskInv
<1>9. Positions' /\ Located'
  BY <1>1, <1>2, <1>3, DrainedPositions DEF TaskInv, Takes
<1> QED
  BY <1>5, <1>6, <1>7, <1>8, <1>9 DEF TaskInv

LEMMA NestReturnsStep ==
  ASSUME TaskInv, NEW th \in Thread, NestReturns(th)
  PROVE  TaskInv'
<1>1. Draining(th) /\ pending[th] = <<>> /\ calls[th] # <<>>
  BY DEF NestReturns, Drained, Draining, is_owned
<1>2. Pops(th)
  BY <1>1, PopEffect DEF NestReturns, TaskInv
<1>3. UNCHANGED <<depth, pending, out, place, spawned, refused>>
  BY DEF NestReturns
<1>4. Top(th).how = "nest"
  <2>1. Len(calls[th]) \in 1..Len(calls[th])
    BY <1>1, Elements DEF TaskInv
  <2> QED
    BY <1>1, <2>1 DEF TaskInv, Stacks, Draining, Top
<1>5. TypeOK'
  BY <1>2, <1>3 DEF TaskInv, TypeOK, Pops
<1>6. Threads'
  BY <1>1, <1>2, <1>3, ThreadsKept DEF TaskInv, TypeOK, Pops
<1>7. Stacks'
  BY <1>1, <1>2, <1>3, <1>5, StacksPop DEF TaskInv
<1>8. DepthExact'
  <2>1. depth' = [depth EXCEPT ![th] = IF Top(th).how = "delegate" THEN @ - 1 ELSE @]
    BY <1>3, <1>4 DEF TaskInv, TypeOK
  <2> QED
    BY <1>2, <2>1, DepthPop DEF TaskInv
<1>9. Positions' /\ Located'
  BY <1>1, <1>2, <1>3, ReturnedPositions DEF TaskInv
<1> QED
  BY <1>5, <1>6, <1>7, <1>8, <1>9 DEF TaskInv

LEMMA OwnStep ==
  ASSUME TaskInv, NEW th \in Thread, NEW t \in Task, Own(th, t)
  PROVE  TaskInv'
<1>1. calls[th] = <<>> /\ th = Main /\ place[t] = None
  BY DEF Own, is_owned, Fresh, Submitted
<1>2. pending[th] = <<>>
  BY <1>1 DEF TaskInv, Stacks
<1>3. pending' = pending
  BY <1>2 DEF Own, TaskInv, TypeOK
<1>4. depth[th] = 0
  <2>1. Delegated(th) = {}
    BY <1>1 DEF Delegated
  <2> QED
    BY <2>1, FS_EmptySet DEF TaskInv, DepthExact
<1>5. depth' = [depth EXCEPT ![th] = IF "nest" = "delegate" THEN @ + 1 ELSE @]
  BY <1>4 DEF Own, DepthAtStart
<1> QED
  BY <1>1, <1>3, <1>5, EnterStep DEF Own

LEMMA ThreadRunsStep ==
  ASSUME TaskInv, NEW th \in Thread, ThreadRuns(th)
  PROVE  TaskInv'
<1>1. PICK t \in Task : t = spawned[th]
  BY DEF ThreadRuns, TaskInv, TypeOK
<1>2. place[t] = None /\ calls[th] = <<>>
  BY <1>1 DEF ThreadRuns, TaskInv, Threads
<1>3. depth[th] = 0
  <2>1. Delegated(th) = {}
    BY <1>2 DEF Delegated
  <2> QED
    BY <2>1, FS_EmptySet DEF TaskInv, DepthExact
<1>4. depth' = [depth EXCEPT ![th] = IF "nest" = "delegate" THEN @ + 1 ELSE @]
  BY <1>3 DEF ThreadRuns, DepthAtStart
<1>5. /\ Push(th, "nest", t) /\ Enter(t) /\ Accept(th, t)
      /\ UNCHANGED <<pending, spawned, refused>>
  BY <1>1 DEF ThreadRuns
<1> QED
  BY <1>1, <1>2, <1>4, <1>5, EnterStep

LEMMA NewThreadStep ==
  ASSUME TaskInv, NEW th \in Thread, NEW t \in Task, NewThread(th, t)
  PROVE  TaskInv'
<1>1. PICK new \in Thread \ {Main} :
        spawned[new] = None /\ spawned' = [spawned EXCEPT ![new] = t]
  BY DEF NewThread
<1>2. UNCHANGED <<calls, depth, pending, out, place, refused>>
  BY DEF NewThread
<1>3. spawned'[new] = t /\ \A uh \in Thread \ {new} : spawned'[uh] = spawned[uh]
  BY <1>1 DEF TaskInv, TypeOK
<1>4. \A uh \in Thread : spawned[uh] # t
  BY DEF NewThread, Fresh, Submitted
<1>5. calls[new] = <<>>
  BY <1>1 DEF TaskInv, Threads
<1>6. Threads'
  <2>1. spawned'[Main] = None
    BY <1>1, <1>3, TrampolineAssumption DEF TaskInv, Threads
  <2>2. \A ah \in Thread, uh \in Thread :
          spawned'[ah] = spawned'[uh] => spawned'[ah] = None \/ ah = uh
    BY <1>3, <1>4 DEF TaskInv, Threads
  <2>3. \A uh \in Thread :
          /\ uh # Main /\ calls'[uh] # <<>> => spawned'[uh] # None
          /\ spawned'[uh] # None /\ calls'[uh] # <<>> => place'[spawned'[uh]] # None
    BY <1>2, <1>3, <1>5 DEF TaskInv, Threads
  <2> QED
    BY <2>1, <2>2, <2>3 DEF Threads
<1>7. TypeOK'
  BY <1>1, <1>2 DEF TaskInv, TypeOK
<1> QED
  BY <1>2, <1>6, <1>7
  DEF TaskInv, Stacks, DepthExact, Delegated, Positions, Located

LEMMA NextInv == TaskInv /\ [Next]_vars => TaskInv'
<1> SUFFICES ASSUME TaskInv, [Next]_vars PROVE TaskInv'
  OBVIOUS
<1>1. CASE UNCHANGED vars
  BY <1>1
  DEF vars, TaskInv, TypeOK, Threads, Stacks, DepthExact, Delegated, Positions, Located
<1>2. ASSUME NEW th \in Thread, NEW t \in Task,
             \/ Own(th, t) \/ DelegateInPlace(th, t) \/ DelegateDeferred(th, t)
             \/ NestInPlace(th, t) \/ NestQueued(th, t) \/ InlineSubmit(th, t)
             \/ Refuse(th, t) \/ NewThread(th, t)
      PROVE  TaskInv'
  <2>1. CASE Own(th, t)
    BY <2>1, OwnStep
  <2>2. CASE DelegateInPlace(th, t)
    <3>1. depth' = [depth EXCEPT ![th] = IF "delegate" = "delegate" THEN @ + 1 ELSE @]
      BY <2>2 DEF DelegateInPlace
    <3>2. place[t] = None /\ depth[th] < Limit /\ calls[th] # <<>>
      BY <2>2 DEF DelegateInPlace, Fresh, Submitted, InPlace, Running, is_owned
    <3> QED
      BY <2>2, <3>1, <3>2, EnterStep DEF DelegateInPlace
  <2>3. CASE DelegateDeferred(th, t)
    BY <2>3, DeferStep DEF DelegateDeferred, Fresh, Submitted
  <2>4. CASE NestInPlace(th, t)
    <3>1. depth' = [depth EXCEPT ![th] = IF "nest" = "delegate" THEN @ + 1 ELSE @]
      BY <2>4 DEF NestInPlace, TaskInv, TypeOK
    <3>2. place[t] = None /\ calls[th] # <<>>
      BY <2>4 DEF NestInPlace, Fresh, Submitted, Running, is_owned
    <3> QED
      BY <2>4, <3>1, <3>2, EnterStep DEF NestInPlace
  <2>5. CASE NestQueued(th, t)
    BY <2>5, DeferStep DEF NestQueued, Fresh, Submitted
  <2>6. CASE InlineSubmit(th, t)
    <3>1. depth' = [depth EXCEPT ![th] = IF "inline" = "delegate" THEN @ + 1 ELSE @]
      BY <2>6 DEF InlineSubmit, TaskInv, TypeOK
    <3>2. place[t] = None /\ calls[th] # <<>>
      BY <2>6 DEF InlineSubmit, Fresh, Submitted, Running, is_owned
    <3> QED
      BY <2>6, <3>1, <3>2, EnterStep DEF InlineSubmit
  <2>7. CASE Refuse(th, t)
    <3>1. UNCHANGED <<calls, depth, pending, out, place, spawned>> /\ refused' = refused \cup {t}
      BY <2>7 DEF Refuse
    <3>2. TypeOK'
      BY <3>1 DEF TaskInv, TypeOK
    <3> QED
      BY <3>1, <3>2
      DEF TaskInv, Threads, Stacks, DepthExact, Delegated, Positions, Located
  <2>8. CASE NewThread(th, t)
    BY <2>8, NewThreadStep
  <2> QED
    BY <1>2, <2>1, <2>2, <2>3, <2>4, <2>5, <2>6, <2>7, <2>8
<1> QED
  BY <1>1, <1>2, ThreadRunsStep, TaskEndsStep, DrainStep, NestReturnsStep DEF Next

-----------------------------------------------------------------------------
\* Stacks, depths and deferred work keep their types, and every task its one place: the
\* inductive invariant of the trampoline.
THEOREM TasksCorrect == Spec => []TaskInv
BY InitInv, NextInv, PTL DEF Spec

\* However tasks end, are refused, deferred or drained, depth is the number of delegated
\* calls on the stack of a thread, so there are never more of them than the limit.
THEOREM DepthCorrect ==
  Spec => [](DepthExact /\ \A th \in Thread : Cardinality(Delegated(th)) <= Limit)
<1>1. TaskInv => DepthExact /\ \A th \in Thread : Cardinality(Delegated(th)) <= Limit
  BY TrampolineAssumption DEF TaskInv, TypeOK, DepthExact
<1> QED
  BY <1>1, TasksCorrect, PTL

LEMMA OncePlaced == TaskInv => RunsOnce
<1> SUFFICES ASSUME TaskInv, NEW t \in Task
             PROVE  /\ out[t].n <= 1
                    /\ \A th \in Thread :
                         Places(th, t) = IF place[t] = th /\ ~Ended(out[t]) THEN 1 ELSE 0
  BY DEF RunsOnce
<1>1. t # None /\ place[t] \in Thread \cup {None} /\ None \notin Thread
  BY TrampolineAssumption DEF Task, TaskInv, TypeOK
<1>2. out[t].n <= 1
  <2>1. out[t].n = 0 \/ out[t].n = 1
    BY <1>1, ReceiverFacts DEF TaskInv, Located, Positions
  <2> QED
    BY <2>1
<1>3. ASSUME NEW th \in Thread
      PROVE  Places(th, t) = IF place[t] = th /\ ~Ended(out[t]) THEN 1 ELSE 0
  <2> DEFINE C == {i \in 1..Len(calls[th]) : calls[th][i].task = t}
             P == {i \in 1..Len(pending[th]) : pending[th][i] = t}
  <2>1. ASSUME NEW i \in C PROVE C = {i}
    BY <1>1 DEF TaskInv, Positions
  <2>2. ASSUME NEW i \in P PROVE P = {i}
    BY DEF TaskInv, Positions
  <2>3. C # {} => place[t] = th /\ out[t] = Value(NewReceiver)
    BY <1>1 DEF TaskInv, Positions
  <2>4. P # {} => place[t] = th /\ out[t] = NewReceiver
    BY DEF TaskInv, Positions
  <2>5. place[t] = th /\ ~Ended(out[t]) => C # {} \/ P # {}
    BY <1>1 DEF TaskInv, Located
  <2>6. Places(th, t) = Cardinality(C) + Cardinality(P)
    BY DEF Places
  <2>7. /\ C = {} => Cardinality(C) = 0
        /\ C # {} => Cardinality(C) = 1
        /\ P = {} => Cardinality(P) = 0
        /\ P # {} => Cardinality(P) = 1
    <3> HIDE DEF C, P
    <3> QED
      BY <2>1, <2>2, FS_EmptySet, FS_Singleton
  <2> HIDE DEF C, P
  <2>8. ~Ended(NewReceiver) /\ ~Ended(Value(NewReceiver)) /\ NewReceiver # Value(NewReceiver)
    BY ReceiverFacts
  <2>9. CASE C # {}
    BY <2>3, <2>4, <2>6, <2>7, <2>8, <2>9
  <2>10. CASE C = {}
    BY <2>4, <2>5, <2>6, <2>7, <2>8, <2>10
  <2> QED
    BY <2>9, <2>10
<1> QED
  BY <1>2, <1>3

\* A task that was accepted is on the stack or among the deferred work of one thread, once,
\* until it has ended, and its value function is called at most once.
THEOREM RunsOnceCorrect == Spec => []RunsOnce
BY TasksCorrect, OncePlaced, PTL

-----------------------------------------------------------------------------
(* Bulk: the invariant. *)

Begun == {"queued", "loaded", "threw", "stores", "counts"}

\* The tasks that have not counted themselves off.
Outstanding == {i \in Index : step[i] \in Begun}

BulkType ==
  /\ target \in {"inline", "naive"} /\ input \in {"value", "error", "done"}
  /\ sending \in {"new", "value", "sent"} /\ empty \in BOOLEAN
  /\ root \in {"none", "queued", "loop", "ended", "failing"}
  /\ idx \in 1..(Length + 1)
  /\ step \in [Index -> Begun \cup {"none", "ended"}]
  /\ old \in [Index -> SUBSET Index]
  /\ acc \subseteq Index
  /\ left \in Nat /\ exceptions \in Nat /\ first \in 0..Length
  /\ finishing \in {"no", "result", "done", "finished"}
  /\ dest \in {NewReceiver, Value(NewReceiver), Done(Value(NewReceiver)), Done(NewReceiver),
               Error(NewReceiver, "error"), Error(NewReceiver, "thrown")}
  /\ aborted \in BOOLEAN

\* No task of an index exists.
Quiet ==
  /\ idx = 1 /\ left = 1 /\ exceptions = 0 /\ first = 0 /\ finishing = "no"
  /\ acc = {} /\ \A i \in Index : step[i] = "none"

\* The sender, and the task with the loop before it runs.
Begins ==
  /\ sending = "new" => root = "none" /\ empty /\ dest = NewReceiver
  /\ sending # "new" /\ input = "value" => ~empty
  /\ sending = "value" => input = "value"
  /\ input # "value" => root = "none"
  /\ root \in {"none", "queued", "failing"} => Quiet
  /\ root \in {"queued", "failing"} => target = "naive"
  /\ root \in {"queued", "failing", "loop"} => dest = NewReceiver

\* pending counts the tasks that exist, and the one with the loop; with none left, none is
\* to come.  An exception that was counted has been stored or is about to be.
NaiveCounts ==
  /\ ~aborted => left = Cardinality(Outstanding) + (IF root = "loop" THEN 1 ELSE 0)
  /\ finishing = "no" <=> left > 0
  /\ root = "ended" => idx = Length + 1
  /\ \A i \in Index : step[i] = "none" <=> i >= idx
  /\ \A i \in Called \ acc : step[i] = "threw" \/ exceptions > 0
  /\ exceptions > 0 => first # 0 \/ \E i \in Index : step[i] = "stores"
  /\ finishing \in {"no", "result"} => dest = NewReceiver

Naive ==
  target = "naive" /\ root \in {"loop", "ended"} => (root = "ended" /\ Quiet) \/ NaiveCounts

\* The loop of the inline target has called the function for the indices before idx.
InlineCalls ==
  target = "inline" =>
    /\ \A i \in Index : step[i] \in {"none", "ended"}
    /\ root = "loop" => /\ finishing = "no" /\ first = 0 /\ acc = 1..(idx - 1)
                        /\ \A i \in Index : step[i] = "ended" <=> i < idx
    /\ finishing = "result" => /\ root = "ended" /\ dest = NewReceiver
                               /\ \/ first = 0 /\ acc = Index /\ Called = Index
                                  \/ first # 0 /\ first \in Called \ acc

BulkInv ==
  /\ BulkType /\ Begins /\ Naive /\ InlineCalls
  /\ acc \subseteq Called
  /\ finishing = "done" => dest \in {Value(NewReceiver), Error(NewReceiver, "thrown")}

-----------------------------------------------------------------------------
(* The receivers a bulk operation can leave behind, and what they stand for. *)

LEMMA DestFacts ==
  /\ NewReceiver.n = 0 /\ NewReceiver.end = "none"
  /\ Value(NewReceiver).n = 1 /\ Value(NewReceiver).end = "none"
  /\ Done(Value(NewReceiver)).n = 1 /\ Done(Value(NewReceiver)).end = "done"
  /\ Done(NewReceiver).n = 0 /\ Done(NewReceiver).end = "done"
  /\ Error(NewReceiver, "error").n = 0 /\ Error(NewReceiver, "error").end = "error"
  /\ Error(NewReceiver, "thrown").n = 0 /\ Error(NewReceiver, "thrown").end = "thrown"
  /\ set_error(NewReceiver, "error") = Error(NewReceiver, "error")
  /\ set_error(NewReceiver, "thrown") = Error(NewReceiver, "thrown")
  /\ set_done(NewReceiver) = Done(NewReceiver)
  /\ set_done(Value(NewReceiver)) = Done(Value(NewReceiver))
  /\ set_done(Error(NewReceiver, "thrown")) = Error(NewReceiver, "thrown")
  /\ \A throws \in BOOLEAN :
       set_value(NewReceiver, throws)
         = IF throws THEN Error(NewReceiver, "thrown") ELSE Value(NewReceiver)
<1>1. NewReceiver \in ReceiverType /\ NewReceiver.n = 0 /\ ~NewReceiver.done /\ NewReceiver.end = "none"
  BY DEF NewReceiver, ReceiverType, Ends
<1>2. /\ Value(NewReceiver) \in ReceiverType /\ ~Value(NewReceiver).done
      /\ Value(NewReceiver).n = 1 /\ Value(NewReceiver).end = "none"
  BY <1>1, ReceiverCalls
<1>3. /\ Done(NewReceiver).n = 0 /\ Done(NewReceiver).end = "done"
      /\ Error(NewReceiver, "error").n = 0 /\ Error(NewReceiver, "error").end = "error"
      /\ Error(NewReceiver, "thrown").n = 0 /\ Error(NewReceiver, "thrown").end = "thrown"
      /\ Error(NewReceiver, "thrown").done /\ Error(NewReceiver, "thrown") \in ReceiverType
  BY <1>1, ReceiverCalls DEF Errors
<1>4. Done(Value(NewReceiver)).n = 1 /\ Done(Value(NewReceiver)).end = "done"
  BY <1>2, ReceiverCalls
<1>5. Done(Error(NewReceiver, "thrown")) = Error(NewReceiver, "thrown")
  BY <1>3, ReceiverCalls
<1>6. \A throws \in BOOLEAN :
        set_value(NewReceiver, throws)
          = IF throws THEN Error(NewReceiver, "thrown") ELSE Value(NewReceiver)
  BY <1>1 DEF set_value
<1> QED
  BY <1>1, <1>2, <1>3, <1>4, <1>5, <1>6 DEF set_error, set_done

LEMMA ResultFacts ==
  /\ dest = NewReceiver => Result = "none"
  /\ dest \in {Value(NewReceiver), Done(Value(NewReceiver))} => Result = "value"
  /\ dest = Done(NewReceiver) => Result = "done"
  /\ dest \in {Error(NewReceiver, "error"), Error(NewReceiver, "thrown")} => Result = "error"
BY DestFacts DEF Result, Errors

LEMMA ResultFactsNext ==
  /\ dest' = NewReceiver => Result' = "none"
  /\ dest' \in {Value(NewReceiver), Done(Value(NewReceiver))} => Result' = "value"
  /\ dest' = Done(NewReceiver) => Result' = "done"
  /\ dest' \in {Error(NewReceiver, "error"), Error(NewReceiver, "thrown")} => Result' = "error"
BY DestFacts DEF Result, Errors

LEMMA AbstractStutter ==
  ASSUME UNCHANGED <<acc, dest>>, Called' = Called
  PROVE  UNCHANGED Abstract!vars
BY DEF Abstract!vars, Result

-----------------------------------------------------------------------------
LEMMA BulkInitInv == BulkInit => BulkInv /\ Abstract!Init
<1> SUFFICES ASSUME BulkInit PROVE BulkInv /\ Abstract!Init
  OBVIOUS
<1>1. Quiet
  BY DEF BulkInit, Quiet
<1>2. BulkType
  <2>1. 1 \in 1..(Length + 1) /\ 0 \in 0..Length
    BY BulkAssumption
  <2>2. [i \in Index |-> "none"] \in [Index -> Begun \cup {"none", "ended"}]
    OBVIOUS
  <2>3. [i \in Index |-> {}] \in [Index -> SUBSET Index]
    OBVIOUS
  <2> QED
    BY <2>1, <2>2, <2>3 DEF BulkInit, BulkType
<1>3. Called = {}
  BY DEF BulkInit, Called
<1>4. BulkInv
  BY <1>1, <1>2, <1>3 DEF BulkInit, BulkInv, Begins, Naive, InlineCalls
<1>5. Abstract!Init
  BY <1>3, ResultFacts DEF BulkInit, Abstract!Init
<1> QED
  BY <1>4, <1>5

LEMMA BulkValueStep ==
  ASSUME BulkInv, BulkValue
  PROVE  BulkInv' /\ UNCHANGED Abstract!vars
<1> USE DEF BulkInv, BulkValue, inputVars, loopVars, taskVars, state
<1>1. root = "none" /\ dest = NewReceiver /\ Quiet
  BY DEF Begins
<1>2. Called' = Called
  BY DEF Called
<1>3. Quiet'
  BY <1>1 DEF Quiet
<1>4. BulkType'
  BY DEF BulkType
<1>5. root' \in {"none", "queued", "failing"} \/ (root' = "loop" /\ target = "inline")
  BY <1>1
<1>6. Begins'
  BY <1>1, <1>3, <1>4, <1>5 DEF Begins, BulkType
<1>7. Naive'
  BY <1>5 DEF Naive
<1>8. InlineCalls'
  <2>1. \A i \in Index : i >= 1
    BY BulkAssumption DEF Index
  <2>2. 1..(1 - 1) = {}
    OBVIOUS
  <2>3. idx' = 1 /\ acc' = 1..(idx' - 1)
    BY <1>3, <2>2 DEF Quiet
  <2>4. \A i \in Index : ~(i < idx')
    BY <2>1, <2>3 DEF Index
  <2> QED
    BY <1>3, <2>3, <2>4 DEF InlineCalls, Quiet
<1>9. BulkInv'
  BY <1>1, <1>2, <1>3, <1>4, <1>6, <1>7, <1>8 DEF Quiet
<1> QED
  BY <1>2, <1>9, AbstractStutter

LEMMA BulkCompletesStep ==
  ASSUME BulkInv, BulkCompletes
  PROVE  BulkInv' /\ [Abstract!Next]_(Abstract!vars)
<1> USE DEF BulkInv, inputVars, loopVars, taskVars, state
<1>1. UNCHANGED <<target, input, empty, root, idx, step, old, acc, left, exceptions, first,
                  finishing, aborted>>
  BY DEF BulkCompletes
<1>2. Called' = Called /\ (Quiet => Quiet')
  BY <1>1 DEF Called, Quiet
<1>3. CASE sending = "new" /\ input # "value"
  <2>1. /\ root = "none" /\ dest = NewReceiver /\ Quiet /\ input \in {"error", "done"} /\ empty
        /\ sending' = "sent"
        /\ dest' = IF input = "error" THEN set_error(dest, "error") ELSE set_done(dest)
    BY <1>3 DEF Begins, BulkCompletes, BulkType
  <2>2. dest' \in {Error(NewReceiver, "error"), Done(NewReceiver)}
    BY <2>1, DestFacts
  <2>3. BulkType'
    BY <1>1, <2>1, <2>2 DEF BulkType
  <2>4. Begins'
    BY <1>1, <1>2, <1>3, <2>1 DEF Begins
  <2>5. Naive' /\ InlineCalls'
    BY <1>1, <1>2, <2>1 DEF Naive, InlineCalls, Quiet
  <2>6. BulkInv'
    BY <1>1, <1>2, <2>1, <2>3, <2>4, <2>5 DEF Quiet
  <2>7. Called = {}
    BY <2>1 DEF Quiet, Called
  <2>8. Result = "none" /\ Result' \in {"error", "done"}
    BY <2>1, <2>2, ResultFacts, ResultFactsNext
  <2>9. Abstract!Fail \/ Abstract!Pass
    BY <1>1, <1>2, <2>7, <2>8 DEF Abstract!Fail, Abstract!Pass
  <2> QED
    BY <2>6, <2>9 DEF Abstract!Next
<1>4. CASE sending = "value"
  <2>1. dest' = dest /\ input = "value" /\ ~empty /\ sending' = "sent"
    BY <1>4 DEF Begins, BulkCompletes
  <2>2. BulkInv'
    BY <1>1, <1>2, <1>4, <2>1
    DEF BulkType, Begins, Naive, NaiveCounts, Outstanding, InlineCalls
  <2> QED
    BY <1>1, <1>2, <2>1, <2>2, AbstractStutter
<1> QED
  BY <1>3, <1>4 DEF BulkCompletes

-----------------------------------------------------------------------------
(* naive_executor_bulk_target *)

LEMMA OutstandingFinite ==
  /\ IsFiniteSet(Outstanding) /\ Cardinality(Outstanding) \in Nat
  /\ \A i \in Outstanding : Cardinality(Outstanding) >= 1
  /\ Cardinality(Outstanding) = 0 => Outstanding = {}
<1>1. IsFiniteSet(Index)
  BY BulkAssumption, FS_Interval DEF Index
<1>2. Outstanding \in SUBSET Index
  BY DEF Outstanding
<1>3. IsFiniteSet(Outstanding) /\ Cardinality(Outstanding) \in Nat
  BY <1>1, <1>2, FS_Subset, FS_CardinalityType
<1>4. Cardinality(Outstanding) = 0 <=> Outstanding = {}
  BY <1>3, FS_EmptySet
<1> QED
  BY <1>3, <1>4

\* While a task exists the receiver has not been given anything.
LEMMA TaskExists ==
  ASSUME BulkInv, ~aborted, NEW i \in Index, step[i] \in Begun
  PROVE  /\ target = "naive" /\ root \in {"loop", "ended"} /\ NaiveCounts
         /\ finishing = "no" /\ dest = NewReceiver /\ left >= 1 /\ i \in Outstanding
<1>1. target = "naive"
  BY DEF BulkInv, InlineCalls, BulkType, Begun
<1>2. ~Quiet
  BY DEF Quiet, Begun
<1>3. root \in {"loop", "ended"}
  BY <1>2 DEF BulkInv, Begins, BulkType
<1>4. NaiveCounts
  BY <1>1, <1>2, <1>3 DEF BulkInv, Naive
<1>5. i \in Outstanding
  BY DEF Outstanding
<1>6. left >= 1 /\ left > 0
  BY <1>4, <1>5, OutstandingFinite DEF NaiveCounts
<1>7. finishing = "no" /\ dest = NewReceiver
  BY <1>4, <1>6 DEF NaiveCounts
<1> QED
  BY <1>1, <1>3, <1>4, <1>5, <1>6, <1>7

\* A step of a task that stays in being keeps the invariant if the exceptions are
\* accounted for.
LEMMA TaskMoves ==
  ASSUME BulkInv, ~aborted, NEW i \in Index, step[i] \in Begun, NEW x \in Begun,
         step' = [step EXCEPT ![i] = x],
         UNCHANGED <<inputVars, loopVars, left, finishing, dest, aborted>>,
         acc' \subseteq Index, exceptions' \in Nat, first' \in 0..Length,
         old' \in [Index -> SUBSET Index],
         acc' \subseteq Called',
         \A j \in Called' \ acc' : step'[j] = "threw" \/ exceptions' > 0,
         exceptions' > 0 => first' # 0 \/ \E j \in Index : step'[j] = "stores"
  PROVE  BulkInv'
<1> USE DEF inputVars, loopVars
<1>1. /\ target = "naive" /\ root \in {"loop", "ended"} /\ NaiveCounts
      /\ finishing = "no" /\ dest = NewReceiver /\ left >= 1 /\ i \in Outstanding
  BY TaskExists
<1>2. step'[i] = x /\ \A j \in Index \ {i} : step'[j] = step[j]
  BY DEF BulkInv, BulkType
<1>3. Outstanding' = Outstanding
  BY <1>2 DEF Outstanding
<1>4. BulkType'
  <2>1. step' \in [Index -> Begun \cup {"none", "ended"}]
    BY DEF BulkInv, BulkType
  <2>2. BulkType
    BY DEF BulkInv
  <2> HIDE DEF BulkInv
  <2> QED
    BY <2>1, <2>2 DEF BulkType
<1>5. \A j \in Index : step'[j] = "none" <=> step[j] = "none"
  BY <1>2 DEF Begun
<1>6. NaiveCounts'
  BY <1>1, <1>3, <1>5 DEF NaiveCounts
<1>7. Begins'
  <2>1. sending # "new"
    BY <1>1 DEF BulkInv, Begins
  <2> QED
    BY <1>1, <2>1 DEF BulkInv, Begins
<1>8. Naive' /\ InlineCalls'
  BY <1>1, <1>6 DEF Naive, InlineCalls
<1> QED
  BY <1>1, <1>4, <1>7, <1>8 DEF BulkInv

LEMMA LoadStep ==
  ASSUME BulkInv, NEW i \in Index, Load(i)
  PROVE  BulkInv' /\ UNCHANGED Abstract!vars
<1>1. /\ ~aborted /\ step[i] = "queued" /\ step' = [step EXCEPT ![i] = "loaded"]
      /\ old' = [old EXCEPT ![i] = acc]
      /\ UNCHANGED <<inputVars, loopVars, acc, left, exceptions, first, finishing, dest, aborted>>
  BY DEF Load, state
<1>2. step[i] \in Begun /\ "loaded" \in Begun
  BY <1>1 DEF Begun
<1>3. step'[i] = "loaded" /\ \A j \in Index \ {i} : step'[j] = step[j]
  BY <1>1 DEF BulkInv, BulkType
<1>4. Called' = Called
  BY <1>1, <1>3 DEF Called
<1>5. NaiveCounts
  BY <1>1, <1>2, TaskExists
<1>6. old' \in [Index -> SUBSET Index]
  BY <1>1 DEF BulkInv, BulkType
<1>7. \A j \in Called' \ acc' : step'[j] = "threw" \/ exceptions' > 0
  BY <1>1, <1>3, <1>4, <1>5 DEF NaiveCounts, Called
<1>8. exceptions' > 0 => first' # 0 \/ \E j \in Index : step'[j] = "stores"
  BY <1>1, <1>3, <1>5 DEF NaiveCounts
<1>9. BulkInv'
  BY <1>1, <1>2, <1>4, <1>6, <1>7, <1>8, TaskMoves DEF BulkInv, BulkType
<1> QED
  BY <1>1, <1>4, <1>9, AbstractStutter

LEMMA CompareExchangeStep ==
  ASSUME BulkInv, NEW i \in Index, CompareExchange(i)
  PROVE  BulkInv' /\ [Abstract!Next]_(Abstract!vars)
<1>1. /\ ~aborted /\ step[i] = "loaded"
      /\ UNCHANGED <<inputVars, loopVars, left, exceptions, first, finishing, dest, aborted>>
  BY DEF CompareExchange
<1>2. step[i] \in Begun /\ "loaded" \in Begun /\ "counts" \in Begun
  BY <1>1 DEF Begun
<1>3. NaiveCounts /\ dest = NewReceiver
  BY <1>1, <1>2, TaskExists
<1>4. CASE acc = old[i] /\ acc' = acc \cup {i} /\ step' = [step EXCEPT ![i] = "counts"] /\ UNCHANGED old
  <2>1. step'[i] = "counts" /\ \A j \in Index \ {i} : step'[j] = step[j]
    BY <1>4 DEF BulkInv, BulkType
  <2>2. Called' = Called \cup {i} /\ i \notin Called
    BY <1>1, <2>1 DEF Called
  <2>3. Called' \ acc' = Called \ acc
    BY <1>4, <2>2 DEF BulkInv
  <2>4. \A j \in Called' \ acc' : step'[j] = "threw" \/ exceptions' > 0
    BY <1>1, <1>3, <2>1, <2>2, <2>3 DEF NaiveCounts, Called
  <2>5. exceptions' > 0 => first' # 0 \/ \E j \in Index : step'[j] = "stores"
    BY <1>1, <1>3, <2>1 DEF NaiveCounts
  <2>6. acc' \subseteq Called' /\ acc' \subseteq Index
    BY <1>4, <2>2 DEF BulkInv, BulkType
  <2>7. BulkInv'
    BY <1>1, <1>2, <1>4, <2>4, <2>5, <2>6, TaskMoves DEF BulkInv, BulkType
  <2>8. Result = "none" /\ Result' = "none"
    BY <1>1, <1>3, ResultFacts, ResultFactsNext
  <2>9. Abstract!Call(i)
    BY <1>4, <2>2, <2>3, <2>8 DEF Abstract!Call
  <2> QED
    BY <2>7, <2>9 DEF Abstract!Next
<1>5. CASE acc # old[i] /\ old' = [old EXCEPT ![i] = acc] /\ UNCHANGED <<acc, step>>
  <2>1. Called' = Called /\ Outstanding' = Outstanding
    BY <1>5 DEF Called, Outstanding
  <2>2. BulkType'
    BY <1>1, <1>5 DEF BulkInv, BulkType, inputVars, loopVars
  <2>3. BulkInv'
    BY <1>1, <1>5, <2>1, <2>2
    DEF BulkInv, Begins, Quiet, Naive, NaiveCounts, InlineCalls, inputVars, loopVars
  <2> QED
    BY <1>1, <1>5, <2>1, <2>3, AbstractStutter
<1> QED
  BY <1>4, <1>5 DEF CompareExchange

LEMMA FunctionThrowsStep ==
  ASSUME BulkInv, NEW i \in Index, FunctionThrows(i)
  PROVE  BulkInv' /\ [Abstract!Next]_(Abstract!vars)
<1>1. /\ ~aborted /\ step[i] = "loaded" /\ step' = [step EXCEPT ![i] = "threw"]
      /\ UNCHANGED <<inputVars, loopVars, old, acc, left, exceptions, first, finishing, dest, aborted>>
  BY DEF FunctionThrows, state
<1>2. step[i] \in Begun /\ "threw" \in Begun
  BY <1>1 DEF Begun
<1>3. NaiveCounts /\ dest = NewReceiver
  BY <1>1, <1>2, TaskExists
<1>4. step'[i] = "threw" /\ \A j \in Index \ {i} : step'[j] = step[j]
  BY <1>1 DEF BulkInv, BulkType
<1>5. Called' = Called \cup {i} /\ i \notin Called
  BY <1>1, <1>4 DEF Called
<1>6. \A j \in Called' \ acc' : step'[j] = "threw" \/ exceptions' > 0
  BY <1>1, <1>3, <1>4, <1>5 DEF NaiveCounts, Called
<1>7. exceptions' > 0 => first' # 0 \/ \E j \in Index : step'[j] = "stores"
  BY <1>1, <1>3, <1>4 DEF NaiveCounts
<1>8. acc' \subseteq Called' /\ i \notin acc
  BY <1>1, <1>5 DEF BulkInv
<1>9. BulkInv'
  BY <1>1, <1>2, <1>6, <1>7, <1>8, TaskMoves DEF BulkInv, BulkType
<1>10. Result = "none" /\ Result' = "none"
  BY <1>1, <1>3, ResultFacts, ResultFactsNext
<1>11. Abstract!Call(i)
  <2>1. i \in Called' \ acc'
    BY <1>1, <1>5, <1>8
  <2> QED
    BY <1>1, <1>5, <1>10, <2>1 DEF Abstract!Call
<1> QED
  BY <1>9, <1>11 DEF Abstract!Next

LEMMA CountExceptionStep ==
  ASSUME BulkInv, NEW i \in Index, CountException(i)
  PROVE  BulkInv' /\ UNCHANGED Abstract!vars
<1> DEFINE x == IF exceptions = 0 THEN "stores" ELSE "counts"
<1>1. /\ ~aborted /\ step[i] = "threw" /\ step' = [step EXCEPT ![i] = x]
      /\ exceptions' = exceptions + 1
      /\ UNCHANGED <<inputVars, loopVars, old, acc, left, first, finishing, dest, aborted>>
  BY DEF CountException
<1>2. step[i] \in Begun /\ x \in Begun
  BY <1>1 DEF Begun
<1>3. NaiveCounts
  BY <1>1, <1>2, TaskExists
<1>4. step'[i] = x /\ \A j \in Index \ {i} : step'[j] = step[j]
  BY <1>1 DEF BulkInv, BulkType
<1>5. Called' = Called
  BY <1>1, <1>4 DEF Called
<1>6. exceptions \in Nat /\ exceptions' > 0 /\ exceptions' \in Nat
  BY <1>1 DEF BulkInv, BulkType
<1>7. first' # 0 \/ \E j \in Index : step'[j] = "stores"
  <2>1. CASE exceptions = 0
    BY <1>4, <2>1
  <2>2. CASE exceptions > 0
    BY <1>1, <1>3, <1>4, <2>2 DEF NaiveCounts
  <2> QED
    BY <1>6, <2>1, <2>2
<1> HIDE DEF x
<1>8. BulkInv'
  BY <1>1, <1>2, <1>5, <1>6, <1>7, TaskMoves DEF BulkInv, BulkType
<1> QED
  BY <1>1, <1>5, <1>8, AbstractStutter

LEMMA StoreExceptionStep ==
  ASSUME BulkInv, NEW i \in Index, StoreException(i)
  PROVE  BulkInv' /\ UNCHANGED Abstract!vars
<1>1. /\ ~aborted /\ step[i] = "stores" /\ step' = [step EXCEPT ![i] = "counts"]
      /\ first' = i
      /\ UNCHANGED <<inputVars, loopVars, old, acc, left, exceptions, finishing, dest, aborted>>
  BY DEF StoreException
<1>2. step[i] \in Begun /\ "counts" \in Begun
  BY <1>1 DEF Begun
<1>3. NaiveCounts
  BY <1>1, <1>2, TaskExists
<1>4. step'[i] = "counts" /\ \A j \in Index \ {i} : step'[j] = step[j]
  BY <1>1 DEF BulkInv, BulkType
<1>5. Called' = Called
  BY <1>1, <1>4 DEF Called
<1>6. first' # 0 /\ first' \in 0..Length
  BY <1>1, BulkAssumption DEF Index
<1>7. \A j \in Called' \ acc' : step'[j] = "threw" \/ exceptions' > 0
  BY <1>1, <1>3, <1>4, <1>5 DEF NaiveCounts, Called
<1>8. BulkInv'
  BY <1>1, <1>2, <1>5, <1>6, <1>7, TaskMoves DEF BulkInv, BulkType
<1> QED
  BY <1>1, <1>5, <1>8, AbstractStutter

\* The task that counts pending down to zero is the last one, after the loop.
LEMMA TaskDoneStep ==
  ASSUME BulkInv, NEW i \in Index, TaskDone(i)
  PROVE  BulkInv' /\ UNCHANGED Abstract!vars
<1> USE DEF inputVars, loopVars
<1>1. /\ ~aborted /\ step[i] = "counts" /\ step' = [step EXCEPT ![i] = "ended"]
      /\ left' = left - 1 /\ finishing' = IF left = 1 THEN "result" ELSE finishing
      /\ UNCHANGED <<inputVars, loopVars, old, acc, exceptions, first, dest, aborted>>
  BY DEF TaskDone, StepDone
<1>2. step[i] \in Begun
  BY <1>1 DEF Begun
<1>3. /\ target = "naive" /\ root \in {"loop", "ended"} /\ NaiveCounts
      /\ finishing = "no" /\ dest = NewReceiver /\ left >= 1 /\ i \in Outstanding
  BY <1>1, <1>2, TaskExists
<1>4. step'[i] = "ended" /\ \A j \in Index \ {i} : step'[j] = step[j]
  BY <1>1 DEF BulkInv, BulkType
<1>5. Called' = Called
  BY <1>1, <1>4 DEF Called
<1>6. Outstanding' = Outstanding \ {i}
  BY <1>4 DEF Outstanding, Begun
<1>7. Cardinality(Outstanding') = Cardinality(Outstanding) - 1
  BY <1>3, <1>6, OutstandingFinite, FS_RemoveElement
<1>8. left \in Nat /\ left' \in Nat /\ (finishing' = "no" <=> left' > 0)
  BY <1>1, <1>3 DEF BulkInv, BulkType
<1>9. BulkType'
  BY <1>1, <1>8 DEF BulkInv, BulkType
<1>10. NaiveCounts'
  <2>1. left' = Cardinality(Outstanding') + (IF root' = "loop" THEN 1 ELSE 0)
    BY <1>1, <1>3, <1>7, OutstandingFinite DEF NaiveCounts
  <2>2. \A j \in Index : step'[j] = "none" <=> j >= idx'
    BY <1>1, <1>3, <1>4 DEF NaiveCounts
  <2>3. \A j \in Called' \ acc' : step'[j] = "threw" \/ exceptions' > 0
    BY <1>1, <1>3, <1>4, <1>5 DEF NaiveCounts, Called
  <2>4. exceptions' > 0 => first' # 0 \/ \E j \in Index : step'[j] = "stores"
    BY <1>1, <1>3, <1>4 DEF NaiveCounts
  <2> QED
    BY <1>1, <1>3, <1>8, <2>1, <2>2, <2>3, <2>4 DEF NaiveCounts
<1>11. Begins' /\ Naive' /\ InlineCalls'
  <2>1. sending # "new"
    BY <1>3 DEF BulkInv, Begins
  <2> QED
    BY <1>1, <1>3, <1>10, <2>1 DEF BulkInv, Begins, Naive, InlineCalls
<1>12. BulkInv'
  BY <1>1, <1>3, <1>5, <1>9, <1>11 DEF BulkInv
<1> QED
  BY <1>1, <1>5, <1>12, AbstractStutter

\* The loop is counted itself, so pending does not reach zero while it submits.
LEMMA LoopRuns ==
  ASSUME BulkInv, ~aborted, target = "naive", root = "loop"
  PROVE  NaiveCounts /\ finishing = "no" /\ dest = NewReceiver /\ left >= 1 /\ sending # "new"
<1>1. NaiveCounts
  BY DEF BulkInv, Naive
<1>2. left >= 1 /\ left > 0
  BY <1>1, OutstandingFinite DEF NaiveCounts
<1> QED
  BY <1>1, <1>2 DEF NaiveCounts, BulkInv, Begins

LEMMA SubmitIndexStep ==
  ASSUME BulkInv, SubmitIndex
  PROVE  BulkInv' /\ UNCHANGED Abstract!vars
<1> USE DEF inputVars
<1>1. /\ ~aborted /\ target = "naive" /\ root = "loop" /\ idx <= Length /\ left' = left + 1
      /\ UNCHANGED <<inputVars, root, old, acc, exceptions, first, finishing, dest>>
  BY DEF SubmitIndex
<1>2. NaiveCounts /\ finishing = "no" /\ dest = NewReceiver /\ left >= 1 /\ sending # "new"
  BY <1>1, LoopRuns
<1>3. idx \in Index /\ left \in Nat /\ left' \in Nat /\ left' > 0
  BY <1>1, BulkAssumption DEF BulkInv, BulkType, Index
<1>4. CASE step' = [step EXCEPT ![idx] = "queued"] /\ idx' = idx + 1 /\ UNCHANGED aborted
  <2>1. step[idx] = "none"
    BY <1>2, <1>3 DEF NaiveCounts, Index
  <2>2. step'[idx] = "queued" /\ \A j \in Index \ {idx} : step'[j] = step[j]
    BY <1>3, <1>4 DEF BulkInv, BulkType
  <2>3. Called' = Called /\ idx \notin Called
    BY <2>1, <2>2 DEF Called
  <2>4. Outstanding' = Outstanding \cup {idx} /\ idx \notin Outstanding
    BY <1>3, <2>1, <2>2 DEF Outstanding, Begun
  <2>5. Cardinality(Outstanding') = Cardinality(Outstanding) + 1
    BY <2>4, OutstandingFinite, FS_AddElement
  <2>6. BulkType'
    <3>1. step' \in [Index -> Begun \cup {"none", "ended"}]
      BY <1>4 DEF BulkInv, BulkType, Begun
    <3>2. idx' \in 1..(Length + 1)
      BY <1>3, <1>4, BulkAssumption DEF Index
    <3> QED
      BY <1>1, <1>3, <1>4, <3>1, <3>2 DEF BulkInv, BulkType
  <2>7. NaiveCounts'
    <3>1. left' = Cardinality(Outstanding') + (IF root' = "loop" THEN 1 ELSE 0)
      BY <1>1, <1>2, <2>5, OutstandingFinite DEF NaiveCounts
    <3>2. \A j \in Index : step'[j] = "none" <=> j >= idx'
      <4>1. SUFFICES ASSUME NEW j \in Index PROVE step'[j] = "none" <=> j >= idx'
        OBVIOUS
      <4>2. step[j] = "none" <=> j >= idx
        BY <1>2 DEF NaiveCounts
      <4>3. j \in Int /\ idx \in Int
        BY <1>3, BulkAssumption DEF Index
      <4> QED
        BY <1>4, <2>2, <4>2, <4>3
    <3>3. \A j \in Called' \ acc' : step'[j] = "threw" \/ exceptions' > 0
      BY <1>1, <1>2, <2>2, <2>3 DEF NaiveCounts, Called
    <3>4. exceptions' > 0 => first' # 0 \/ \E j \in Index : step'[j] = "stores"
      BY <1>1, <1>2, <2>1, <2>2 DEF NaiveCounts
    <3> QED
      BY <1>1, <1>2, <1>3, <3>1, <3>2, <3>3, <3>4 DEF NaiveCounts
  <2>8. Begins' /\ Naive' /\ InlineCalls'
    BY <1>1, <1>2, <2>7 DEF BulkInv, Begins, Naive, InlineCalls
  <2>9. BulkInv'
    BY <1>1, <1>2, <2>3, <2>6, <2>8 DEF BulkInv
  <2> QED
    BY <1>1, <2>3, <2>9, AbstractStutter
<1>5. CASE aborted' = TRUE /\ UNCHANGED <<step, idx>>
  <2>1. Called' = Called /\ BulkType'
    BY <1>1, <1>3, <1>5 DEF BulkInv, BulkType, Called
  <2>2. NaiveCounts'
    BY <1>1, <1>2, <1>3, <1>5, <2>1 DEF NaiveCounts
  <2>3. Begins' /\ Naive' /\ InlineCalls'
    BY <1>1, <1>2, <2>2 DEF BulkInv, Begins, Naive, InlineCalls
  <2>4. BulkInv'
    BY <1>1, <1>2, <2>1, <2>3 DEF BulkInv
  <2> QED
    BY <1>1, <2>1, <2>4, AbstractStutter
<1> QED
  BY <1>4, <1>5 DEF SubmitIndex

LEMMA LoopEndsStep ==
  ASSUME BulkInv, LoopEnds
  PROVE  BulkInv' /\ UNCHANGED Abstract!vars
<1> USE DEF inputVars, taskVars
<1>1. /\ ~aborted /\ target = "naive" /\ root = "loop" /\ idx > Length /\ root' = "ended"
      /\ left' = left - 1 /\ finishing' = IF left = 1 THEN "result" ELSE finishing
      /\ UNCHANGED <<inputVars, idx, taskVars, acc, exceptions, first, dest, aborted>>
  BY DEF LoopEnds, StepDone
<1>2. NaiveCounts /\ finishing = "no" /\ dest = NewReceiver /\ left >= 1 /\ sending # "new"
  BY <1>1, LoopRuns
<1>3. left \in Nat /\ left' \in Nat /\ (finishing' = "no" <=> left' > 0)
  BY <1>1, <1>2 DEF BulkInv, BulkType
<1>4. Called' = Called /\ Outstanding' = Outstanding
  BY <1>1 DEF Called, Outstanding
<1>5. BulkType'
  BY <1>1, <1>3 DEF BulkInv, BulkType
<1>6. NaiveCounts'
  <2>1. idx = Length + 1
    BY <1>1, BulkAssumption DEF BulkInv, BulkType
  <2>2. left' = Cardinality(Outstanding') + (IF root' = "loop" THEN 1 ELSE 0)
    BY <1>1, <1>2, <1>4, OutstandingFinite DEF NaiveCounts
  <2> QED
    BY <1>1, <1>2, <1>3, <1>4, <2>1, <2>2 DEF NaiveCounts
<1>7. Begins' /\ Naive' /\ InlineCalls'
  BY <1>1, <1>2, <1>6 DEF BulkInv, Begins, Naive, InlineCalls
<1>8. BulkInv'
  BY <1>1, <1>2, <1>4, <1>5, <1>7 DEF BulkInv
<1> QED
  BY <1>1, <1>4, <1>8, AbstractStutter

LEMMA RunLoopStep ==
  ASSUME BulkInv, RunLoop
  PROVE  BulkInv' /\ UNCHANGED Abstract!vars
<1> USE DEF inputVars, taskVars, state
<1>1. /\ ~aborted /\ root = "queued" /\ root' = "loop"
      /\ UNCHANGED <<inputVars, idx, taskVars, acc, left, exceptions, first, finishing, dest, aborted>>
  BY DEF RunLoop
<1>2. Quiet /\ target = "naive" /\ dest = NewReceiver /\ sending # "new" /\ input = "value"
  BY <1>1 DEF BulkInv, Begins
<1>3. Called' = Called /\ Called = {}
  BY <1>1, <1>2 DEF Called, Quiet
<1>4. BulkType'
  BY <1>1 DEF BulkInv, BulkType
<1>5. NaiveCounts'
  <2>1. Outstanding' = {}
    BY <1>1, <1>2 DEF Outstanding, Begun, Quiet
  <2>2. Cardinality(Outstanding') = 0
    BY <2>1, FS_EmptySet
  <2>3. \A i \in Index : i >= 1
    BY BulkAssumption DEF Index
  <2> QED
    BY <1>1, <1>2, <1>3, <2>2, <2>3 DEF NaiveCounts, Quiet
<1>6. Begins' /\ Naive' /\ InlineCalls'
  BY <1>1, <1>2, <1>5 DEF BulkInv, Begins, Naive, InlineCalls
<1>7. BulkInv'
  BY <1>1, <1>2, <1>3, <1>4, <1>6 DEF BulkInv, Quiet
<1> QED
  BY <1>1, <1>3, <1>7, AbstractStutter

LEMMA RunFailingStep ==
  ASSUME BulkInv, RunFailing
  PROVE  BulkInv' /\ Abstract!Next
<1> USE DEF inputVars, taskVars, state
<1>1. /\ ~aborted /\ root = "failing" /\ root' = "ended" /\ dest' = set_error(dest, "thrown")
      /\ UNCHANGED <<inputVars, idx, taskVars, acc, left, exceptions, first, finishing, aborted>>
  BY DEF RunFailing
<1>2. Quiet /\ target = "naive" /\ dest = NewReceiver /\ sending # "new" /\ input = "value"
  BY <1>1 DEF BulkInv, Begins
<1>3. Called' = Called /\ Called = {} /\ Quiet'
  BY <1>1, <1>2 DEF Called, Quiet
<1>4. dest' = Error(NewReceiver, "thrown")
  BY <1>1, <1>2, DestFacts
<1>5. BulkType'
  BY <1>1, <1>4 DEF BulkInv, BulkType
<1>6. Begins' /\ Naive' /\ InlineCalls'
  BY <1>1, <1>2, <1>3 DEF BulkInv, Begins, Naive, InlineCalls
<1>7. BulkInv'
  BY <1>1, <1>2, <1>3, <1>5, <1>6 DEF BulkInv, Quiet
<1>8. Result = "none" /\ Result' = "error"
  BY <1>2, <1>4, ResultFacts, ResultFactsNext
<1>9. Abstract!Fail
  BY <1>1, <1>3, <1>8 DEF Abstract!Fail
<1> QED
  BY <1>7, <1>9 DEF Abstract!Next

-----------------------------------------------------------------------------
(* The result. *)

\* When the result is made the function was called for every index, or a call of the
\* inline loop threw; without an exception everything was accumulated.
LEMMA AllCalled ==
  ASSUME BulkInv, ~aborted, finishing = "result"
  PROVE  /\ dest = NewReceiver /\ root = "ended" /\ sending # "new"
         /\ first = 0 => acc = Index /\ Called = Index
         /\ first # 0 => Called = Index \/ Called \ acc # {}
<1>1. ~Quiet
  BY DEF Quiet
<1>2. root \in {"loop", "ended"}
  BY <1>1 DEF BulkInv, Begins, BulkType
<1>3. sending # "new"
  BY <1>2 DEF BulkInv, Begins
<1>4. CASE target = "inline"
  BY <1>3, <1>4 DEF BulkInv, InlineCalls
<1>5. CASE target = "naive"
  <2>1. NaiveCounts
    BY <1>1, <1>2, <1>5 DEF BulkInv, Naive
  <2>2. left = 0
    BY <2>1 DEF NaiveCounts, BulkInv, BulkType
  <2>3. root = "ended" /\ Cardinality(Outstanding) = 0
    BY <1>2, <2>1, <2>2, OutstandingFinite DEF NaiveCounts
  <2>4. Outstanding = {}
    BY <2>3, OutstandingFinite
  <2>5. \A i \in Index : step[i] = "ended"
    <3>1. \A i \in Index : ~(i >= Length + 1)
      BY BulkAssumption DEF Index
    <3>2. \A i \in Index : step[i] # "none"
      BY <2>1, <2>3, <3>1 DEF NaiveCounts
    <3> QED
      BY <2>4, <3>2 DEF Outstanding, BulkInv, BulkType
  <2>6. Called = Index
    BY <2>5 DEF Called
  <2>7. first = 0 => Called \ acc = {}
    <3>1. exceptions > 0 => first # 0
      BY <2>1, <2>5 DEF NaiveCounts
    <3>2. \A i \in Called \ acc : exceptions > 0
      BY <2>1, <2>5 DEF NaiveCounts, Called
    <3> QED
      BY <3>1, <3>2
  <2> QED
    BY <1>3, <2>1, <2>3, <2>6, <2>7 DEF NaiveCounts, BulkInv, BulkType
<1> QED
  BY <1>4, <1>5 DEF BulkInv, BulkType

\* Only the progress of the result and the receiver change.
LEMMA ResultMoves ==
  ASSUME BulkInv, ~aborted, finishing \in {"result", "done"}, finishing' \in {"done", "finished"},
         root = "ended", sending # "new",
         UNCHANGED <<inputVars, loopVars, taskVars, state, aborted>>,
         dest' \in {Value(NewReceiver), Done(Value(NewReceiver)), Error(NewReceiver, "thrown")},
         finishing' = "done" => dest' \in {Value(NewReceiver), Error(NewReceiver, "thrown")}
  PROVE  BulkInv' /\ Called' = Called
<1> USE DEF inputVars, loopVars, taskVars, state
<1>1. Called' = Called /\ Outstanding' = Outstanding
  BY DEF Called, Outstanding
<1>2. BulkType'
  BY DEF BulkInv, BulkType
<1>3. Begins'
  BY DEF BulkInv, Begins
<1>4. ~Quiet
  BY DEF Quiet
<1>5. Naive'
  <2>1. CASE target = "naive"
    <3>1. NaiveCounts
      BY <1>4, <2>1 DEF BulkInv, Naive
    <3>2. NaiveCounts'
      BY <1>1, <3>1 DEF NaiveCounts
    <3> QED
      BY <3>2 DEF Naive
  <2>2. CASE target # "naive"
    BY <2>2 DEF Naive
  <2> QED
    BY <2>1, <2>2
<1>6. InlineCalls'
  BY DEF BulkInv, InlineCalls
<1> QED
  BY <1>1, <1>2, <1>3, <1>5, <1>6 DEF BulkInv

LEMMA FinishResultStep ==
  ASSUME BulkInv, FinishResult
  PROVE  BulkInv' /\ Abstract!Next
<1>1. /\ ~aborted /\ finishing = "result"
      /\ UNCHANGED <<inputVars, loopVars, taskVars, state, aborted>>
  BY DEF FinishResult
<1>2. /\ dest = NewReceiver /\ root = "ended" /\ sending # "new"
      /\ first = 0 => acc = Index /\ Called = Index
      /\ first # 0 => Called = Index \/ Called \ acc # {}
  BY <1>1, AllCalled
<1>3. /\ finishing' \in {"done", "finished"}
      /\ \/ dest' = Error(NewReceiver, "thrown")
         \/ first = 0 /\ dest' = Value(NewReceiver)
      /\ finishing' = "finished" => dest' = Error(NewReceiver, "thrown")
  BY <1>2, DestFacts DEF FinishResult
<1>4. BulkInv' /\ Called' = Called
  BY <1>1, <1>2, <1>3, ResultMoves
<1>5. acc' = acc
  BY <1>1 DEF state
<1>6. Result = "none"
  BY <1>2, ResultFacts
<1>7. CASE dest' = Error(NewReceiver, "thrown")
  <2>1. Result' = "error"
    BY <1>7, ResultFactsNext
  <2>2. Called \ acc # {} \/ Called = Index
    BY <1>2
  <2>3. Abstract!Fail
    BY <1>4, <1>5, <1>6, <2>1, <2>2 DEF Abstract!Fail
  <2> QED
    BY <1>4, <2>3 DEF Abstract!Next
<1>8. CASE first = 0 /\ dest' = Value(NewReceiver)
  <2>1. Result' = "value"
    BY <1>8, ResultFactsNext
  <2>2. acc = Index /\ Called \ acc = {}
    BY <1>2, <1>8
  <2>3. Abstract!Give
    BY <1>4, <1>5, <1>6, <2>1, <2>2 DEF Abstract!Give
  <2> QED
    BY <1>4, <2>3 DEF Abstract!Next
<1> QED
  BY <1>3, <1>7, <1>8

LEMMA FinishDoneStep ==
  ASSUME BulkInv, FinishDone
  PROVE  BulkInv' /\ UNCHANGED Abstract!vars
<1>1. /\ ~aborted /\ finishing = "done" /\ finishing' = "finished" /\ dest' = set_done(dest)
      /\ UNCHANGED <<inputVars, loopVars, taskVars, state, aborted>>
  BY DEF FinishDone
<1>2. dest \in {Value(NewReceiver), Error(NewReceiver, "thrown")}
  BY <1>1 DEF BulkInv
<1>3. \/ dest = Value(NewReceiver) /\ dest' = Done(Value(NewReceiver))
      \/ dest = Error(NewReceiver, "thrown") /\ dest' = Error(NewReceiver, "thrown")
  BY <1>1, <1>2, DestFacts
<1>4. root = "ended" /\ sending # "new"
  <2>1. ~Quiet
    BY <1>1 DEF Quiet
  <2>2. root \in {"loop", "ended"}
    BY <2>1 DEF BulkInv, Begins, BulkType
  <2>3. root # "loop"
    <3>1. dest # NewReceiver
      BY <1>2, DestFacts
    <3> QED
      BY <3>1 DEF BulkInv, Begins
  <2> QED
    BY <2>2, <2>3 DEF BulkInv, Begins
<1>5. BulkInv' /\ Called' = Called
  BY <1>1, <1>3, <1>4, ResultMoves
<1>6. Result' = Result
  BY <1>3, ResultFacts, ResultFactsNext
<1> QED
  BY <1>1, <1>5, <1>6 DEF Abstract!vars, state

-----------------------------------------------------------------------------
(* inline_bulk_target *)

LEMMA InlineLoop ==
  ASSUME BulkInv, target = "inline", root = "loop"
  PROVE  /\ dest = NewReceiver /\ sending # "new" /\ Called = 1..(idx - 1) /\ acc = 1..(idx - 1)
         /\ finishing = "no" /\ first = 0 /\ Called \subseteq Index /\ idx \in Nat \ {0}
<1>1. /\ dest = NewReceiver /\ sending # "new" /\ acc = 1..(idx - 1)
      /\ finishing = "no" /\ first = 0
  BY DEF BulkInv, Begins, InlineCalls
<1>2. \A i \in Index : i \in Called <=> i < idx
  BY DEF BulkInv, InlineCalls, Called
<1>3. Called = 1..(idx - 1)
  <2>1. Called \subseteq Index /\ acc \subseteq Called
    BY DEF Called, BulkInv
  <2>2. ASSUME NEW i \in Called PROVE i \in 1..(idx - 1)
    BY <1>2, <2>1, BulkAssumption DEF Index, BulkInv, BulkType
  <2> QED
    BY <1>1, <2>1, <2>2
<1> QED
  BY <1>1, <1>3, BulkAssumption DEF Called, BulkInv, BulkType

LEMMA InlineInitThrowsStep ==
  ASSUME BulkInv, InlineInitThrows
  PROVE  BulkInv' /\ Abstract!Next
<1> USE DEF inputVars, loopVars, taskVars, state
<1>1. /\ ~aborted /\ target = "inline" /\ root = "loop" /\ idx = 1 /\ root' = "ended"
      /\ dest' = set_error(dest, "thrown") /\ finishing' = "finished"
      /\ UNCHANGED <<inputVars, idx, taskVars, state, aborted>>
  BY DEF InlineInitThrows
<1>2. dest = NewReceiver /\ sending # "new" /\ Called = 1..(idx - 1)
  BY <1>1, InlineLoop
<1>3. Called' = Called /\ Called = {}
  BY <1>1, <1>2 DEF Called
<1>4. dest' = Error(NewReceiver, "thrown")
  BY <1>1, <1>2, DestFacts
<1>5. BulkType' /\ Begins' /\ Naive' /\ InlineCalls'
  BY <1>1, <1>2, <1>4 DEF BulkInv, BulkType, Begins, Naive, InlineCalls
<1>6. BulkInv'
  BY <1>1, <1>3, <1>5 DEF BulkInv
<1>7. Result = "none" /\ Result' = "error"
  BY <1>2, <1>4, ResultFacts, ResultFactsNext
<1>8. Abstract!Fail
  BY <1>1, <1>3, <1>7 DEF Abstract!Fail
<1> QED
  BY <1>6, <1>8 DEF Abstract!Next

LEMMA InlineCallStep ==
  ASSUME BulkInv, InlineCall
  PROVE  BulkInv' /\ Abstract!Next
<1> USE DEF inputVars
<1>1. /\ ~aborted /\ target = "inline" /\ root = "loop" /\ idx <= Length
      /\ acc' = acc \cup {idx} /\ step' = [step EXCEPT ![idx] = "ended"] /\ idx' = idx + 1
      /\ UNCHANGED <<inputVars, root, old, left, exceptions, first, finishing, dest, aborted>>
  BY DEF InlineCall
<1>2. /\ dest = NewReceiver /\ sending # "new" /\ Called = 1..(idx - 1) /\ acc = 1..(idx - 1)
      /\ finishing = "no" /\ first = 0 /\ Called \subseteq Index /\ idx \in Nat \ {0}
  BY <1>1, InlineLoop
<1>3. idx \in Index /\ idx \notin Called /\ idx' \in 1..(Length + 1)
  BY <1>1, <1>2, BulkAssumption DEF Index
<1>4. step'[idx] = "ended" /\ \A j \in Index \ {idx} : step'[j] = step[j]
  BY <1>1, <1>3 DEF BulkInv, BulkType
<1>5. Called' = Called \cup {idx}
  BY <1>3, <1>4 DEF Called
<1>6. acc' = 1..(idx' - 1) /\ acc' = Called'
  BY <1>1, <1>2, <1>5
<1>7. BulkType'
  <2>1. step' \in [Index -> Begun \cup {"none", "ended"}]
    BY <1>1 DEF BulkInv, BulkType
  <2>2. acc' \subseteq Index
    BY <1>2, <1>3, <1>5, <1>6
  <2> QED
    BY <1>1, <1>3, <2>1, <2>2 DEF BulkInv, BulkType
<1>8. InlineCalls'
  <2>1. \A j \in Index : step'[j] \in {"none", "ended"}
    BY <1>1, <1>4 DEF BulkInv, InlineCalls
  <2>2. ASSUME NEW j \in Index PROVE step'[j] = "ended" <=> j < idx'
    <3>1. step[j] = "ended" <=> j < idx
      BY <1>1 DEF BulkInv, InlineCalls
    <3>2. j \in Int
      BY BulkAssumption DEF Index
    <3> QED
      BY <1>1, <1>2, <1>4, <3>1, <3>2
  <2> QED
    BY <1>1, <1>2, <1>6, <2>1, <2>2 DEF InlineCalls
<1>9. Begins' /\ Naive'
  BY <1>1, <1>2 DEF BulkInv, Begins, Naive
<1>10. BulkInv'
  BY <1>1, <1>2, <1>6, <1>7, <1>8, <1>9 DEF BulkInv
<1>11. Result = "none" /\ Result' = "none"
  BY <1>1, <1>2, ResultFacts, ResultFactsNext
<1>12. Abstract!Call(idx)
  <2>1. Called \ acc = {} /\ Called' \ acc' = {}
    BY <1>2, <1>6
  <2> QED
    BY <1>1, <1>3, <1>5, <1>11, <2>1 DEF Abstract!Call
<1> QED
  BY <1>3, <1>10, <1>12 DEF Abstract!Next

LEMMA InlineThrowsStep ==
  ASSUME BulkInv, InlineThrows
  PROVE  BulkInv' /\ Abstract!Next
<1> USE DEF inputVars
<1>1. /\ ~aborted /\ target = "inline" /\ root = "loop" /\ idx <= Length /\ root' = "ended"
      /\ step' = [step EXCEPT ![idx] = "ended"] /\ first' = idx /\ finishing' = "result"
      /\ UNCHANGED <<inputVars, idx, old, acc, left, exceptions, dest, aborted>>
  BY DEF InlineThrows
<1>2. /\ dest = NewReceiver /\ sending # "new" /\ Called = 1..(idx - 1) /\ acc = 1..(idx - 1)
      /\ finishing = "no" /\ first = 0 /\ Called \subseteq Index /\ idx \in Nat \ {0}
  BY <1>1, InlineLoop
<1>3. idx \in Index /\ idx \notin Called /\ idx \in 0..Length
  BY <1>1, <1>2, BulkAssumption DEF Index
<1>4. step'[idx] = "ended" /\ \A j \in Index \ {idx} : step'[j] = step[j]
  BY <1>1, <1>3 DEF BulkInv, BulkType
<1>5. Called' = Called \cup {idx}
  BY <1>3, <1>4 DEF Called
<1>6. BulkType'
  <2>1. step' \in [Index -> Begun \cup {"none", "ended"}]
    BY <1>1 DEF BulkInv, BulkType
  <2> QED
    BY <1>1, <1>3, <2>1 DEF BulkInv, BulkType
<1>7. idx \in Called' \ acc'
  BY <1>1, <1>2, <1>3, <1>5
<1>8. InlineCalls'
  <2>1. \A j \in Index : step'[j] \in {"none", "ended"}
    BY <1>1, <1>4 DEF BulkInv, InlineCalls
  <2> QED
    BY <1>1, <1>2, <1>7, <2>1 DEF InlineCalls
<1>9. Begins' /\ Naive'
  BY <1>1, <1>2 DEF BulkInv, Begins, Naive
<1>10. BulkInv'
  BY <1>1, <1>2, <1>5, <1>6, <1>8, <1>9 DEF BulkInv
<1>11. Result = "none" /\ Result' = "none"
  BY <1>1, <1>2, ResultFacts, ResultFactsNext
<1>12. Abstract!Call(idx)
  BY <1>1, <1>3, <1>5, <1>7, <1>11 DEF Abstract!Call
<1> QED
  BY <1>3, <1>10, <1>12 DEF Abstract!Next

LEMMA InlineEndsStep ==
  ASSUME BulkInv, InlineEnds
  PROVE  BulkInv' /\ UNCHANGED Abstract!vars
<1> USE DEF inputVars, taskVars, state
<1>1. /\ ~aborted /\ target = "inline" /\ root = "loop" /\ idx > Length /\ root' = "ended"
      /\ finishing' = "result"
      /\ UNCHANGED <<inputVars, idx, taskVars, state, dest, aborted>>
  BY DEF InlineEnds
<1>2. /\ dest = NewReceiver /\ sending # "new" /\ Called = 1..(idx - 1) /\ acc = 1..(idx - 1)
      /\ first = 0
  BY <1>1, InlineLoop
<1>3. Called' = Called
  BY <1>1 DEF Called
<1>4. Called = Index
  <2>1. idx = Length + 1
    BY <1>1, BulkAssumption DEF BulkInv, BulkType
  <2>2. Length \in Nat
    BY BulkAssumption
  <2> QED
    BY <1>2, <2>1, <2>2 DEF Index
<1>5. BulkType' /\ Begins' /\ Naive'
  BY <1>1, <1>2 DEF BulkInv, BulkType, Begins, Naive
<1>6. InlineCalls'
  BY <1>1, <1>2, <1>3, <1>4 DEF BulkInv, InlineCalls
<1>7. BulkInv'
  BY <1>1, <1>3, <1>5, <1>6 DEF BulkInv
<1> QED
  BY <1>1, <1>3, <1>7, AbstractStutter

-----------------------------------------------------------------------------
LEMMA BulkNextInv ==
  BulkInv /\ [BulkNext]_bulkVars => BulkInv' /\ [Abstract!Next]_(Abstract!vars)
<1> SUFFICES ASSUME BulkInv, [BulkNext]_bulkVars
             PROVE  BulkInv' /\ [Abstract!Next]_(Abstract!vars)
  OBVIOUS
<1>1. CASE UNCHANGED bulkVars
  <2>1. Called' = Called /\ Outstanding' = Outstanding
    BY <1>1 DEF bulkVars, Called, Outstanding
  <2>2. BulkInv'
    BY <1>1, <2>1
    DEF bulkVars, BulkInv, BulkType, Begins, Quiet, Naive, NaiveCounts, InlineCalls
  <2> QED
    BY <1>1, <2>1, <2>2, AbstractStutter DEF bulkVars
<1>2. CASE BulkValue \/ BulkCompletes
  BY <1>2, BulkValueStep, BulkCompletesStep
<1>3. CASE LoopStep
  BY <1>3, RunFailingStep, RunLoopStep, SubmitIndexStep, LoopEndsStep DEF LoopStep
<1>4. CASE Inline
  BY <1>4, InlineInitThrowsStep, InlineCallStep, InlineThrowsStep, InlineEndsStep DEF Inline
<1>5. CASE FinishResult \/ FinishDone
  BY <1>5, FinishResultStep, FinishDoneStep
<1>6. ASSUME NEW i \in Index, TaskStep(i)
      PROVE  BulkInv' /\ [Abstract!Next]_(Abstract!vars)
  BY <1>6, LoadStep, CompareExchangeStep, FunctionThrowsStep, CountExceptionStep,
     StoreExceptionStep, TaskDoneStep DEF TaskStep
<1> QED
  BY <1>1, <1>2, <1>3, <1>4, <1>5, <1>6 DEF BulkNext

\* In every interleaving of the tasks of both targets, for every number of indices and with
\* executors and allocations that may throw, a bulk operation is a reduction: the result
\* comes once, after the last call of the function, from all that was accumulated, and an
\* exception of any call makes it an error.
THEOREM BulkRefines == BulkSpec => Abstract!Spec
<1>1. BulkInit => BulkInv /\ Abstract!Init
  BY BulkInitInv
<1>2. BulkInv /\ [BulkNext]_bulkVars => BulkInv'
  BY BulkNextInv
<1>3. BulkInv /\ [BulkNext]_bulkVars => [Abstract!Next]_(Abstract!vars)
  BY BulkNextInv
<1> QED
  BY <1>1, <1>2, <1>3, PTL DEF BulkSpec, Abstract!Spec
=============================================================================
