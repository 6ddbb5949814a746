--------------------------- MODULE ExecutorProofs ---------------------------
(***************************************************************************)
(* Strand and BlockingSubmit: what is submitted to an executor is neither   *)
(* stranded nor outlived by who waits for it.                               *)
(*                                                                         *)
(* The queue of a strand stays consistent on every executor; on a reliable  *)
(* one, and until remaining_ wraps, submit() is right whenever it sends no  *)
(* worker.  For every number of items and every width of size_t that can    *)
(* count them twice.                                                        *)
(***************************************************************************)
EXTENDS Strand, BlockingSubmit, FiniteSetTheorems, TLAPS

LEMMA ModulusType == Modulus \in Nat /\ Modulus > 0 /\ Cardinality(Item) \in Nat
BY StrandAssumption, FS_CardinalityType

LEMMA ModBounds ==
  ASSUME NEW x \in Nat, NEW m \in Nat, m > 0
  PROVE  x % m \in 0..(m - 1) /\ x % m <= x
BY SMT

\* What --remaining_ does to a size_t.
LEMMA DecrementType == ASSUME NEW n \in Nat PROVE Decrement(n) \in 0..(Modulus - 1)
<1> n + Modulus - 1 \in Nat
  BY ModulusType
<1> QED
  BY ModulusType, ModBounds DEF Decrement

LEMMA DecrementPositive ==
  ASSUME NEW n \in Nat, n > 0
  PROVE  Decrement(n) <= n - 1 /\ (n < Modulus => Decrement(n) = n - 1)
BY ModulusType, SMTT(30) DEF Decrement

LEMMA DecrementZero == Decrement(0) = Modulus - 1
BY ModulusType, SMT DEF Decrement

-----------------------------------------------------------------------------
LEMMA TypeInit == Init => TypeOK
BY ModulusType DEF Init, TypeOK, Status

LEMMA HeadTail ==
  ASSUME TypeOK, items # <<>>
  PROVE  Head(items) \in Item /\ Tail(items) \in Seq(Item)
BY DEF TypeOK

\* One turn of the loop of value(), whoever takes it.
LEMMA TakeType ==
  ASSUME TypeOK, NEW n \in Nat, NEW st \in [Item -> Status], Take(n, st)
  PROVE  /\ items' \in Seq(Item)
         /\ remaining' \in 0..(Modulus - 1)
         /\ status' \in [Item -> Status]
         /\ returned' \in Nat
<1>1. CASE items = <<>>
  BY <1>1 DEF TypeOK, Take
<1>2. CASE items # <<>>
  BY <1>2, HeadTail, DecrementType DEF TypeOK, Take, Status
<1> QED
  BY <1>1, <1>2

LEMMA TypeStep == TypeOK /\ [Next]_vars => TypeOK'
<1> SUFFICES ASSUME TypeOK, [Next]_vars PROVE TypeOK'
  OBVIOUS
<1> USE ModulusType
<1>1. ASSUME NEW i \in Item, Submit(i), UNCHANGED ex PROVE TypeOK'
  BY <1>1 DEF TypeOK, Submit, Status
<1>2. ASSUME NEW i \in Item, SendWorker(i), UNCHANGED ex PROVE TypeOK'
  BY <1>2 DEF TypeOK, SendWorker
<1>3. ASSUME NEW i \in Item, SendThrows(i), UNCHANGED ex PROVE TypeOK'
  BY <1>3 DEF TypeOK, SendThrows
<1>4. ASSUME NEW i \in Item, RunItem(i), UNCHANGED ex PROVE TypeOK'
  BY <1>4 DEF TypeOK, RunItem, Status
<1>5. ASSUME NEW i \in Item, NextItem(i), UNCHANGED ex PROVE TypeOK'
  <2>1. remaining \in Nat /\ [status EXCEPT ![i] = "done"] \in [Item -> Status]
    BY DEF TypeOK, Status
  <2> QED
    BY <1>5, <2>1, TakeType DEF TypeOK, NextItem
<1>6. ASSUME NEW i \in Item, FailItem(i), UNCHANGED ex PROVE TypeOK'
  <2>1. CASE items = <<>>
    BY <1>6, <2>1 DEF TypeOK, FailItem, Status
  <2>2. CASE items # <<>>
    BY <1>6, <2>2, HeadTail DEF TypeOK, FailItem, Status
  <2> QED
    BY <2>1, <2>2
<1>7. ASSUME Value, UNCHANGED ex PROVE TypeOK'
  <2>1. CASE remaining > 0
    BY <1>7, <2>1 DEF TypeOK, Value
  <2>2. CASE ~(remaining > 0)
    <3>1. Take(Len(items), status) /\ Len(items) \in Nat
      BY <1>7, <2>2 DEF TypeOK, Value
    <3> QED
      BY <1>7, <3>1, TakeType DEF TypeOK, Value
  <2> QED
    BY <2>1, <2>2
<1>8. ASSUME Error, UNCHANGED ex PROVE TypeOK'
  <2>1. queued' \in Nat /\ failed' \in Nat
    BY <1>8 DEF TypeOK, Error
  <2>2. CASE items = <<>>
    BY <1>8, <2>1, <2>2 DEF TypeOK, Error
  <2>3. CASE items # <<>>
    <3>1. items' \in Seq(Item) /\ status' \in [Item -> Status]
      BY <1>8, <2>3, HeadTail DEF TypeOK, Error, Status
    <3> QED
      BY <1>8, <2>1, <3>1 DEF TypeOK, Error
  <2> QED
    BY <2>2, <2>3
<1>9. ASSUME Done, UNCHANGED ex PROVE TypeOK'
  BY <1>9 DEF TypeOK, Done
<1>10. ASSUME DoneThrows, UNCHANGED ex PROVE TypeOK'
  BY <1>10 DEF TypeOK, DoneThrows
<1>11. CASE UNCHANGED vars
  BY <1>11 DEF TypeOK, vars
<1> QED
  BY <1>1, <1>2, <1>3, <1>4, <1>5, <1>6, <1>7, <1>8, <1>9, <1>10, <1>11
  DEF Next, Worker, Start, End, Finished

\* The variables keep their types; in particular remaining_ stays a size_t.
THEOREM TypeCorrect == Spec => []TypeOK
BY TypeInit, TypeStep, PTL DEF Spec

-----------------------------------------------------------------------------
\* A step that leaves the queue and the set of queued items alone.
LEMMA QueueKept ==
  ASSUME QueueConsistent, items' = items,
         \A i \in Item : status'[i] = "queued" <=> status[i] = "queued"
  PROVE  QueueConsistent'
BY DEF QueueConsistent

\* A step that pops the first item, for value() or for error().
LEMMA QueuePopped ==
  ASSUME TypeOK, QueueConsistent, items # <<>>, items' = Tail(items),
         status'[Head(items)] # "queued",
         \A i \in Item : i # Head(items) => (status'[i] = "queued" <=> status[i] = "queued")
  PROVE  QueueConsistent'
<1> DEFINE h == Head(items)
<1>1. /\ Len(items) \in Nat /\ Len(items) > 0 /\ items[1] = h
      /\ Len(items') = Len(items) - 1
      /\ \A k \in 1..Len(items') : items'[k] = items[k + 1]
  BY DEF TypeOK
<1>2. \A j, k \in 1..Len(items) : items[j] = items[k] => j = k
  BY DEF QueueConsistent
<1>3. \A j, k \in 1..Len(items') : items'[j] = items'[k] => j = k
  BY <1>1, <1>2
<1>4. ASSUME NEW i \in Item
      PROVE  status'[i] = "queued" <=> \E k \in 1..Len(items') : items'[k] = i
  <2>1. CASE i = h
    BY <1>1, <1>2, <2>1
  <2>2. CASE i # h
    <3>1. status'[i] = "queued" <=> \E k \in 1..Len(items) : items[k] = i
      BY <2>2 DEF QueueConsistent
    <3>2. (\E k \in 1..Len(items) : items[k] = i) <=> (\E k \in 1..Len(items') : items'[k] = i)
      <4>1. ASSUME NEW k \in 1..Len(items), items[k] = i
            PROVE  \E l \in 1..Len(items') : items'[l] = i
        <5>1. k # 1
          BY <1>1, <2>2, <4>1
        <5>2. k - 1 \in 1..Len(items') /\ items'[k - 1] = i
          BY <1>1, <4>1, <5>1
        <5> QED
          BY <5>2
      <4>2. ASSUME NEW k \in 1..Len(items'), items'[k] = i
            PROVE  \E l \in 1..Len(items) : items[l] = i
        <5>1. k + 1 \in 1..Len(items) /\ items[k + 1] = i
          BY <1>1, <4>2
        <5> QED
          BY <5>1
      <4> QED
        BY <4>1, <4>2
    <3> QED
      BY <3>1, <3>2
  <2> QED
    BY <2>1, <2>2
<1> QED
  BY <1>3, <1>4 DEF QueueConsistent

\* A step that queues a new item.
LEMMA QueueExtended ==
  ASSUME TypeOK, QueueConsistent, NEW i \in Item, status[i] = "new",
         items' = Append(items, i), status' = [status EXCEPT ![i] = "queued"]
  PROVE  QueueConsistent'
<1>1. /\ Len(items) \in Nat
      /\ Len(items') = Len(items) + 1
      /\ items'[Len(items) + 1] = i
      /\ \A k \in 1..Len(items) : items'[k] = items[k]
  BY DEF TypeOK
<1>2. \A k \in 1..Len(items) : items[k] # i
  BY DEF QueueConsistent
<1>3. \A j, k \in 1..Len(items') : items'[j] = items'[k] => j = k
  BY <1>1, <1>2 DEF QueueConsistent
<1>4. ASSUME NEW x \in Item
      PROVE  status'[x] = "queued" <=> \E k \in 1..Len(items') : items'[k] = x
  <2>1. CASE x = i
    <3>1. Len(items) + 1 \in 1..Len(items')
      BY <1>1
    <3> QED
      BY <1>1, <2>1, <3>1 DEF TypeOK
  <2>2. CASE x # i
    <3>1. status'[x] = status[x]
      BY <2>2 DEF TypeOK
    <3>2. (\E k \in 1..Len(items) : items[k] = x) <=> (\E k \in 1..Len(items') : items'[k] = x)
      BY <1>1, <2>2
    <3> QED
      BY <3>1, <3>2 DEF QueueConsistent
  <2> QED
    BY <2>1, <2>2
<1> QED
  BY <1>3, <1>4 DEF QueueConsistent
\* What value() hands to Take() besides the count: the status of the items, with
\* the one it has just run marked done.
Settled(st) == \A j \in Item : st[j] = status[j] \/ (status[j] = "value" /\ st[j] = "done")

LEMMA QueueTaken ==
  ASSUME TypeOK, QueueConsistent, NEW n, NEW st \in [Item -> Status], Settled(st), Take(n, st)
  PROVE  QueueConsistent'
<1>1. CASE items = <<>>
  BY <1>1, QueueKept DEF Take, Settled
<1>2. CASE items # <<>>
  <2>1. items' = Tail(items) /\ status' = [st EXCEPT ![Head(items)] = "popped"]
    BY <1>2 DEF Take
  <2>2. Head(items) \in Item
    BY <1>2, HeadTail
  <2>3. status'[Head(items)] # "queued"
    BY <2>1, <2>2
  <2>4. \A i \in Item : i # Head(items) => (status'[i] = "queued" <=> status[i] = "queued")
    BY <2>1, <2>2 DEF Settled
  <2> QED
    BY <1>2, <2>1, <2>3, <2>4, QueuePopped
<1> QED
  BY <1>1, <1>2

\* Popping an item in error().
LEMMA QueueFailed ==
  ASSUME TypeOK, QueueConsistent, NEW st \in [Item -> Status], items # <<>>,
         \A j \in Item : st[j] = "queued" <=> status[j] = "queued",
         items' = Tail(items), status' = [st EXCEPT ![Head(items)] = "failing"]
  PROVE  QueueConsistent'
<1>1. Head(items) \in Item
  BY HeadTail
<1>2. status'[Head(items)] # "queued"
  BY <1>1
<1>3. \A i \in Item : i # Head(items) => (status'[i] = "queued" <=> status[i] = "queued")
  BY <1>1
<1> QED
  BY <1>2, <1>3, QueuePopped

LEMMA QueueInit == Init => QueueConsistent
BY DEF Init, QueueConsistent

LEMMA QueueStep == TypeOK /\ QueueConsistent /\ [Next]_vars => QueueConsistent'
<1> SUFFICES ASSUME TypeOK, QueueConsistent, [Next]_vars PROVE QueueConsistent'
  OBVIOUS
<1>1. ASSUME NEW i \in Item, Submit(i) PROVE QueueConsistent'
  BY <1>1, QueueExtended DEF Submit
<1>2. ASSUME NEW i \in Item, SendWorker(i) \/ SendThrows(i) PROVE QueueConsistent'
  BY <1>2, QueueKept DEF SendWorker, SendThrows
<1>3. ASSUME NEW i \in Item, RunItem(i) PROVE QueueConsistent'
  BY <1>3, QueueKept DEF RunItem, TypeOK
<1>4. ASSUME NEW i \in Item, NextItem(i) PROVE QueueConsistent'
  <2> DEFINE st == [status EXCEPT ![i] = "done"]
  <2>1. st \in [Item -> Status] /\ Settled(st)
    BY <1>4 DEF TypeOK, Settled, NextItem, Status
  <2>2. Take(remaining, st)
    BY <1>4 DEF NextItem
  <2> HIDE DEF st
  <2> QED
    BY <2>1, <2>2, QueueTaken
<1>5. ASSUME NEW i \in Item, FailItem(i) PROVE QueueConsistent'
  <2> DEFINE st == [status EXCEPT ![i] = "error"]
  <2>1. /\ st \in [Item -> Status]
        /\ \A j \in Item : st[j] = "queued" <=> status[j] = "queued"
    BY <1>5 DEF TypeOK, FailItem, Status
  <2>2. CASE items = <<>>
    <3>1. items' = items /\ status' = st
      BY <1>5, <2>2 DEF FailItem
    <3> QED
      BY <2>1, <3>1, QueueKept
  <2>3. CASE items # <<>>
    <3>1. items' = Tail(items) /\ status' = [st EXCEPT ![Head(items)] = "failing"]
      BY <1>5, <2>3 DEF FailItem
    <3> HIDE DEF st
    <3> QED
      BY <2>1, <2>3, <3>1, QueueFailed
  <2> QED
    BY <2>2, <2>3
<1>6. ASSUME Value PROVE QueueConsistent'
  <2>1. CASE remaining > 0
    BY <1>6, <2>1, QueueKept DEF Value
  <2>2. CASE ~(remaining > 0)
    <3>1. Take(Len(items), status) /\ status \in [Item -> Status] /\ Settled(status)
      BY <1>6, <2>2 DEF Value, TypeOK, Settled
    <3> QED
      BY <3>1, QueueTaken
  <2> QED
    BY <2>1, <2>2
<1>7. ASSUME Error PROVE QueueConsistent'
  <2>1. CASE items = <<>>
    BY <1>7, <2>1, QueueKept DEF Error
  <2>2. CASE items # <<>>
    <3>1. items' = Tail(items) /\ status' = [status EXCEPT ![Head(items)] = "failing"]
      BY <1>7, <2>2 DEF Error
    <3> QED
      BY <2>2, <3>1, QueueFailed DEF TypeOK
  <2> QED
    BY <2>1, <2>2
<1>8. ASSUME Done \/ DoneThrows \/ UNCHANGED vars PROVE QueueConsistent'
  BY <1>8, QueueKept DEF Done, DoneThrows, vars
<1> QED
  BY <1>1, <1>2, <1>3, <1>4, <1>5, <1>6, <1>7, <1>8 DEF Next, Worker, Start, End, Finished

\* On every executor, reliable or not, the queue holds exactly the items that
\* wait, each once: no item is lost or completed twice however many workers and
\* error loops drain the queue at the same time.
THEOREM QueueCorrect == Spec => []QueueConsistent
BY TypeInit, TypeStep, QueueInit, QueueStep, PTL DEF Spec

-----------------------------------------------------------------------------
\* The items that a worker has taken from the queue.
Taken == {i \in Item : status[i] \notin {"new", "queued"}}

\* A reliable executor never starts an error loop.
Clean == ex = "reliable" => failed = 0 /\ Failing = {}

\* remaining_ counts down by one with every item taken, so once it has wrapped it
\* is still within the number of items taken of the largest value.
Counted == ex = "reliable" => \/ remaining <= Len(items)
                              \/ remaining + Cardinality(Taken) >= Modulus

\* remaining_ is positive only while a worker is in its loop.
Guarded == ex = "reliable" /\ remaining > 0 => Running # {} \/ Wrapped

\* The inductive invariant.
IInv == TypeOK /\ QueueConsistent /\ Clean /\ Counted /\ Guarded /\ NothingStranded

LEMMA TakenFinite == IsFiniteSet(Taken) /\ Cardinality(Taken) \in Nat
                     /\ Cardinality(Taken) <= Cardinality(Item)
<1>1. Taken \in SUBSET Item
  BY DEF Taken
<1> QED
  BY <1>1, StrandAssumption, FS_Subset, FS_CardinalityType

\* A counter that is near the largest value has wrapped.
LEMMA NearModulus ==
  ASSUME TypeOK, remaining + Cardinality(Taken) >= Modulus
  PROVE  Wrapped
<1>1. Modulus > Cardinality(Item) + Cardinality(Item)
  BY StrandAssumption, ModulusType
<1> QED
  BY <1>1, ModulusType, TakenFinite DEF TypeOK, Wrapped

LEMMA CountedIsBounded == TypeOK /\ Counted => CounterBounded
BY NearModulus DEF Counted, CounterBounded

\* A worker that finds the queue empty leaves it with a counter of zero, or with
\* one that has wrapped.
LEMMA EmptyHanded ==
  ASSUME TypeOK, Counted, ex = "reliable", items = <<>>, remaining > 0
  PROVE  Wrapped
<1>1. ~(remaining <= Len(items))
  BY DEF TypeOK
<1> QED
  BY <1>1, NearModulus DEF Counted

\* One turn of the loop of value() that finds an item.
LEMMA TakeCounts ==
  ASSUME TypeOK, QueueConsistent, NEW n, NEW st \in [Item -> Status], Settled(st),
         Take(n, st), items # <<>>
  PROVE  /\ Cardinality(Taken') = Cardinality(Taken) + 1
         /\ Running' # {}
         /\ Failing' = Failing
         /\ Len(items') = Len(items) - 1
<1> DEFINE h == Head(items)
<1>1. h \in Item /\ items' = Tail(items) /\ status' = [st EXCEPT ![h] = "popped"]
  BY HeadTail DEF Take
<1>2. status[h] = "queued"
  <2>1. 1 \in 1..Len(items) /\ items[1] = h
    BY DEF TypeOK
  <2> QED
    BY <1>1, <2>1 DEF QueueConsistent
<1> HIDE DEF h
<1>3. status'[h] = "popped" /\ \A j \in Item : j # h => status'[j] = st[j]
  BY <1>1
<1>4. h \notin Taken /\ Taken' = Taken \cup {h}
  BY <1>1, <1>2, <1>3 DEF Taken, Settled
<1>5. Running' # {}
  BY <1>1, <1>3 DEF Running
<1>6. Failing' = Failing
  BY <1>2, <1>3 DEF Failing, Settled
<1>7. Len(items') = Len(items) - 1
  BY <1>1 DEF TypeOK
<1> QED
  BY <1>4, <1>5, <1>6, <1>7, TakenFinite, FS_AddElement
Safe == Clean /\ Counted /\ Guarded /\ NothingStranded

\* One turn of the loop of value(): the first one, which has just set remaining_
\* to the length of the queue, or a later one.
LEMMA TakeSafe ==
  ASSUME IInv, ex = "reliable", UNCHANGED <<ex, failed>>,
         NEW n, n = remaining \/ (n = Len(items) /\ remaining = 0),
         NEW st \in [Item -> Status], Settled(st), Take(n, st)
  PROVE  Safe'
<1>0. TypeOK /\ QueueConsistent /\ Counted /\ failed = 0 /\ Failing = {}
  BY DEF IInv, Clean
<1>1. CASE items = <<>>
  <2>1. items' = items /\ remaining' = remaining /\ status' = st /\ returned' = returned + 1
    BY <1>1 DEF Take
  <2>2. Taken' = Taken /\ Failing' = Failing
    BY <2>1 DEF Taken, Failing, Settled
  <2>3. Counted'
    BY <1>0, <2>1, <2>2 DEF Counted
  <2>4. Guarded'
    BY <1>0, <1>1, <2>1, EmptyHanded DEF Guarded, Wrapped
  <2>5. NothingStranded'
    BY <1>1, <2>1 DEF NothingStranded
  <2> QED
    BY <1>0, <2>2, <2>3, <2>4, <2>5 DEF Safe, Clean
<1>2. CASE items # <<>>
  <2>1. /\ Cardinality(Taken') = Cardinality(Taken) + 1
        /\ Running' # {} /\ Failing' = Failing
        /\ Len(items') = Len(items) - 1
    BY <1>0, <1>2, TakeCounts
  <2>2. remaining' = Decrement(n)
    BY <1>2 DEF Take
  <2>3. Len(items) \in Nat /\ Len(items) > 0 /\ remaining \in 0..(Modulus - 1)
    BY <1>0, <1>2 DEF TypeOK
  <2>4. remaining' <= Len(items') \/ remaining' + Cardinality(Taken') >= Modulus
    <3>1. CASE n = remaining /\ remaining > 0
      <4>0. n \in Nat /\ n > 0 /\ n < Modulus
        BY <2>3, <3>1, ModulusType
      <4>1. remaining' = remaining - 1
        BY <2>2, <3>1, <4>0, DecrementPositive
      <4> QED
        BY <1>0, <2>1, <2>3, <4>1, TakenFinite, ModulusType DEF Counted
    <3>2. CASE n = 0
      <4>1. remaining' = Modulus - 1
        BY <2>2, <3>2, DecrementZero
      <4> QED
        BY <2>1, <4>1, TakenFinite, ModulusType
    <3>3. CASE n = Len(items)
      BY <2>1, <2>2, <2>3, <3>3, DecrementPositive
    <3> QED
      BY <2>3, <3>1, <3>2, <3>3
  <2> QED
    BY <1>0, <2>1, <2>4 DEF Safe, Clean, Counted, Guarded, NothingStranded, Minded
<1> QED
  BY <1>1, <1>2

LEMMA SafeInit == Init => Safe
BY FS_EmptySet DEF Init, Safe, Clean, Counted, Guarded, NothingStranded, Failing

LEMMA SafeStep == IInv /\ [Next]_vars => Safe'
<1> SUFFICES ASSUME IInv, [Next]_vars PROVE Safe'
  OBVIOUS
<1>0. TypeOK /\ QueueConsistent /\ Clean /\ Counted /\ Guarded /\ NothingStranded /\ ex' = ex
  BY DEF IInv, Next, Finished, vars
<1>1. CASE ex # "reliable"
  BY <1>0, <1>1 DEF Safe, Clean, Counted, Guarded, NothingStranded
<1>2. CASE ex = "reliable"
  <2>0. failed = 0 /\ Failing = {} /\ ex # "failing"
    BY <1>0, <1>2 DEF Clean
  <2>1. ASSUME NEW i \in Item, Submit(i) PROVE Safe'
    <3>1. Taken' = Taken /\ Running' = Running /\ Failing' = Failing
      BY <1>0, <2>1 DEF Submit, Taken, Running, Failing, TypeOK
    <3>2. Len(items') = Len(items) + 1 /\ remaining' = remaining /\ failed' = failed
      BY <1>0, <2>1 DEF Submit, TypeOK
    <3>3. Counted'
      BY <1>0, <1>2, <3>1, <3>2 DEF Counted, TypeOK
    <3>4. Guarded'
      BY <1>0, <1>2, <3>1, <3>2 DEF Guarded, Wrapped
    <3>5. NothingStranded'
      <4>1. CASE remaining = 0
        BY <2>1, <4>1 DEF Submit, NothingStranded, Minded
      <4>2. CASE remaining # 0
        BY <1>0, <1>2, <3>1, <3>2, <4>2 DEF Guarded, NothingStranded, Minded, TypeOK, Wrapped
      <4> QED
        BY <4>1, <4>2
    <3> QED
      BY <2>0, <3>1, <3>2, <3>3, <3>4, <3>5 DEF Safe, Clean
  <2>2. ASSUME NEW i \in Item, SendWorker(i) PROVE Safe'
    <3>1. Taken' = Taken /\ Running' = Running /\ Failing' = Failing
      BY <2>2 DEF SendWorker, Taken, Running, Failing
    <3>2. NothingStranded'
      BY <1>0, <2>2 DEF SendWorker, NothingStranded, Minded, TypeOK
    <3> QED
      BY <1>0, <2>2, <3>1, <3>2 DEF SendWorker, Safe, Clean, Counted, Guarded, Wrapped
  <2>3. ASSUME NEW i \in Item, SendThrows(i) \/ FailItem(i) PROVE Safe'
    BY <2>0, <2>3 DEF SendThrows, FailItem, Failing
  <2>4. ASSUME NEW i \in Item, RunItem(i) PROVE Safe'
    <3>1. Taken' = Taken /\ Running' = Running /\ Failing' = Failing
      BY <1>0, <2>4 DEF RunItem, Taken, Running, Failing, TypeOK
    <3> QED
      BY <1>0, <2>4, <3>1
      DEF RunItem, Safe, Clean, Counted, Guarded, NothingStranded, Minded, Wrapped
  <2>5. ASSUME NEW i \in Item, NextItem(i) PROVE Safe'
    <3> DEFINE st == [status EXCEPT ![i] = "done"]
    <3>1. st \in [Item -> Status] /\ Settled(st)
      BY <1>0, <2>5 DEF TypeOK, Settled, NextItem, Status
    <3>2. Take(remaining, st) /\ UNCHANGED <<ex, failed>>
      BY <1>0, <2>5 DEF NextItem
    <3> HIDE DEF st
    <3> QED
      BY <1>2, <3>1, <3>2, TakeSafe
  <2>6. ASSUME Value PROVE Safe'
    <3>1. CASE remaining > 0
      <4>1. UNCHANGED <<items, remaining, status, failed>> /\ returned' = returned + 1
        BY <2>6, <3>1 DEF Value
      <4>2. Taken' = Taken /\ Running' = Running /\ Failing' = Failing
        BY <4>1 DEF Taken, Running, Failing
      <4>3. NothingStranded'
        BY <1>0, <4>1 DEF NothingStranded, Minded, TypeOK
      <4> QED
        BY <1>0, <4>1, <4>2, <4>3 DEF Safe, Clean, Counted, Guarded, Wrapped
    <3>2. CASE ~(remaining > 0)
      <4>1. /\ Take(Len(items), status) /\ UNCHANGED <<ex, failed>>
            /\ status \in [Item -> Status] /\ Settled(status) /\ remaining = 0
        BY <1>0, <2>6, <3>2 DEF Value, TypeOK, Settled
      <4> QED
        BY <1>2, <4>1, TakeSafe
    <3> QED
      BY <3>1, <3>2
  <2>7. ASSUME Error \/ DoneThrows PROVE Safe'
    BY <2>0, <2>7 DEF Error, DoneThrows
  <2>8. ASSUME Done PROVE Safe'
    <3>1. UNCHANGED <<items, remaining, status, failed, sending>>
      BY <2>8 DEF Done
    <3>2. Taken' = Taken /\ Running' = Running /\ Failing' = Failing
      BY <3>1 DEF Taken, Running, Failing
    <3>3. NothingStranded'
      <4>1. CASE remaining > 0
        BY <1>0, <1>2, <3>1, <3>2, <4>1 DEF Guarded, NothingStranded, Minded, Wrapped
      <4>2. CASE ~(remaining > 0)
        BY <1>0, <2>8, <3>1, <4>2 DEF Done, NothingStranded, Minded, TypeOK
      <4> QED
        BY <4>1, <4>2
    <3> QED
      BY <1>0, <3>1, <3>2, <3>3 DEF Safe, Clean, Counted, Guarded, Wrapped
  <2>9. ASSUME UNCHANGED vars PROVE Safe'
    BY <1>0, <2>9 DEF vars, Safe, Clean, Counted, Guarded, NothingStranded, Minded, Wrapped,
                      Taken, Running, Failing
  <2> QED
    BY <2>1, <2>2, <2>3, <2>4, <2>5, <2>6, <2>7, <2>8, <2>9
    DEF Next, Worker, Start, End, Finished
<1> QED
  BY <1>1, <1>2

LEMMA Invariance == Spec => []IInv
<1>1. Init => IInv
  BY TypeInit, QueueInit, SafeInit DEF IInv, Safe
<1>2. IInv /\ [Next]_vars => IInv'
  BY TypeStep, QueueStep, SafeStep DEF IInv, Safe
<1> QED
  BY <1>1, <1>2, PTL DEF Spec

\* On a reliable executor remaining_ is at most the length of the queue, unless
\* the loop of value() has decremented it below zero.
THEOREM CounterCorrect == Spec => []CounterBounded
<1>1. IInv => CounterBounded
  BY CountedIsBounded DEF IInv
<1> QED
  BY <1>1, Invariance, PTL

\* On a reliable executor submit() is right when it sends no worker: an item in the
\* queue always has one, unless remaining_ has wrapped.
THEOREM SubmitCorrect == Spec => []NothingStranded
<1>1. IInv => NothingStranded
  BY DEF IInv
<1> QED
  BY <1>1, Invariance, PTL

-----------------------------------------------------------------------------
(***************************************************************************)
(* blocking_submit returns neither early nor while work can still appear,   *)
(* for every number of nested tasks and every nesting of their submissions. *)
(***************************************************************************)
\* A task that is being submitted is counted, not yet started, and being
\* submitted by one task only.
ChildReserved ==
  /\ \A p \in Task : pc[p] = "submit" => child[p] \in Nested /\ pc[child[p]] = "counted"
  /\ \A p, q \in Task : pc[p] = "submit" /\ pc[q] = "submit" /\ child[p] = child[q] => p = q

\* The sender and the nested tasks go through different parts of the code.
Roles == /\ pc[Outer] \notin {"none", "counted", "queued", "lost"}
         /\ \A c \in Nested : pc[c] \notin {"start", "complete"}

\* What the caller relies on when it has seen done and nested = 0.
Quiet == /\ done <=> pc[Outer] = "finished"
         /\ main = "returned" => done /\ nested = 0

\* The inductive invariant.
BSIInv == BSTypeOK /\ CountExact /\ ChildReserved /\ Roles /\ Quiet

-----------------------------------------------------------------------------
LEMMA OutstandingFinite == IsFiniteSet(Outstanding)
<1>1. IsFiniteSet(Task)
  BY TaskAssumption, FS_AddElement DEF Task
<1>2. Outstanding \subseteq Task
  BY DEF Outstanding
<1> QED
  BY <1>1, <1>2, FS_Subset

\* A step that leaves the outstanding set and the counter alone.
LEMMA CountKept ==
  ASSUME CountExact, Outstanding' = Outstanding, nested' = nested
  PROVE  CountExact'
BY DEF CountExact

\* A step that counts one more task, which was not outstanding.
LEMMA CountUp ==
  ASSUME CountExact, NEW x, x \notin Outstanding,
         Outstanding' = Outstanding \cup {x}, nested' = nested + 1
  PROVE  CountExact'
BY OutstandingFinite, FS_AddElement DEF CountExact

\* A step that counts off one outstanding task.
LEMMA CountDown ==
  ASSUME CountExact, NEW x \in Outstanding,
         Outstanding' = Outstanding \ {x}, nested' = nested - 1
  PROVE  CountExact' /\ nested' \in Nat
<1>1. Cardinality(Outstanding \ {x}) = Cardinality(Outstanding) - 1
  BY OutstandingFinite, FS_RemoveElement
<1>2. IsFiniteSet(Outstanding \ {x})
  BY OutstandingFinite, FS_RemoveElement
<1>3. Cardinality(Outstanding \ {x}) \in Nat
  BY <1>2, FS_CardinalityType
<1> QED
  BY <1>1, <1>3 DEF CountExact

\* While a task is outstanding the counter is not zero.
LEMMA CountPositive ==
  ASSUME CountExact, NEW x \in Outstanding
  PROVE  nested # 0
<1>1. Outstanding # {}
  OBVIOUS
<1> QED
  BY <1>1, OutstandingFinite, FS_EmptySet DEF CountExact

-----------------------------------------------------------------------------
LEMMA BSInitIInv == BSInit => BSIInv
<1> SUFFICES ASSUME BSInit PROVE BSIInv
  OBVIOUS
<1> USE TaskAssumption DEF BSInit
<1>1. BSTypeOK
  BY DEF BSTypeOK, Task, Labels, MainLabels
<1>2. Outstanding = {}
  BY DEF Outstanding
<1>3. CountExact
  BY <1>2, FS_EmptySet DEF CountExact
<1>4. ChildReserved
  BY DEF ChildReserved
<1>5. Roles
  BY DEF Roles, Task
<1>6. Quiet
  BY DEF Quiet, Task
<1> QED
  BY <1>1, <1>3, <1>4, <1>5, <1>6 DEF BSIInv

LEMMA BSStepIInv == BSIInv /\ [BSNext]_bsVars => BSIInv'
<1> SUFFICES ASSUME BSIInv, [BSNext]_bsVars PROVE BSIInv'
  OBVIOUS
<1> USE TaskAssumption DEF BSIInv
<1>0. Outer \in Task /\ Nested \subseteq Task
  BY DEF Task
<1>1. CASE Main \/ SpuriousWakeup
  <2>1. pc' = pc /\ child' = child /\ nested' = nested /\ done' = done
    BY <1>1 DEF Main, Lock, Check, Block, SpuriousWakeup
  <2>2. main' \in MainLabels /\ (main' = "returned" => done /\ nested = 0)
    BY <1>1 DEF Main, Lock, Check, Block, SpuriousWakeup, MainLabels, BSTypeOK, Quiet
  <2>3. Outstanding' = Outstanding
    BY <2>1 DEF Outstanding
  <2>4. BSTypeOK' /\ ChildReserved' /\ Roles' /\ Quiet'
    BY <2>1, <2>2 DEF BSTypeOK, ChildReserved, Roles, Quiet
  <2> QED
    BY <2>1, <2>3, <2>4, CountKept
<1>2. CASE OuterStep
  <2>1. CASE OuterValue
    <3> USE <2>1 DEF OuterValue, Step
    <3>1. Outer \notin Outstanding /\ Outstanding' = Outstanding \cup {Outer}
      BY <1>0 DEF Outstanding, BSTypeOK
    <3>2. CountExact'
      BY <3>1, CountUp
    <3>3. ~done
      BY DEF Quiet
    <3>4. BSTypeOK'
      BY <1>0 DEF BSTypeOK, Labels
    <3>5. ChildReserved' /\ Roles'
      BY <1>0 DEF ChildReserved, Roles, BSTypeOK
    <3>6. Quiet'
      BY <1>0, <3>3 DEF Quiet, BSTypeOK
    <3> QED
      BY <3>2, <3>4, <3>5, <3>6
  <2>2. CASE OuterPlain
    <3> USE <2>2 DEF OuterPlain, Step
    <3>1. Outstanding' = Outstanding
      BY <1>0 DEF Outstanding, BSTypeOK
    <3>2. BSTypeOK' /\ ChildReserved' /\ Roles' /\ Quiet'
      BY <1>0 DEF BSTypeOK, Labels, ChildReserved, Roles, Quiet
    <3> QED
      BY <3>1, <3>2, CountKept
  <2>3. CASE OuterLeave
    <3> USE <2>3 DEF OuterLeave, Step
    <3>1. Outer \in Outstanding /\ Outstanding' = Outstanding \ {Outer}
      BY <1>0 DEF Outstanding, BSTypeOK
    <3>2. CountExact' /\ nested' \in Nat
      BY <3>1, CountDown
    <3>3. BSTypeOK'
      BY <1>0, <3>2 DEF BSTypeOK, Labels
    <3>4. ChildReserved' /\ Roles'
      BY <1>0 DEF BSTypeOK, ChildReserved, Roles
    <3>5. Quiet'
      BY <1>0 DEF BSTypeOK, Quiet
    <3> QED
      BY <3>2, <3>3, <3>4, <3>5
  <2>4. CASE OuterNotify
    <3> USE <2>4 DEF OuterNotify, Step, NotifyAll
    <3>1. Outstanding' = Outstanding
      BY <1>0 DEF Outstanding, BSTypeOK
    <3>2. BSTypeOK' /\ ChildReserved' /\ Roles' /\ Quiet'
      BY <1>0 DEF BSTypeOK, Labels, MainLabels, ChildReserved, Roles, Quiet
    <3> QED
      BY <3>1, <3>2, CountKept
  <2>5. CASE OuterComplete
    <3> USE <2>5 DEF OuterComplete, Step, NotifyAll
    <3>1. Outstanding' = Outstanding
      BY <1>0 DEF Outstanding, BSTypeOK
    <3>2. BSTypeOK' /\ ChildReserved' /\ Roles' /\ Quiet'
      BY <1>0 DEF BSTypeOK, Labels, MainLabels, ChildReserved, Roles, Quiet
    <3> QED
      BY <3>1, <3>2, CountKept
  <2> QED
    BY <1>2, <2>1, <2>2, <2>3, <2>4, <2>5 DEF OuterStep
<1>3. ASSUME NEW c \in Nested, NestedStep(c) PROVE BSIInv'
  <2>0. c \in Task /\ c # Outer
    BY <1>0
  <2>1. CASE NestedValue(c) \/ NestedError(c)
    <3> USE <2>1 DEF NestedValue, NestedError, Step
    <3>1. Outstanding' = Outstanding
      BY <2>0 DEF Outstanding, BSTypeOK
    <3>2. BSTypeOK' /\ ChildReserved' /\ Roles' /\ Quiet'
      BY <2>0, <1>0 DEF BSTypeOK, Labels, ChildReserved, Roles, Quiet
    <3> QED
      BY <3>1, <3>2, CountKept
  <2>2. CASE NestedLeave(c)
    <3> USE <2>2 DEF NestedLeave, Step
    <3>1. c \in Outstanding /\ Outstanding' = Outstanding \ {c}
      BY <2>0 DEF Outstanding, BSTypeOK
    <3>2. CountExact' /\ nested' \in Nat
      BY <3>1, CountDown
    <3>3. nested # 0
      BY <3>1, CountPositive
    <3>4. BSTypeOK'
      BY <2>0, <3>2 DEF BSTypeOK, Labels
    <3>5. ChildReserved' /\ Roles'
      BY <1>0, <2>0 DEF BSTypeOK, ChildReserved, Roles
    <3>6. Quiet'
      BY <1>0, <2>0, <3>3 DEF BSTypeOK, Quiet
    <3> QED
      BY <3>2, <3>4, <3>5, <3>6
  <2>3. CASE NestedNotify(c)
    <3> USE <2>3 DEF NestedNotify, Step, NotifyAll
    <3>1. Outstanding' = Outstanding
      BY <2>0 DEF Outstanding, BSTypeOK
    <3>2. BSTypeOK' /\ ChildReserved' /\ Roles' /\ Quiet'
      BY <2>0, <1>0 DEF BSTypeOK, Labels, MainLabels, ChildReserved, Roles, Quiet
    <3> QED
      BY <3>1, <3>2, CountKept
  <2> QED
    BY <1>3, <2>1, <2>2, <2>3 DEF NestedStep
<1>4. ASSUME NEW p \in Task, TaskStep(p) PROVE BSIInv'
  <2>1. CASE Count(p)
    <3>1. PICK c \in Nested : /\ pc[c] = "none"
                              /\ pc' = [pc EXCEPT ![p] = "submit", ![c] = "counted"]
                              /\ child' = [child EXCEPT ![p] = c]
      BY <2>1 DEF Count
    <3>2. /\ pc[p] = "body" /\ nested' = nested + 1
          /\ done' = done /\ main' = main /\ p # c /\ c \in Task /\ c # Outer
      BY <2>1, <3>1, <1>0 DEF Count
    <3>3. c \notin Outstanding /\ Outstanding' = Outstanding \cup {c} /\ p \in Outstanding
      BY <3>1, <3>2 DEF Outstanding, BSTypeOK
    <3>4. CountExact'
      BY <3>2, <3>3, CountUp
    <3>5. nested # 0
      BY <3>3, CountPositive
    <3>6. BSTypeOK'
      BY <3>1, <3>2 DEF BSTypeOK, Labels
    <3>7. ChildReserved'
      BY <3>1, <3>2 DEF BSTypeOK, ChildReserved
    <3>8. Roles'
      BY <1>0, <3>1, <3>2 DEF BSTypeOK, Roles
    <3>9. Quiet'
      BY <1>0, <3>1, <3>2, <3>5 DEF BSTypeOK, Quiet
    <3> QED
      BY <3>4, <3>6, <3>7, <3>8, <3>9
  <2>2. CASE SubmitChild(p) \/ SubmitThrows(p)
    <3>1. PICK l1 \in {"body", "leave"}, l2 \in {"queued", "lost"} :
            /\ pc[p] = "submit"
            /\ pc' = [pc EXCEPT ![p] = l1, ![child[p]] = l2]
            /\ UNCHANGED <<done, nested, main, child>>
      BY <2>2 DEF SubmitChild, SubmitThrows
    <3>2. /\ child[p] \in Nested /\ child[p] \in Task /\ child[p] # Outer /\ p # child[p]
          /\ pc[child[p]] = "counted"
      BY <3>1, <1>0 DEF ChildReserved
    <3>3. Outstanding' = Outstanding
      BY <3>1, <3>2 DEF Outstanding, BSTypeOK
    <3>4. BSTypeOK'
      BY <3>1, <3>2 DEF BSTypeOK, Labels
    <3>5. ChildReserved'
      BY <3>1, <3>2 DEF BSTypeOK, ChildReserved
    <3>6. Roles' /\ Quiet'
      BY <1>0, <3>1, <3>2 DEF BSTypeOK, Roles, Quiet
    <3> QED
      BY <3>1, <3>3, <3>4, <3>5, <3>6, CountKept
  <2>3. CASE BodyEnds(p)
    <3> USE <2>3 DEF BodyEnds, Step
    <3>1. Outstanding' = Outstanding
      BY DEF Outstanding, BSTypeOK
    <3>2. BSTypeOK' /\ ChildReserved' /\ Roles' /\ Quiet'
      BY <1>0 DEF BSTypeOK, Labels, ChildReserved, Roles, Quiet
    <3> QED
      BY <3>1, <3>2, CountKept
  <2> QED
    BY <1>4, <2>1, <2>2, <2>3 DEF TaskStep, NestedSubmit
<1>5. CASE BSFinished \/ UNCHANGED bsVars
  <2>1. UNCHANGED <<done, nested, main, pc, child>>
    BY <1>5 DEF BSFinished, bsVars
  <2>2. Outstanding' = Outstanding
    BY <2>1 DEF Outstanding
  <2>3. BSTypeOK' /\ ChildReserved' /\ Roles' /\ Quiet'
    BY <2>1 DEF BSTypeOK, ChildReserved, Roles, Quiet
  <2> QED
    BY <2>1, <2>2, <2>3, CountKept
<1> QED
  BY <1>1, <1>2, <1>3, <1>4, <1>5 DEF BSNext

LEMMA BSInvariance == BSSpec => []BSIInv
BY BSInitIInv, BSStepIInv, PTL DEF BSSpec

-----------------------------------------------------------------------------
\* The types: in particular the counter never becomes negative.
THEOREM BSTypeCorrect == BSSpec => []BSTypeOK
<1>1. BSIInv => BSTypeOK
  BY DEF BSIInv
<1> QED
  BY <1>1, BSInvariance, PTL

\* lock_state::nested is the number of outstanding tasks, at all times.
THEOREM CountCorrect == BSSpec => []CountExact
<1>1. BSIInv => CountExact
  BY DEF BSIInv
<1> QED
  BY <1>1, BSInvariance, PTL

\* blocking_submit does not return before the sender and every task submitted
\* through its executor are complete, however many there are.
THEOREM ReturnCorrect == BSSpec => []NoEarlyReturn
<1>1. BSIInv => NoEarlyReturn
  <2> SUFFICES ASSUME BSIInv, main = "returned"
               PROVE  done /\ \A p \in Task : pc[p] \in {"none", "notify", "finished"}
    BY DEF NoEarlyReturn
  <2>1. done /\ nested = 0
    BY DEF BSIInv, Quiet
  <2>2. Outstanding = {}
    BY <2>1, CountPositive DEF BSIInv
  <2>3. ASSUME NEW p \in Task PROVE pc[p] \in {"none", "notify", "finished"}
    <3>1. pc[p] \in {"none", "start", "notify", "complete", "finished"}
      BY <2>2 DEF Outstanding, BSIInv, BSTypeOK, Labels
    <3>2. CASE p = Outer
      BY <2>1, <3>2 DEF BSIInv, Quiet
    <3>3. CASE p \in Nested
      BY <3>1, <3>3 DEF BSIInv, Roles
    <3> QED
      BY <3>2, <3>3 DEF Task
  <2> QED
    BY <2>1, <2>3
<1> QED
  BY <1>1, BSInvariance, PTL

\* The pair the caller tests is stable: after done and nested = 0 no step of
\* any task starts new work.
THEOREM QuiescenceCorrect == BSSpec => QuiescenceStable
<1>1. BSIInv /\ [BSNext]_bsVars => [done /\ nested = 0 => done' /\ nested' = 0]_bsVars
  <2> SUFFICES ASSUME BSIInv, BSNext, done, nested = 0 PROVE done' /\ nested' = 0
    BY DEF bsVars
  <2>1. pc[Outer] = "finished"
    BY DEF BSIInv, Quiet
  <2>2. ASSUME NEW p \in Task PROVE pc[p] \notin {"body", "submit", "leave"}
    BY CountPositive DEF BSIInv, Outstanding
  <2>3. Outer \in Task /\ Nested \subseteq Task
    BY DEF Task
  <2>4. CASE Main \/ SpuriousWakeup \/ BSFinished
    BY <2>4 DEF Main, Lock, Check, Block, SpuriousWakeup, BSFinished, bsVars
  <2>5. CASE OuterStep
    BY <2>1, <2>5 DEF OuterStep, OuterValue, OuterPlain, OuterLeave, OuterNotify,
       OuterComplete, Step
  <2>6. ASSUME NEW c \in Nested, NestedStep(c) PROVE done' /\ nested' = 0
    BY <2>2, <2>3, <2>6 DEF NestedStep, NestedValue, NestedError, NestedLeave,
       NestedNotify, Step
  <2>7. ASSUME NEW p \in Task, TaskStep(p) PROVE done' /\ nested' = 0
    BY <2>2, <2>7 DEF TaskStep, NestedSubmit, Count, SubmitChild, SubmitThrows, BodyEnds, Step
  <2> QED
    BY <2>4, <2>5, <2>6, <2>7 DEF BSNext
<1> QED
  BY <1>1, BSInvariance, PTL DEF BSSpec, QuiescenceStable
=============================================================================
