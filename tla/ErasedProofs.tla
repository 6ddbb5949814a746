---------------------------- MODULE ErasedProofs ----------------------------
(***************************************************************************)
(* Proofs about Erased, for any number of places and objects.               *)
(*                                                                         *)
(* Counting instances needs to know that no two wrappers hold one object.   *)
(* What the flags protect needs to know what they mean: done_ and started_  *)
(* of a wrapper tell what its object was told, unless the object is in      *)
(* unaware.                                                                 *)
(***************************************************************************)
EXTENDS Erased, FiniteSetTheorems, TLAPS

Wrapper ==
  [vptr : {"absent", "noop", "heap", "insitu"}, obj : Objects \cup {null},
   done : BOOLEAN, started : BOOLEAN]

TypeOK ==
  /\ class \in Classes
  /\ w \in [Places -> Wrapper]
  /\ made \subseteq Objects
  /\ insts \in [Objects -> Nat]
  /\ recv \in [Objects -> FlowReceiverType]
  /\ again \subseteq Objects /\ unaware \subseteq Objects
  /\ terminated \in {"no", "unstarted", "empty"}
  /\ ref \in Places \cup {null}

Held(o) == \E s \in Places : w[s].obj = o

\* A wrapper's table and its data agree, no two wrappers hold the same object, and the
\* instances of an object are counted by the wrapper that holds it.
Owners ==
  /\ \A s \in Places : Holds(w[s]) <=> w[s].obj # null
  /\ \A s, t \in Places : w[s].obj # null /\ w[s].obj = w[t].obj => s = t
  /\ \A s \in Places : w[s].obj # null => w[s].obj \in made
  /\ \A o \in Objects : insts[o] = IF Held(o) THEN 1 ELSE 0

\* What was never wrapped was never called.
Untouched ==
  \A o \in Objects \ made : ~Ended(recv[o]) /\ ~recv[o].started

\* done_ of a wrapper says that its object was completed, unless the object is unaware;
\* so does started_.  Neither is ever set for an object that was not told.
Aware ==
  \A s \in Places :
    w[s].obj # null =>
      /\ w[s].done => Ended(recv[w[s].obj])
      /\ w[s].started => recv[w[s].obj].started
      /\ w[s].obj \notin unaware =>
           /\ Ended(recv[w[s].obj]) => w[s].done
           /\ recv[w[s].obj].started => w[s].started

\* The objects' own flags: nothing ends the process, done_ says the receiver was completed.
Receivers ==
  /\ \A o \in Objects : ~recv[o].dead
  /\ \A o \in Guarded : recv[o].done <=> Ended(recv[o])

ErasedInv == TypeOK /\ Owners /\ Untouched /\ Aware /\ Receivers /\ FlagsProtect

-----------------------------------------------------------------------------
(* Wrappers *)

LEMMA Wrappers ==
  /\ Absent \in Wrapper /\ Absent.vptr = "absent" /\ Absent.obj = null
  /\ Empty \in Wrapper /\ Empty.vptr = "noop" /\ Empty.obj = null
  /\ ~Absent.done /\ ~Absent.started /\ ~Empty.done /\ ~Empty.started
<1>1. Absent \in Wrapper /\ Absent.vptr = "absent" /\ Absent.obj = null
  BY DEF Absent, Wrapper
<1>2. ~Absent.done /\ ~Absent.started
  BY DEF Absent
<1>3. Empty \in Wrapper /\ Empty.vptr = "noop" /\ Empty.obj = null
  BY <1>1 DEF Empty, Wrapper
<1>4. Empty.done = Absent.done /\ Empty.started = Absent.started
  BY <1>1 DEF Empty, Wrapper
<1> QED
  BY <1>1, <1>2, <1>3, <1>4

New(how, o) == [Empty EXCEPT !.vptr = how, !.obj = o]

LEMMA NewWrapper ==
  ASSUME NEW how \in {"absent", "noop", "heap", "insitu"}, NEW o \in Objects \cup {null}
  PROVE  /\ New(how, o) \in Wrapper /\ New(how, o).vptr = how /\ New(how, o).obj = o
         /\ ~New(how, o).done /\ ~New(how, o).started
<1>1. /\ New(how, o) \in Wrapper /\ New(how, o).vptr = how /\ New(how, o).obj = o
      /\ New(how, o).done = Empty.done /\ New(how, o).started = Empty.started
  BY Wrappers DEF Wrapper, New
<1> QED
  BY <1>1, Wrappers

LEMMA Moves ==
  ASSUME NEW x \in Wrapper
  PROVE  /\ MovedTo(x) \in Wrapper
         /\ MovedTo(x).vptr = x.vptr /\ MovedTo(x).obj = x.obj
         /\ ~MovedTo(x).done /\ ~MovedTo(x).started
         /\ MovedFrom(x) \in Wrapper
         /\ MovedFrom(x).vptr = "noop" /\ MovedFrom(x).obj = null
<1>1. x.vptr \in {"absent", "noop", "heap", "insitu"} /\ x.obj \in Objects \cup {null}
  BY DEF Wrapper
<1>2. MovedTo(x) \in Wrapper /\ MovedTo(x).vptr = x.vptr /\ MovedTo(x).obj = x.obj
      /\ ~MovedTo(x).done /\ ~MovedTo(x).started
  <2>1. MovedTo(x) = New(x.vptr, x.obj)
    BY DEF MovedTo, New
  <2> QED
    BY <1>1, <2>1, NewWrapper
<1>3. /\ MovedFrom(x) \in Wrapper
      /\ MovedFrom(x).vptr = "noop" /\ MovedFrom(x).obj = null
  BY DEF MovedFrom, Wrapper
<1> QED
  BY <1>2, <1>3

-----------------------------------------------------------------------------
(* Receivers *)

\* What a call makes of a receiver of the library.
Called(r, r2) ==
  /\ r2.started = r.started /\ ~r2.dead
  /\ r2.done <=> Ended(r2)

LEMMA ReceiverCalls ==
  ASSUME NEW r \in FlowReceiverType, ~r.dead, r.done <=> Ended(r)
  PROVE  /\ Value(r) \in FlowReceiverType /\ Called(r, Value(r)) /\ Ended(Value(r)) = Ended(r)
         /\ \A e \in Errors : /\ Error(r, e) \in FlowReceiverType /\ Called(r, Error(r, e))
                              /\ Ended(Error(r, e))
         /\ Done(r) \in FlowReceiverType /\ Called(r, Done(r)) /\ Ended(Done(r))
<1>1. r.n \in Nat /\ r.end \in Ends /\ r.done \in BOOLEAN /\ r.started \in BOOLEAN /\ r.dead \in BOOLEAN
  BY DEF FlowReceiverType
<1>2. CASE r.done
  BY <1>2 DEF Value, Error, Done, Called
<1>3. CASE ~r.done
  <2>1. r.end = "none"
    BY <1>3 DEF Ended
  <2>2. /\ Value(r) \in FlowReceiverType /\ Value(r).started = r.started /\ Value(r).dead = r.dead
        /\ Value(r).done = r.done /\ Value(r).end = r.end /\ Value(r).n = r.n + 1
    BY <1>1, <1>3 DEF Value, FlowReceiverType
  <2>3. ASSUME NEW e \in Errors
        PROVE  /\ Error(r, e) \in FlowReceiverType /\ Error(r, e).started = r.started
               /\ Error(r, e).dead = r.dead /\ Error(r, e).done /\ Error(r, e).end = e
               /\ Error(r, e).n = r.n
    BY <1>1, <1>3 DEF Error, FlowReceiverType, Ends
  <2>4. /\ Done(r) \in FlowReceiverType /\ Done(r).started = r.started
        /\ Done(r).dead = r.dead /\ Done(r).done /\ Done(r).end = "done"
        /\ Done(r).n = r.n
    BY <1>1, <1>3 DEF Done, FlowReceiverType, Ends
  <2>5. Called(r, Value(r)) /\ Ended(Value(r)) = Ended(r)
    BY <1>3, <2>1, <2>2 DEF Called, Ended
  <2>6. \A e \in Errors : Called(r, Error(r, e)) /\ Ended(Error(r, e))
    BY <2>1, <2>3 DEF Called, Ended, Errors
  <2>7. Called(r, Done(r)) /\ Ended(Done(r))
    BY <2>1, <2>4 DEF Called, Ended
  <2> QED
    BY <2>2, <2>3, <2>4, <2>5, <2>6, <2>7
<1> QED
  BY <1>1, <1>2, <1>3

LEMMA GuardsCall ==
  ASSUME NEW r \in FlowReceiverType, ~r.dead, r.done <=> Ended(r), is_flow => r.started,
         NEW sig \in Signals
  PROVE  /\ Guards(r, sig) \in FlowReceiverType /\ Called(r, Guards(r, sig))
         /\ sig = "value" => Ended(Guards(r, sig)) = Ended(r)
         /\ sig # "value" => Ended(Guards(r, sig))
<1>1. CASE sig = "value"
  BY <1>1, ReceiverCalls DEF Guards, FlowValue
<1>2. CASE sig = "throws"
  BY <1>2, ReceiverCalls DEF Guards, set_value, Errors
<1>3. CASE sig = "error"
  BY <1>3, ReceiverCalls DEF Guards, FlowError, Errors
<1>4. CASE sig = "done"
  BY <1>4, ReceiverCalls DEF Guards, FlowDone
<1> QED
  BY <1>1, <1>2, <1>3, <1>4 DEF Signals

LEMMA RawCall ==
  ASSUME NEW r \in FlowReceiverType, NEW sig \in Signals
  PROVE  /\ Raw(r, sig) \in FlowReceiverType /\ Raw(r, sig).started = r.started
         /\ Raw(r, sig).dead = r.dead
         /\ sig = "value" => Ended(Raw(r, sig)) = Ended(r)
         /\ sig # "value" => Ended(Raw(r, sig))
<1>1. CASE sig = "value"
  BY <1>1 DEF Raw, FlowReceiverType, Ended
<1>2. CASE sig = "throws"
  BY <1>2 DEF Raw, FlowReceiverType, Ends, Errors, Ended
<1>3. CASE sig = "error"
  BY <1>3 DEF Raw, FlowReceiverType, Ends, Errors, Ended
<1>4. CASE sig = "done"
  BY <1>4 DEF Raw, FlowReceiverType, Ends, Errors, Ended
<1> QED
  BY <1>1, <1>2, <1>3, <1>4 DEF Signals

-----------------------------------------------------------------------------
(* Storage *)

LEMMA ReleasedEffect ==
  ASSUME TypeOK, Owners, NEW t \in Places
  PROVE  /\ Released(w[t]) \in [Objects -> Nat]
         /\ \A o \in Objects :
              Released(w[t])[o] = IF Held(o) /\ o # w[t].obj THEN 1 ELSE 0
<1>1. w[t].obj \in Objects \cup {null}
  BY DEF TypeOK, Wrapper
<1>2. CASE w[t].obj = null
  BY <1>2, ErasedAssumption DEF Released, TypeOK, Owners
<1>3. CASE w[t].obj # null
  <2>1. Holds(w[t]) /\ w[t].obj \in Objects /\ Held(w[t].obj)
    BY <1>1, <1>3 DEF Owners, Held
  <2>2. insts[w[t].obj] = 1
    BY <2>1 DEF Owners
  <2>3. Released(w[t]) = [insts EXCEPT ![w[t].obj] = 0]
    BY <1>3, <2>1, <2>2 DEF Released
  <2> QED
    BY <2>1, <2>3 DEF TypeOK, Owners
<1> QED
  BY <1>2, <1>3

\* A step of one wrapper's storage leaves what the objects were told alone.
Stores == UNCHANGED <<class, recv, again, terminated, ref>>

LEMMA StoresKeeps ==
  ASSUME TypeOK, Receivers, Stores
  PROVE  Receivers'
<1> QED
  BY DEF Stores, Receivers

LEMMA DefaultStep ==
  ASSUME ErasedInv, NEW s \in Places, Default(s)
  PROVE  ErasedInv'
<1>1. /\ w[s].vptr = "absent" /\ w' = [w EXCEPT ![s] = Empty]
      /\ UNCHANGED <<class, made, insts, recv, again, unaware, terminated, ref>>
  BY DEF Default, Free
<1>2. w[s].obj = null
  BY <1>1 DEF ErasedInv, Owners, Holds
<1>3. /\ w'[s].vptr = "noop" /\ w'[s].obj = null
      /\ \A u \in Places \ {s} : w'[u] = w[u]
  BY <1>1, Wrappers DEF ErasedInv, TypeOK
<1>4. TypeOK'
  BY <1>1, Wrappers DEF ErasedInv, TypeOK
<1>5. \A u \in Places : w'[u].obj = w[u].obj
  BY <1>2, <1>3
<1>6. Owners'
  <2>1. \A u \in Places : Holds(w'[u]) <=> w'[u].obj # null
    BY <1>3 DEF ErasedInv, Owners, Holds
  <2> QED
    BY <1>1, <1>5, <2>1 DEF ErasedInv, Owners, Held
<1>7. Untouched' /\ FlagsProtect'
  BY <1>1 DEF ErasedInv, Untouched, FlagsProtect
<1>8. Aware'
  BY <1>1, <1>3 DEF ErasedInv, Aware
<1>9. Receivers'
  BY <1>1, StoresKeeps DEF ErasedInv, Stores
<1> QED
  BY <1>4, <1>6, <1>7, <1>8, <1>9 DEF ErasedInv

LEMMA WrapStep ==
  ASSUME ErasedInv, NEW s \in Places, NEW o \in Objects, NEW how \in {"heap", "insitu"},
         Wrap(s, o, how)
  PROVE  ErasedInv'
<1>1. /\ w[s].vptr = "absent" /\ o \notin made
      /\ made' = made \cup {o} /\ insts' = [insts EXCEPT ![o] = @ + 1]
      /\ UNCHANGED <<class, recv, again, unaware, terminated, ref>>
  BY DEF Wrap, Free
<1>2. PICK x : x = New(how, o) /\ w' = [w EXCEPT ![s] = x]
  BY DEF Wrap, New
<1>3. x \in Wrapper /\ x.vptr = how /\ x.obj = o /\ ~x.done /\ ~x.started
  BY <1>2, NewWrapper
<1>4. w'[s] = x /\ \A u \in Places \ {s} : w'[u] = w[u]
  BY <1>2 DEF ErasedInv, TypeOK
<1>5. w[s].obj = null /\ o # null
  BY <1>1, ErasedAssumption DEF ErasedInv, Owners, Holds
<1>6. ~Held(o) /\ insts[o] = 0
  BY <1>1, <1>5 DEF ErasedInv, Owners, Held
<1>7. TypeOK'
  <2>1. w' \in [Places -> Wrapper]
    BY <1>2, <1>3 DEF ErasedInv, TypeOK
  <2>2. insts' \in [Objects -> Nat]
    BY <1>1, <1>6 DEF ErasedInv, TypeOK
  <2> QED
    BY <1>1, <2>1, <2>2 DEF ErasedInv, TypeOK
<1>8. Owners'
  <2>1. \A u \in Places : Holds(w'[u]) <=> w'[u].obj # null
    BY <1>3, <1>4, <1>5 DEF ErasedInv, Owners, Holds
  <2>2. \A u, v \in Places : w'[u].obj # null /\ w'[u].obj = w'[v].obj => u = v
    BY <1>3, <1>4, <1>6 DEF ErasedInv, Owners, Held
  <2>3. \A u \in Places : w'[u].obj # null => w'[u].obj \in made'
    BY <1>1, <1>3, <1>4 DEF ErasedInv, Owners
  <2>4. \A q \in Objects : Held(q)' <=> Held(q) \/ q = o
    BY <1>3, <1>4, <1>5, ErasedAssumption DEF Held
  <2>5. \A q \in Objects : insts'[q] = IF q = o THEN 1 ELSE insts[q]
    BY <1>1, <1>6 DEF ErasedInv, TypeOK
  <2> QED
    BY <1>6, <2>1, <2>2, <2>3, <2>4, <2>5 DEF ErasedInv, Owners
<1>9. Untouched' /\ FlagsProtect'
  BY <1>1 DEF ErasedInv, Untouched, FlagsProtect
<1>10. Aware'
  BY <1>1, <1>3, <1>4 DEF ErasedInv, Aware, Untouched
<1>11. Receivers'
  BY <1>1, StoresKeeps DEF ErasedInv, Stores
<1> QED
  BY <1>7, <1>8, <1>9, <1>10, <1>11 DEF ErasedInv

LEMMA WrapThrowsStep ==
  ASSUME ErasedInv, NEW s \in Places, NEW o \in Objects, WrapThrows(s, o)
  PROVE  ErasedInv'
<1>1. /\ made' = made \cup {o}
      /\ UNCHANGED <<class, w, insts, recv, again, unaware, terminated, ref>>
  BY DEF WrapThrows
<1>2. TypeOK' /\ Owners'
  BY <1>1 DEF ErasedInv, TypeOK, Owners, Held
<1>3. Untouched' /\ FlagsProtect' /\ Aware'
  BY <1>1 DEF ErasedInv, Untouched, FlagsProtect, Aware
<1>4. Receivers'
  BY <1>1, StoresKeeps DEF ErasedInv, Stores
<1> QED
  BY <1>2, <1>3, <1>4 DEF ErasedInv

\* What moving the wrapper at s to t does to the places.
Moved(s, t) ==
  /\ w' \in [Places -> Wrapper]
  /\ w'[t].vptr = w[s].vptr /\ w'[t].obj = w[s].obj /\ ~w'[t].done /\ ~w'[t].started
  /\ w'[s].vptr = "noop" /\ w'[s].obj = null
  /\ \A u \in Places : u # s /\ u # t => w'[u] = w[u]

LEMMA MovedEffect ==
  ASSUME TypeOK, NEW s \in Places, NEW t \in Places, s # t,
         w' = [w EXCEPT ![t] = MovedTo(w[s]), ![s] = MovedFrom(w[s])]
  PROVE  Moved(s, t)
<1>1. w[s] \in Wrapper
  BY DEF TypeOK
<1>2. /\ w'[t] = MovedTo(w[s]) /\ w'[s] = MovedFrom(w[s])
      /\ \A u \in Places : u # s /\ u # t => w'[u] = w[u]
  BY DEF TypeOK
<1>3. w' \in [Places -> Wrapper]
  <2>1. MovedTo(w[s]) \in Wrapper /\ MovedFrom(w[s]) \in Wrapper
    BY <1>1, Moves
  <2> QED
    BY <2>1 DEF TypeOK
<1> QED
  BY <1>1, <1>2, <1>3, Moves DEF Moved

\* A wrapper is moved into a place whose own object, if any, has been destroyed.
LEMMA MoveKeeps ==
  ASSUME ErasedInv, NEW s \in Places, NEW t \in Places, s # t, Stores, made' = made,
         Moved(s, t), unaware' = unaware \cup Loses(w[s]),
         insts' \in [Objects -> Nat],
         \A o \in Objects : insts'[o] = IF Held(o) /\ o # w[t].obj THEN 1 ELSE 0
  PROVE  ErasedInv'
<1>1. w[s] \in Wrapper
  BY DEF ErasedInv, TypeOK
<1>2. \A u \in Places : u # s /\ u # t => w'[u] = w[u]
  BY DEF Moved
<1>3. /\ w'[t].vptr = w[s].vptr /\ w'[t].obj = w[s].obj /\ ~w'[t].done /\ ~w'[t].started
      /\ w'[s].vptr = "noop" /\ w'[s].obj = null
  BY DEF Moved
<1>4. Loses(w[s]) \subseteq Objects
  BY <1>1 DEF Loses, Wrapper
<1>5. TypeOK'
  <2>1. w' \in [Places -> Wrapper]
    BY DEF Moved
  <2>2. class' \in Classes
    BY DEF ErasedInv, TypeOK, Stores
  <2> QED
    BY <1>4, <2>1, <2>2 DEF ErasedInv, TypeOK, Stores
<1>6. Owners'
  <2>1. \A u \in Places : Holds(w'[u]) <=> w'[u].obj # null
    BY <1>2, <1>3 DEF ErasedInv, Owners, Holds
  <2>2. \A u, v \in Places : w'[u].obj # null /\ w'[u].obj = w'[v].obj => u = v
    BY <1>2, <1>3 DEF ErasedInv, Owners
  <2>3. \A u \in Places : w'[u].obj # null => w'[u].obj \in made'
    BY <1>2, <1>3 DEF ErasedInv, Owners
  <2>4. ASSUME NEW o \in Objects
        PROVE  Held(o)' <=> Held(o) /\ o # w[t].obj
    <3>1. o # null
      BY ErasedAssumption
    <3>2. ASSUME NEW u \in Places, w'[u].obj = o
          PROVE  Held(o) /\ o # w[t].obj
      BY <1>2, <1>3, <3>1, <3>2 DEF ErasedInv, Owners, Held
    <3>3. ASSUME NEW u \in Places, w[u].obj = o, o # w[t].obj
          PROVE  Held(o)'
      <4>1. CASE u = s
        BY <1>3, <3>3, <4>1 DEF Held
      <4>2. CASE u # s
        BY <1>2, <3>3, <4>2 DEF Held
      <4> QED
        BY <4>1, <4>2
    <3> QED
      BY <3>2, <3>3 DEF Held
  <2> QED
    BY <2>1, <2>2, <2>3, <2>4 DEF Owners
<1>7. Untouched' /\ FlagsProtect'
  BY DEF ErasedInv, Untouched, FlagsProtect, Stores
<1>8. Aware'
  <2> SUFFICES ASSUME NEW u \in Places, w'[u].obj # null
               PROVE  /\ w'[u].done => Ended(recv[w'[u].obj])
                      /\ w'[u].started => recv[w'[u].obj].started
                      /\ w'[u].obj \notin unaware' =>
                           /\ Ended(recv[w'[u].obj]) => w'[u].done
                           /\ recv[w'[u].obj].started => w'[u].started
    BY DEF Aware, Stores
  <2>1. CASE u # s /\ u # t
    BY <1>2, <2>1 DEF ErasedInv, Aware
  <2>2. CASE u = t
    <3>1. w[s].obj # null /\ (w[s].obj \notin unaware' => ~w[s].done /\ ~w[s].started)
      BY <1>3, <2>2 DEF Loses
    <3>2. w[s].obj \notin unaware' => ~Ended(recv[w[s].obj]) /\ ~recv[w[s].obj].started
      BY <3>1 DEF ErasedInv, Aware
    <3> QED
      BY <1>3, <2>2, <3>2
  <2> QED
    BY <1>3, <2>1, <2>2
<1>9. Receivers'
  BY StoresKeeps DEF ErasedInv
<1> QED
  BY <1>5, <1>6, <1>7, <1>8, <1>9 DEF ErasedInv

LEMMA MoveConstructStep ==
  ASSUME ErasedInv, NEW s \in Places, NEW t \in Places, MoveConstruct(s, t)
  PROVE  ErasedInv'
<1>1. /\ w[s].vptr # "absent" /\ w[t].vptr = "absent"
      /\ w' = [w EXCEPT ![t] = MovedTo(w[s]), ![s] = MovedFrom(w[s])]
      /\ unaware' = unaware \cup Loses(w[s])
      /\ made' = made /\ insts' = insts /\ Stores
  BY DEF MoveConstruct, Here, Free, Stores
<1>2. s # t /\ w[t].obj = null
  BY <1>1 DEF ErasedInv, Owners, Holds
<1>3. insts' \in [Objects -> Nat]
  BY <1>1 DEF ErasedInv, TypeOK
<1>4. \A o \in Objects : insts'[o] = IF Held(o) /\ o # w[t].obj THEN 1 ELSE 0
  BY <1>1, <1>2, ErasedAssumption DEF ErasedInv, Owners
<1> QED
  BY <1>1, <1>2, <1>3, <1>4, MoveKeeps, MovedEffect DEF ErasedInv

\* A wrapper releases its object and is emptied, or ceases to be.
LEMMA ReleaseKeeps ==
  ASSUME ErasedInv, NEW t \in Places, Stores, made' = made, NEW x \in {Empty, Absent},
         w' = [w EXCEPT ![t] = x], insts' = Released(w[t]),
         unaware' \subseteq Objects, unaware \subseteq unaware'
  PROVE  ErasedInv'
<1>1. x \in Wrapper /\ x.obj = null /\ x.vptr \in {"absent", "noop"}
  BY Wrappers
<1>2. w'[t] = x /\ \A u \in Places \ {t} : w'[u] = w[u]
  BY DEF ErasedInv, TypeOK
<1>3. /\ insts' \in [Objects -> Nat]
      /\ \A o \in Objects : insts'[o] = IF Held(o) /\ o # w[t].obj THEN 1 ELSE 0
  BY ReleasedEffect DEF ErasedInv
<1>4. TypeOK'
  <2>1. w' \in [Places -> Wrapper]
    BY <1>1 DEF ErasedInv, TypeOK
  <2>2. class' \in Classes
    BY DEF ErasedInv, TypeOK, Stores
  <2> QED
    BY <1>3, <2>1, <2>2 DEF ErasedInv, TypeOK, Stores
<1>5. Owners'
  <2>1. \A u \in Places : Holds(w'[u]) <=> w'[u].obj # null
    BY <1>1, <1>2 DEF ErasedInv, Owners, Holds
  <2>2. /\ \A u, v \in Places : w'[u].obj # null /\ w'[u].obj = w'[v].obj => u = v
        /\ \A u \in Places : w'[u].obj # null => w'[u].obj \in made'
    BY <1>1, <1>2 DEF ErasedInv, Owners
  <2>3. \A o \in Objects : Held(o)' <=> Held(o) /\ o # w[t].obj
    BY <1>1, <1>2, ErasedAssumption DEF ErasedInv, Owners, Held
  <2> QED
    BY <1>3, <2>1, <2>2, <2>3 DEF Owners
<1>6. Untouched' /\ FlagsProtect'
  BY DEF ErasedInv, Untouched, FlagsProtect, Stores
<1>7. Aware'
  BY <1>1, <1>2 DEF ErasedInv, Aware, Stores
<1>8. Receivers'
  BY StoresKeeps DEF ErasedInv
<1> QED
  BY <1>4, <1>5, <1>6, <1>7, <1>8 DEF ErasedInv

LEMMA MoveAssignStep ==
  ASSUME ErasedInv, NEW s \in Places, NEW t \in Places, MoveAssign(s, t)
  PROVE  ErasedInv'
<1>1. /\ unaware' = unaware \cup Loses(w[s]) /\ insts' = Released(w[t])
      /\ made' = made /\ Stores
  BY DEF MoveAssign, Stores
<1>2. CASE s = t
  <2>1. w' = [w EXCEPT ![t] = Empty]
    BY <1>2 DEF MoveAssign
  <2>2. unaware' \subseteq Objects /\ unaware \subseteq unaware'
    BY <1>1 DEF ErasedInv, TypeOK, Wrapper, Loses
  <2> QED
    BY <1>1, <2>1, <2>2, ReleaseKeeps
<1>3. CASE s # t
  <2>1. w' = [w EXCEPT ![t] = MovedTo(w[s]), ![s] = MovedFrom(w[s])]
    BY <1>3 DEF MoveAssign
  <2>2. /\ insts' \in [Objects -> Nat]
        /\ \A o \in Objects : insts'[o] = IF Held(o) /\ o # w[t].obj THEN 1 ELSE 0
    BY <1>1, ReleasedEffect DEF ErasedInv
  <2> QED
    BY <1>1, <1>3, <2>1, <2>2, MoveKeeps, MovedEffect DEF ErasedInv
<1> QED
  BY <1>2, <1>3

LEMMA DestroyStep ==
  ASSUME ErasedInv, NEW s \in Places, Destroy(s)
  PROVE  ErasedInv'
<1>1. /\ w' = [w EXCEPT ![s] = Absent] /\ insts' = Released(w[s])
      /\ unaware' = unaware /\ made' = made /\ Stores
  BY DEF Destroy, Stores
<1>2. unaware' \subseteq Objects
  BY <1>1 DEF ErasedInv, TypeOK
<1> QED
  BY <1>1, <1>2, ReleaseKeeps

-----------------------------------------------------------------------------
(* Calls *)

LEMMA StartingStep ==
  ASSUME ErasedInv, NEW s \in Places, StartingCalled(s)
  PROVE  ErasedInv'
<1>1. /\ ~w[s].started /\ (w[s].obj # null => ~recv[w[s].obj].started)
      /\ w' = [w EXCEPT ![s].started = TRUE]
      /\ UNCHANGED <<class, made, insts, again, unaware, terminated, ref>>
  BY DEF StartingCalled
<1>2. w[s] \in Wrapper
  BY DEF ErasedInv, TypeOK
<1>3. PICK x : x = [w[s] EXCEPT !.started = TRUE]
  OBVIOUS
<1>4. /\ x \in Wrapper /\ x.vptr = w[s].vptr /\ x.obj = w[s].obj /\ x.done = w[s].done
      /\ x.started
  BY <1>2, <1>3 DEF Wrapper
<1>5. w' = [w EXCEPT ![s] = x]
  BY <1>1, <1>3 DEF ErasedInv, TypeOK
<1>6. w'[s] = x /\ \A u \in Places \ {s} : w'[u] = w[u]
  BY <1>5 DEF ErasedInv, TypeOK
<1>7. \A u \in Places : w'[u].vptr = w[u].vptr /\ w'[u].obj = w[u].obj /\ w'[u].done = w[u].done
  BY <1>4, <1>6
<1>8. /\ recv' \in [Objects -> FlowReceiverType]
      /\ \A o \in Objects : /\ recv'[o].done = recv[o].done /\ recv'[o].end = recv[o].end
                            /\ recv'[o].n = recv[o].n /\ recv'[o].dead = recv[o].dead
                            /\ recv'[o].started = (recv[o].started \/ o = w[s].obj)
  <2>1. CASE Holds(w[s])
    <3>1. w[s].obj \in Objects /\ ~recv[w[s].obj].started
      BY <1>1, <1>2, <2>1 DEF ErasedInv, Owners, Wrapper
    <3>2. PICK r : r = Starting(recv[w[s].obj]) /\ recv' = [recv EXCEPT ![w[s].obj] = r]
      BY <2>1 DEF StartingCalled
    <3>3. recv[w[s].obj] \in FlowReceiverType
      BY <3>1 DEF ErasedInv, TypeOK
    <3>4. r = [recv[w[s].obj] EXCEPT !.started = TRUE]
      BY <3>1, <3>2 DEF Starting
    <3>5. /\ r \in FlowReceiverType /\ r.started /\ r.done = recv[w[s].obj].done
          /\ r.end = recv[w[s].obj].end /\ r.n = recv[w[s].obj].n
          /\ r.dead = recv[w[s].obj].dead
      BY <3>3, <3>4 DEF FlowReceiverType
    <3>6. recv'[w[s].obj] = r /\ \A o \in Objects \ {w[s].obj} : recv'[o] = recv[o]
      BY <3>1, <3>2 DEF ErasedInv, TypeOK
    <3>7. recv' \in [Objects -> FlowReceiverType]
      BY <3>1, <3>2, <3>5 DEF ErasedInv, TypeOK
    <3>8. \A o \in Objects : recv[o].started \in BOOLEAN
      BY DEF ErasedInv, TypeOK, FlowReceiverType
    <3> QED
      BY <3>1, <3>5, <3>6, <3>7, <3>8
  <2>2. CASE ~Holds(w[s])
    <3>1. recv' = recv /\ w[s].obj = null
      BY <2>2 DEF StartingCalled, ErasedInv, Owners
    <3>2. \A o \in Objects : recv[o].started \in BOOLEAN /\ o # null
      BY ErasedAssumption DEF ErasedInv, TypeOK, FlowReceiverType
    <3> QED
      BY <3>1, <3>2 DEF ErasedInv, TypeOK
  <2> QED
    BY <2>1, <2>2
<1>9. TypeOK'
  <2>1. w' \in [Places -> Wrapper]
    BY <1>4, <1>5 DEF ErasedInv, TypeOK
  <2> QED
    BY <1>1, <1>8, <2>1 DEF ErasedInv, TypeOK
<1>10. Owners'
  BY <1>1, <1>7 DEF ErasedInv, Owners, Holds, Held
<1>11. Untouched'
  <2>1. w[s].obj # null => w[s].obj \in made
    BY DEF ErasedInv, Owners
  <2> QED
    <3> SUFFICES ASSUME NEW o \in Objects \ made
                 PROVE  ~Ended(recv'[o]) /\ ~recv'[o].started
      BY <1>1 DEF Untouched
    <3>1. o # w[s].obj /\ ~Ended(recv[o]) /\ ~recv[o].started
      BY <2>1, ErasedAssumption DEF ErasedInv, Untouched
    <3> QED
      BY <1>8, <3>1 DEF Ended
<1>12. Aware'
  <2> SUFFICES ASSUME NEW u \in Places, w[u].obj # null
               PROVE  /\ w[u].done => Ended(recv'[w[u].obj])
                      /\ w'[u].started => recv'[w[u].obj].started
                      /\ w[u].obj \notin unaware =>
                           /\ Ended(recv'[w[u].obj]) => w[u].done
                           /\ recv'[w[u].obj].started => w'[u].started
    BY <1>1, <1>7 DEF Aware
  <2>1. w[u].obj \in Objects
    BY DEF ErasedInv, TypeOK, Wrapper
  <2>2. Ended(recv'[w[u].obj]) = Ended(recv[w[u].obj])
    BY <1>8, <2>1 DEF Ended
  <2>3. CASE u = s
    BY <1>4, <1>6, <1>8, <2>1, <2>2, <2>3 DEF ErasedInv, Aware
  <2>4. CASE u # s
    <3>1. w[u].obj # w[s].obj
      BY <2>4 DEF ErasedInv, Owners
    <3> QED
      BY <1>6, <1>8, <2>1, <2>2, <2>4, <3>1 DEF ErasedInv, Aware
  <2> QED
    BY <2>3, <2>4
<1>13. Receivers' /\ FlagsProtect'
  BY <1>1, <1>8, ErasedAssumption DEF ErasedInv, Receivers, FlagsProtect, Ended
<1> QED
  BY <1>9, <1>10, <1>11, <1>12, <1>13 DEF ErasedInv

LEMMA FlaggedEffect ==
  ASSUME NEW x \in Wrapper, NEW sig \in Signals
  PROVE  /\ Flagged(x, sig) \in Wrapper /\ Flagged(x, sig).vptr = x.vptr
         /\ Flagged(x, sig).obj = x.obj /\ Flagged(x, sig).started = x.started
         /\ x.done \/ sig \in {"error", "done"} <=> Flagged(x, sig).done
<1>1. CASE sig \in {"error", "done"}
  BY <1>1 DEF Flagged, Wrapper
<1>2. CASE sig \notin {"error", "done"}
  BY <1>2 DEF Flagged
<1> QED
  BY <1>1, <1>2

\* What a signal through a wrapper makes of the wrapped object.
LEMMA WrappedEffect ==
  ASSUME ErasedInv, NEW s \in Places, Holds(w[s]), is_flow => w[s].started, NEW sig \in Signals
  PROVE  /\ w[s].obj \in Objects
         /\ Wrapped(w[s].obj, sig) \in FlowReceiverType
         /\ Wrapped(w[s].obj, sig).started = recv[w[s].obj].started
         /\ ~Wrapped(w[s].obj, sig).dead
         /\ sig = "value" => Ended(Wrapped(w[s].obj, sig)) = Ended(recv[w[s].obj])
         /\ sig # "value" => Ended(Wrapped(w[s].obj, sig))
         /\ w[s].obj \in Guarded => Called(recv[w[s].obj], Wrapped(w[s].obj, sig))
<1>1. w[s].obj \in Objects /\ w[s].obj # null
  BY DEF ErasedInv, Owners, TypeOK, Wrapper
<1>2. recv[w[s].obj] \in FlowReceiverType /\ ~recv[w[s].obj].dead
  BY <1>1 DEF ErasedInv, TypeOK, Receivers
<1>3. is_flow => recv[w[s].obj].started
  BY <1>1 DEF ErasedInv, Aware
<1>4. CASE w[s].obj \in Guarded
  <2>1. recv[w[s].obj].done <=> Ended(recv[w[s].obj])
    BY <1>4 DEF ErasedInv, Receivers
  <2>2. Wrapped(w[s].obj, sig) = Guards(recv[w[s].obj], sig)
    BY <1>4 DEF Wrapped
  <2>3. /\ Guards(recv[w[s].obj], sig) \in FlowReceiverType
        /\ Called(recv[w[s].obj], Guards(recv[w[s].obj], sig))
        /\ sig = "value" => Ended(Guards(recv[w[s].obj], sig)) = Ended(recv[w[s].obj])
        /\ sig # "value" => Ended(Guards(recv[w[s].obj], sig))
    BY <1>2, <1>3, <2>1, GuardsCall
  <2> QED
    BY <1>1, <2>2, <2>3 DEF Called
<1>5. CASE w[s].obj \notin Guarded
  <2>1. Wrapped(w[s].obj, sig) = Raw(recv[w[s].obj], sig)
    BY <1>5 DEF Wrapped
  <2> QED
    BY <1>1, <1>2, <1>5, <2>1, RawCall
<1> QED
  BY <1>4, <1>5

LEMMA SignalStep ==
  ASSUME ErasedInv, NEW s \in Places, NEW sig \in Signals, Signal(s, sig)
  PROVE  ErasedInv'
<1>1. /\ terminated = "no" /\ "value" \in class.calls
      /\ is_flow => w[s].started \/ (w[s].obj # null /\ recv[w[s].obj].started)
      /\ unaware' = unaware \cup {o \in {w[s].obj} \cap Objects : sig = "throws"}
      /\ UNCHANGED <<class, made, insts, ref>>
  BY DEF Signal, Here, MayCall
<1>2. unaware' \subseteq Objects /\ unaware \subseteq unaware'
  BY <1>1 DEF ErasedInv, TypeOK
<1>3. w[s] \in Wrapper
  BY DEF ErasedInv, TypeOK
<1>4. CASE is_flow /\ ~w[s].started
  <2>1. terminated' = "unstarted" /\ UNCHANGED <<w, recv, again>>
    BY <1>4 DEF Signal
  <2>2. w[s].obj \in unaware
    BY <1>1, <1>4 DEF ErasedInv, Aware
  <2>3. TypeOK'
    BY <1>1, <1>2, <2>1 DEF ErasedInv, TypeOK
  <2>4. Owners' /\ Untouched' /\ Receivers'
    BY <1>1, <2>1 DEF ErasedInv, Owners, Held, Untouched, Receivers
  <2>5. Aware' /\ FlagsProtect'
    BY <1>2, <2>1, <2>2 DEF ErasedInv, Aware, FlagsProtect
  <2> QED
    BY <2>3, <2>4, <2>5 DEF ErasedInv
<1>5. CASE is_flow => w[s].started
  <2>1. /\ ~w[s].done
        /\ w' = [w EXCEPT ![s] = Flagged(w[s], sig)]
    BY <1>5 DEF Signal
  <2>2. PICK x : x = Flagged(w[s], sig)
    OBVIOUS
  <2>3. /\ x \in Wrapper /\ x.vptr = w[s].vptr /\ x.obj = w[s].obj /\ x.started = w[s].started
        /\ w[s].done \/ sig \in {"error", "done"} <=> x.done
    BY <1>3, <2>2, FlaggedEffect
  <2>4. w' \in [Places -> Wrapper] /\ w'[s] = x /\ \A u \in Places \ {s} : w'[u] = w[u]
    BY <2>1, <2>2, <2>3 DEF ErasedInv, TypeOK
  <2>5. \A u \in Places : /\ w'[u].vptr = w[u].vptr /\ w'[u].obj = w[u].obj
                          /\ w'[u].started = w[u].started /\ (w[u].done => w'[u].done)
    BY <2>3, <2>4
  <2>6. Owners'
    BY <1>1, <2>5 DEF ErasedInv, Owners, Holds, Held
  <2>7. CASE Holds(w[s])
    <3>1. PICK r : r = Wrapped(w[s].obj, sig) /\ recv' = [recv EXCEPT ![w[s].obj] = r]
      BY <1>5, <2>1, <2>7 DEF Signal
    <3>2. /\ again' = again \cup {o \in {w[s].obj} \ Guarded : Ended(recv[o])}
          /\ terminated' = IF recv'[w[s].obj].dead THEN "unstarted" ELSE "no"
      BY <1>5, <2>1, <2>7 DEF Signal
    <3>3. /\ w[s].obj \in Objects /\ r \in FlowReceiverType
          /\ r.started = recv[w[s].obj].started /\ ~r.dead
          /\ sig = "value" => Ended(r) = Ended(recv[w[s].obj])
          /\ sig # "value" => Ended(r)
          /\ w[s].obj \in Guarded => Called(recv[w[s].obj], r)
      BY <1>5, <2>7, <3>1, WrappedEffect
    <3>4. w[s].obj # null /\ w[s].obj \in made
      BY <2>7 DEF ErasedInv, Owners
    <3>5. /\ recv' \in [Objects -> FlowReceiverType] /\ recv'[w[s].obj] = r
          /\ \A o \in Objects : o # w[s].obj => recv'[o] = recv[o]
      BY <3>1, <3>3 DEF ErasedInv, TypeOK
    <3>6. terminated' = "no"
      BY <3>2, <3>3, <3>5
    <3>7. again' \subseteq unaware
      BY <2>1, <3>2, <3>4 DEF ErasedInv, FlagsProtect, Aware
    <3>8. TypeOK'
      BY <1>1, <1>2, <2>4, <3>5, <3>6, <3>7 DEF ErasedInv, TypeOK
    <3>9. FlagsProtect'
      BY <1>2, <3>6, <3>7 DEF FlagsProtect
    <3>10. Untouched'
      BY <1>1, <3>4, <3>5 DEF ErasedInv, Untouched
    <3>11. Receivers'
      BY <3>3, <3>5, ErasedAssumption DEF ErasedInv, Receivers, Called
    <3>12. Aware'
      <4> SUFFICES ASSUME NEW u \in Places, w[u].obj # null
                   PROVE  /\ w'[u].done => Ended(recv'[w[u].obj])
                          /\ w[u].started => recv'[w[u].obj].started
                          /\ w[u].obj \notin unaware' =>
                               /\ Ended(recv'[w[u].obj]) => w'[u].done
                               /\ recv'[w[u].obj].started => w[u].started
        BY <2>5 DEF Aware
      <4>1. CASE u = s
        <5>1. w[s].obj \notin unaware' => sig # "throws" /\ w[s].obj \notin unaware
          BY <1>1, <3>3
        <5>2. sig # "throws" /\ sig # "value" => x.done
          BY <2>3 DEF Signals
        <5>3. w[s].obj \notin unaware' /\ Ended(r) => x.done
          BY <2>1, <3>3, <3>4, <5>1, <5>2 DEF ErasedInv, Aware
        <5>4. /\ w[s].started => r.started
              /\ w[s].obj \notin unaware /\ r.started => w[s].started
          BY <3>3, <3>4 DEF ErasedInv, Aware
        <5>5. x.done => Ended(r)
          BY <2>1, <2>3, <3>3
        <5> QED
          BY <2>4, <3>5, <4>1, <5>1, <5>3, <5>4, <5>5
      <4>2. CASE u # s
        <5>1. w[u].obj # w[s].obj /\ w[u].obj \in Objects
          BY <4>2 DEF ErasedInv, Owners, TypeOK, Wrapper
        <5> QED
          BY <1>2, <2>4, <3>5, <4>2, <5>1 DEF ErasedInv, Aware
      <4> QED
        BY <4>1, <4>2
    <3> QED
      BY <2>6, <3>8, <3>9, <3>10, <3>11, <3>12 DEF ErasedInv
  <2>8. CASE ~Holds(w[s])
    <3>1. terminated' \in {"empty", "no"} /\ UNCHANGED <<recv, again>>
      BY <1>5, <2>1, <2>8 DEF Signal
    <3>2. TypeOK'
      BY <1>1, <1>2, <2>4, <3>1 DEF ErasedInv, TypeOK
    <3>3. Untouched' /\ Receivers'
      BY <1>1, <3>1 DEF ErasedInv, Untouched, Receivers
    <3>4. FlagsProtect'
      BY <1>2, <3>1 DEF ErasedInv, FlagsProtect
    <3>5. Aware'
      <4>1. w[s].obj = null /\ w'[s].obj = null
        BY <2>5, <2>8 DEF ErasedInv, Owners
      <4>2. \A u \in Places : w'[u].obj # null => w'[u] = w[u]
        BY <2>4, <4>1
      <4> QED
        BY <1>2, <3>1, <4>2 DEF ErasedInv, Aware
    <3> QED
      BY <2>6, <3>2, <3>3, <3>4, <3>5 DEF ErasedInv
  <2> QED
    BY <2>7, <2>8
<1> QED
  BY <1>4, <1>5

\* A call of a sender or an executor leaves what receivers were told alone.
LEMMA CallStep ==
  ASSUME ErasedInv, NEW s \in Places, NEW k \in Nat,
         NEW op \in {"submit", "schedule", "top", "now", "schedule_at"}, Call(s, op, k)
  PROVE  ErasedInv'
<1>1. /\ op \in class.calls /\ recv' = Reach(w[s], k)
      /\ UNCHANGED <<class, w, made, insts, again, unaware, terminated, ref>>
  BY DEF Call
<1>2. /\ recv' \in [Objects -> FlowReceiverType]
      /\ \A o \in Objects : /\ recv'[o].done = recv[o].done /\ recv'[o].end = recv[o].end
                            /\ recv'[o].dead = recv[o].dead
                            /\ recv'[o].started = recv[o].started
  <2>1. CASE Holds(w[s])
    <3>1. w[s].obj \in Objects
      BY <2>1 DEF ErasedInv, Owners, TypeOK, Wrapper
    <3>2. recv[w[s].obj] \in FlowReceiverType
      BY <3>1 DEF ErasedInv, TypeOK
    <3>3. PICK r : r = [recv[w[s].obj] EXCEPT !.n = @ + k]
      OBVIOUS
    <3>4. recv' = [recv EXCEPT ![w[s].obj] = r]
      BY <1>1, <2>1, <3>3 DEF Reach
    <3>5. /\ r \in FlowReceiverType /\ r.started = recv[w[s].obj].started
          /\ r.done = recv[w[s].obj].done
          /\ r.end = recv[w[s].obj].end /\ r.dead = recv[w[s].obj].dead
      BY <3>2, <3>3 DEF FlowReceiverType
    <3>6. recv'[w[s].obj] = r /\ \A o \in Objects : o # w[s].obj => recv'[o] = recv[o]
      BY <3>1, <3>4 DEF ErasedInv, TypeOK
    <3>7. recv' \in [Objects -> FlowReceiverType]
      BY <3>1, <3>4, <3>5 DEF ErasedInv, TypeOK
    <3> QED
      BY <3>5, <3>6, <3>7
  <2>2. CASE ~Holds(w[s])
    BY <1>1, <2>2 DEF Reach, ErasedInv, TypeOK
  <2> QED
    BY <2>1, <2>2
<1>3. TypeOK'
  BY <1>1, <1>2 DEF ErasedInv, TypeOK
<1>4. Owners' /\ FlagsProtect'
  BY <1>1 DEF ErasedInv, Owners, Held, FlagsProtect
<1>5. Untouched' /\ Receivers'
  BY <1>1, <1>2, ErasedAssumption DEF ErasedInv, Untouched, Receivers, Ended
<1>6. Aware'
  <2>1. \A u \in Places : w[u].obj # null => w[u].obj \in Objects
    BY DEF ErasedInv, TypeOK, Wrapper
  <2> QED
    BY <1>1, <1>2, <2>1 DEF ErasedInv, Aware, Ended
<1> QED
  BY <1>3, <1>4, <1>5, <1>6 DEF ErasedInv

\* Every call of a sender or an executor, also through a reference, is such a call.
LEMMA CallsStep ==
  ASSUME ErasedInv, NEW s \in Places,
         Submit(s) \/ Top(s) \/ Schedule(s) \/ ScheduleAt(s) \/ ScheduleAfter(s)
  PROVE  ErasedInv'
<1>1. PICK op \in {"submit", "schedule", "top", "now", "schedule_at"}, k \in Nat : Call(s, op, k)
  BY DEF Submit, Top, Schedule, ScheduleAt, ScheduleAfter
<1> QED
  BY <1>1, CallStep

LEMMA RefStep ==
  ASSUME ErasedInv, DropRef \/ \E s \in Places : MakeRef(s)
  PROVE  ErasedInv'
<1>1. /\ ref' \in Places \cup {null}
      /\ UNCHANGED <<class, w, made, insts, recv, again, unaware, terminated>>
  BY DEF DropRef, MakeRef
<1>2. TypeOK' /\ Owners'
  BY <1>1 DEF ErasedInv, TypeOK, Owners, Held
<1> QED
  BY <1>1, <1>2 DEF ErasedInv, Untouched, Aware, Receivers, FlagsProtect

-----------------------------------------------------------------------------
LEMMA InitInv == Init => ErasedInv
<1> SUFFICES ASSUME Init
             PROVE  ErasedInv
  OBVIOUS
<1>1. \A s \in Places : w[s] = Absent
  BY DEF Init
<1>2. /\ NewFlowReceiver \in FlowReceiverType /\ NewFlowReceiver.n = 0
      /\ NewFlowReceiver.end = "none"
  BY DEF NewFlowReceiver, FlowReceiverType, Ends
<1>3. ~NewFlowReceiver.started /\ ~NewFlowReceiver.dead /\ ~NewFlowReceiver.done
  BY DEF NewFlowReceiver
<1>4. \A o \in Objects : recv[o] = NewFlowReceiver
  BY DEF Init
<1>5. TypeOK
  <2>1. w \in [Places -> Wrapper]
    BY Wrappers DEF Init
  <2>2. recv \in [Objects -> FlowReceiverType]
    BY <1>2 DEF Init
  <2> QED
    BY <2>1, <2>2 DEF Init, TypeOK
<1>6. Owners
  <2>1. \A s \in Places : w[s].obj = null /\ ~Holds(w[s])
    BY <1>1, Wrappers DEF Holds
  <2>2. \A o \in Objects : ~Held(o) /\ insts[o] = 0
    BY <2>1, ErasedAssumption DEF Held, Init
  <2> QED
    BY <2>1, <2>2 DEF Owners
<1>7. Untouched /\ Receivers
  BY <1>2, <1>3, <1>4, ErasedAssumption DEF Untouched, Receivers, Ended
<1>8. Aware
  BY <1>1, Wrappers DEF Aware
<1>9. FlagsProtect
  BY DEF Init, FlagsProtect
<1> QED
  BY <1>5, <1>6, <1>7, <1>8, <1>9 DEF ErasedInv

LEMMA NextInv == ErasedInv /\ [Next]_vars => ErasedInv'
<1> SUFFICES ASSUME ErasedInv, [Next]_vars
             PROVE  ErasedInv'
  OBVIOUS
<1>1. CASE UNCHANGED vars
  <2>1. TypeOK' /\ Owners'
    BY <1>1 DEF vars, ErasedInv, TypeOK, Owners, Held
  <2>2. Untouched' /\ Aware' /\ Receivers' /\ FlagsProtect'
    BY <1>1 DEF vars, ErasedInv, Untouched, Aware, Receivers, FlagsProtect
  <2> QED
    BY <2>1, <2>2 DEF ErasedInv
<1>2. ASSUME NEW s \in Places, NEW sig \in Signals, Signal(s, sig)
      PROVE  ErasedInv'
  BY <1>2, SignalStep
<1>3. ASSUME NEW s \in Places,
             Submit(s) \/ Top(s) \/ Schedule(s) \/ ScheduleAt(s) \/ ScheduleAfter(s)
      PROVE  ErasedInv'
  BY <1>3, CallsStep
<1>4. CASE CallRef
  <2>1. ref \in Places /\ (Top(ref) \/ Schedule(ref) \/ ScheduleAt(ref))
    BY <1>4 DEF CallRef, ErasedInv, TypeOK
  <2> QED
    BY <1>3, <2>1
<1>5. CASE DropRef \/ \E s \in Places : MakeRef(s)
  BY <1>5, RefStep
<1>6. ASSUME NEW s \in Places,
             \/ Default(s) \/ Destroy(s) \/ StartingCalled(s)
             \/ \E o \in Objects :
                  \/ \E how \in {"heap", "insitu"} : Wrap(s, o, how)
                  \/ WrapThrows(s, o)
             \/ \E t \in Places : MoveConstruct(s, t) \/ MoveAssign(s, t)
      PROVE  ErasedInv'
  BY <1>6, DefaultStep, DestroyStep, StartingStep, WrapStep, WrapThrowsStep,
     MoveConstructStep, MoveAssignStep
<1> QED
  BY <1>1, <1>2, <1>3, <1>4, <1>5, <1>6 DEF Next

-----------------------------------------------------------------------------
\* The wrappers keep their types, own their objects alone, and their flags tell what their
\* objects were told unless the object is unaware: the inductive invariant of the wrappers.
THEOREM ErasedCorrect == Spec => []ErasedInv
<1>1. Init => ErasedInv
  BY InitInv
<1>2. ErasedInv /\ [Next]_vars => ErasedInv'
  BY NextInv
<1> QED
  BY <1>1, <1>2, PTL DEF Spec

\* However wrappers are moved, assigned (also to themselves), emptied and destroyed by the
\* op_ functions, an object has one instance for the one wrapper that holds it, and none
\* when no wrapper does.
THEOREM OwnedOnceCorrect == Spec => []OwnedOnce
<1>1. ErasedInv => OwnedOnce
  <2> SUFFICES ASSUME ErasedInv, NEW o \in Objects
               PROVE  insts[o] = Cardinality({s \in Places : w[s].obj = o}) /\ insts[o] <= 1
    BY DEF OwnedOnce, ErasedInv, Owners
  <2>1. o # null
    BY ErasedAssumption
  <2>2. CASE ~Held(o)
    <3>1. {s \in Places : w[s].obj = o} = {} /\ insts[o] = 0
      BY <2>2 DEF Held, ErasedInv, Owners
    <3> QED
      BY <3>1, FS_EmptySet
  <2>3. CASE Held(o)
    <3>1. PICK s \in Places : w[s].obj = o
      BY <2>3 DEF Held
    <3>2. {t \in Places : w[t].obj = o} = {s} /\ insts[o] = 1
      BY <2>1, <2>3, <3>1 DEF ErasedInv, Owners
    <3> QED
      BY <3>2, FS_Singleton
  <2> QED
    BY <2>2, <2>3
<1> QED
  BY <1>1, ErasedCorrect, PTL

\* An object without a flag of its own is called after its completion, and a flow is ended
\* by std::terminate, only after a wrapper left its flags behind.
THEOREM FlagsProtectCorrect == Spec => []FlagsProtect
<1>1. ErasedInv => FlagsProtect
  BY DEF ErasedInv
<1> QED
  BY <1>1, ErasedCorrect, PTL

\* done_ and started_ of a wrapper are set only for what the object it holds was told, for
\* any number of moves and assignments between wrappers that were used before.
THEOREM NothingSwallowedCorrect == Spec => []NothingSwallowed
<1>1. ErasedInv => NothingSwallowed
  BY DEF ErasedInv, Owners, Aware, NothingSwallowed
<1> QED
  BY <1>1, ErasedCorrect, PTL
=============================================================================
