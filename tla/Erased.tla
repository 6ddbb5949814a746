------------------------------- MODULE Erased -------------------------------
(***************************************************************************)
(* The type-erased, move-only wrappers of the library: any_receiver,        *)
(* any_flow_receiver, any_single_sender, any_many_sender,                   *)
(* any_flow_single_sender, any_flow_many_sender, any_executor,              *)
(* any_constrained_executor and any_time_executor, and the executor         *)
(* references, which own nothing.  They share one design: a table of        *)
(* functions (vptr_) and storage (data_) that holds the wrapped object      *)
(* itself ("insitu") or a pointer to it ("heap"); "noop" is the table of an *)
(* empty wrapper, "absent" a place where no wrapper lives.                  *)
(*                                                                         *)
(* class says which wrappers a behaviour is about.  A wrapped receiver of   *)
(* the library (Guarded) has a done_ flag of its own; any other object with *)
(* the three functions, such as a std::promise, has none.                   *)
(***************************************************************************)
EXTENDS FlowReceiver, FiniteSets

CONSTANTS
  Places,        \* where wrappers live
  Objects,       \* what is wrapped, each at most once
  Guarded,       \* the objects that are receivers of the library
  MaxValues      \* bound: values given to one object

null == "null"

ASSUME ErasedAssumption ==
  /\ Guarded \subseteq Objects
  /\ null \notin Objects \cup Places

VARIABLES
  class,         \* the class of the wrappers
  w,             \* the wrapper at each place
  made,          \* the objects that were given to a wrapper
  insts,         \* for each object, instances constructed and not destroyed
  recv,          \* the wrapped receivers
  again,         \* raw objects called after they were completed
  unaware,       \* objects whose wrapper does not know what they were told
  terminated,    \* std::terminate was called: "unstarted" or "empty" says why
  ref            \* the place an executor reference points to

vars == <<class, w, made, insts, recv, again, unaware, terminated, ref>>

\* What the senders and the executors a user makes from functions can be asked: each call
\* calls the function it was made from (or, made from another sender or executor, gives
\* that one to the function).
single_sender        == {"submit"}
many_sender          == {"submit"}
flow_single_sender   == {"submit"}
flow_many_sender     == {"submit"}
executor             == {"schedule"}
constrained_executor == {"top", "schedule", "schedule_at"}
time_executor        == {"now", "schedule", "schedule_at"}

\* The classes: the functions of their tables besides op_, and their flags.  In all
\* else they are the same code, which the actions below model once for all of them.
any_receiver ==
  [calls |-> {"value", "error", "done"}, flags |-> {"done"}]
any_flow_receiver ==
  [calls |-> {"starting", "value", "error", "done"}, flags |-> {"done", "started"}]
any_single_sender        == [calls |-> single_sender, flags |-> {}]
any_many_sender          == [calls |-> many_sender, flags |-> {}]
any_flow_single_sender   == [calls |-> flow_single_sender, flags |-> {}]
any_flow_many_sender     == [calls |-> flow_many_sender, flags |-> {}]
any_executor             == [calls |-> executor, flags |-> {}]
any_constrained_executor == [calls |-> constrained_executor, flags |-> {}]
any_time_executor        == [calls |-> time_executor, flags |-> {}]

Classes ==
  {any_receiver, any_flow_receiver, any_single_sender, any_many_sender,
   any_flow_single_sender, any_flow_many_sender, any_executor,
   any_constrained_executor, any_time_executor}

\* The classes of the references, which have no op_.
any_executor_ref             == any_executor
any_constrained_executor_ref == any_constrained_executor
any_time_executor_ref        == any_time_executor

Refs == {any_executor_ref, any_constrained_executor_ref, any_time_executor_ref}

is_flow == "started" \in class.flags

Absent == [vptr |-> "absent", obj |-> null, done |-> FALSE, started |-> FALSE]

\* The default constructor.
Empty == [Absent EXCEPT !.vptr = "noop"]

Init ==
  /\ class \in Classes
  /\ w = [s \in Places |-> Absent]
  /\ made = {}
  /\ insts = [o \in Objects |-> 0]
  /\ recv = [o \in Objects |-> NewFlowReceiver]
  /\ again = {}
  /\ unaware = {}
  /\ terminated = "no"
  /\ ref = null

Here(s) == terminated = "no" /\ w[s].vptr # "absent"
Free(s) == terminated = "no" /\ w[s].vptr = "absent"
Holds(x) == x.vptr \in {"heap", "insitu"}

-----------------------------------------------------------------------------
(* Storage *)

Default(s) ==
  /\ Free(s)
  /\ w' = [w EXCEPT ![s] = Empty]
  /\ UNCHANGED <<class, made, insts, recv, again, unaware, terminated, ref>>

\* The converting constructors: in the buffer when it fits and its move cannot throw.
Wrap(s, o, how) ==
  /\ Free(s) /\ o \notin made
  /\ w' = [w EXCEPT ![s] = [Empty EXCEPT !.vptr = how, !.obj = o]]
  /\ made' = made \cup {o}
  /\ insts' = [insts EXCEPT ![o] = @ + 1]
  /\ UNCHANGED <<class, recv, again, unaware, terminated, ref>>

\* new throws: the parameter is destroyed with the call, and there is no wrapper.
WrapThrows(s, o) ==
  /\ Free(s) /\ o \notin made
  /\ made' = made \cup {o}
  /\ UNCHANGED <<class, w, insts, recv, again, unaware, terminated, ref>>

\* op_(data_, nullptr): the destructor.  Deleting a null pointer does nothing.
Released(x) ==
  IF Holds(x) /\ x.obj # null THEN [insts EXCEPT ![x.obj] = @ - 1] ELSE insts

\* Mutant: the tables are not exchanged; the buffer still holds what is left of the
\* object, which op_ destroyed, and the pointer is null.
MovedFromKeepsTable(x) == IF x.vptr = "heap" THEN [x EXCEPT !.obj = null] ELSE x

\* The move constructor: op_(that.data_, &data_), then the tables are exchanged.
\* In the buffer an instance is constructed and one destroyed; a pointer is handed over.
MovedFrom(x) == [x EXCEPT !.vptr = "noop", !.obj = null]
MovedTo(x)   == [Empty EXCEPT !.vptr = x.vptr, !.obj = x.obj]

\* done_ and started_ stay behind.
Loses(x) == IF x.obj # null /\ (x.done \/ x.started) THEN {x.obj} ELSE {}

MoveConstruct(s, t) ==
  /\ Here(s) /\ Free(t)
  /\ w' = [w EXCEPT ![t] = MovedTo(w[s]), ![s] = MovedFrom(w[s])]
  /\ unaware' = unaware \cup Loses(w[s])
  /\ UNCHANGED <<class, made, insts, recv, again, terminated, ref>>

\* Mutant: the target keeps its flags.
MoveAssignKeepsFlags(s, t) ==
  /\ Here(s) /\ Here(t)
  /\ insts' = Released(w[t])
  /\ w' = IF s = t
          THEN [w EXCEPT ![t] = Empty]
          ELSE [w EXCEPT ![t].vptr = w[s].vptr, ![t].obj = w[s].obj, ![s] = MovedFrom(w[s])]
  /\ unaware' = unaware \cup Loses(w[s])
  /\ UNCHANGED <<class, made, recv, again, terminated, ref>>

\* operator=: the destructor, then the move constructor in the same place.  Assigned to
\* itself, a wrapper has been emptied when it is moved from.
MoveAssign(s, t) ==
  /\ Here(s) /\ Here(t)
  /\ insts' = Released(w[t])
  /\ w' = IF s = t
          THEN [w EXCEPT ![t] = Empty]
          ELSE [w EXCEPT ![t] = MovedTo(w[s]), ![s] = MovedFrom(w[s])]
  /\ unaware' = unaware \cup Loses(w[s])
  /\ UNCHANGED <<class, made, recv, again, terminated, ref>>

\* A reference must not outlive what it refers to.
Destroy(s) ==
  /\ Here(s) /\ ref # s
  /\ insts' = Released(w[s])
  /\ w' = [w EXCEPT ![s] = Absent]
  /\ UNCHANGED <<class, made, recv, again, unaware, terminated, ref>>

-----------------------------------------------------------------------------
(* Calls on receivers *)

Signals == {"value", "throws", "error", "done"}

\* What the wrapped object does.  set_value() gives it what its value function throws.
Guards(r, sig) ==
  CASE sig = "value"  -> IF is_flow THEN FlowValue(r) ELSE Value(r)
    [] sig = "throws" -> IF is_flow /\ ~r.started THEN terminate(r)
                         ELSE set_value(r, TRUE)
    [] sig = "error"  -> IF is_flow THEN FlowError(r, "error") ELSE Error(r, "error")
    [] sig = "done"   -> IF is_flow THEN FlowDone(r) ELSE Done(r)

Raw(r, sig) ==
  CASE sig = "value"  -> [r EXCEPT !.n = @ + 1]
    [] sig = "throws" -> [r EXCEPT !.end = "thrown"]
    [] OTHER          -> [r EXCEPT !.end = sig]

Wrapped(o, sig) == IF o \in Guarded THEN Guards(recv[o], sig) ELSE Raw(recv[o], sig)

\* Mutant: error() and done() do not set done_.
FlaggedNever(x, sig) == x

\* error() and done() set done_ before they call the wrapped object.
Flagged(x, sig) == IF sig \in {"error", "done"} THEN [x EXCEPT !.done = TRUE] ELSE x

\* Upstream calls a flow receiver after starting().
MayCall(x) ==
  /\ "value" \in class.calls
  /\ is_flow => x.started \/ (x.obj # null /\ recv[x.obj].started)

\* value(), error() and done() of any_receiver and any_flow_receiver.
Signal(s, sig) ==
  LET x == w[s] IN
  /\ Here(s) /\ MayCall(x)
  /\ \/ /\ is_flow /\ ~x.started
        /\ terminated' = "unstarted"
        /\ UNCHANGED <<w, recv, again>>
     \/ /\ (is_flow => x.started) /\ ~x.done
        /\ w' = [w EXCEPT ![s] = Flagged(x, sig)]
        /\ \/ /\ Holds(x)
              /\ sig = "value" => recv[x.obj].n < MaxValues
              /\ recv' = [recv EXCEPT ![x.obj] = Wrapped(x.obj, sig)]
              /\ again' = again \cup {o \in {x.obj} \ Guarded : Ended(recv[o])}
              /\ terminated' = IF recv'[x.obj].dead THEN "unstarted" ELSE "no"
           \/ /\ ~Holds(x)
              /\ terminated' = IF sig = "error" THEN "empty" ELSE "no"
              /\ UNCHANGED <<recv, again>>
  /\ unaware' = unaware \cup {o \in {x.obj} \cap Objects : sig = "throws"}
  /\ UNCHANGED <<class, made, insts, ref>>

\* starting() of any_flow_receiver, which upstream calls once for an object.
StartingCalled(s) ==
  LET x == w[s] IN
  /\ is_flow /\ Here(s) /\ ~x.started
  /\ x.obj # null => ~recv[x.obj].started
  /\ w' = [w EXCEPT ![s].started = TRUE]
  /\ recv' = IF Holds(x) THEN [recv EXCEPT ![x.obj] = Starting(@)] ELSE recv
  /\ UNCHANGED <<class, made, insts, again, unaware, terminated, ref>>

-----------------------------------------------------------------------------
(* Calls on senders and executors *)

\* These calls have no flag to look at: k calls reach the object; an empty wrapper does
\* nothing, returns an empty sender or a default value.  n counts the calls of an object.
Reach(x, k) == IF Holds(x) THEN [recv EXCEPT ![x.obj].n = @ + k] ELSE recv

Call(s, op, k) ==
  /\ op \in class.calls /\ Here(s)
  /\ Holds(w[s]) => recv[w[s].obj].n + k <= MaxValues
  /\ recv' = Reach(w[s], k)
  /\ UNCHANGED <<class, w, made, insts, again, unaware, terminated, ref>>

Submit(s) == Call(s, "submit", 1)

\* top(), which is now() for time executors.
Top(s) == \E op \in {"top", "now"} : Call(s, op, 1)

\* Without a constraint the table has only the call with one: top() is asked for it first.
Schedule(s) == Call(s, "schedule", IF "schedule_at" \in class.calls THEN 2 ELSE 1)

\* The operators schedule_at, and schedule_after, which asks for the time first.
ScheduleAt(s) == Call(s, "schedule_at", 1)
ScheduleAfter(s) == "now" \in class.calls /\ Call(s, "schedule_at", 2)

\* A reference holds the address of an executor.
MakeRef(s) ==
  /\ class \in Refs /\ Here(s) /\ ref # s
  /\ ref' = s
  /\ UNCHANGED <<class, w, made, insts, recv, again, unaware, terminated>>

DropRef ==
  /\ ref # null
  /\ ref' = null
  /\ UNCHANGED <<class, w, made, insts, recv, again, unaware, terminated>>

\* The calls of a reference are calls of what it refers to.
CallRef ==
  /\ ref # null
  /\ Top(ref) \/ Schedule(ref) \/ ScheduleAt(ref)

-----------------------------------------------------------------------------
Next ==
  \/ \E s \in Places :
       \/ Default(s) \/ Destroy(s) \/ StartingCalled(s) \/ MakeRef(s)
       \/ Submit(s) \/ Top(s) \/ Schedule(s) \/ ScheduleAt(s) \/ ScheduleAfter(s)
       \/ \E o \in Objects :
            \/ \E how \in {"heap", "insitu"} : Wrap(s, o, how)
            \/ WrapThrows(s, o)
       \/ \E t \in Places : MoveConstruct(s, t) \/ MoveAssign(s, t)
       \/ \E sig \in Signals : Signal(s, sig)
  \/ DropRef
  \/ CallRef

Spec == Init /\ [][Next]_vars

-----------------------------------------------------------------------------
(* Properties *)

\* Whatever is moved, assigned (also to itself), emptied and destroyed, an object has
\* exactly one instance for the one wrapper that holds it, and none when no wrapper does:
\* it is never destroyed twice, never leaked, and no call goes through a null pointer.
OwnedOnce ==
  /\ \A s \in Places : Holds(w[s]) <=> w[s].obj # null
  /\ \A o \in Objects :
       insts[o] = Cardinality({s \in Places : w[s].obj = o}) /\ insts[o] <= 1

\* A wrapped object without a flag of its own is called after its completion only if its
\* wrapper was moved, which leaves done_ behind, or if its value function threw, which
\* completes it behind the wrapper; and upstream's calls, made in the right order, end the
\* process only if a wrapper was moved and left started_ behind.
FlagsProtect ==
  /\ again \subseteq unaware
  /\ terminated = "unstarted" => unaware # {}

\* A wrapper swallows no signal: its done_ is set only if the object it holds now was
\* completed, and its started_ only if that object was started, also when the object was
\* moved into a wrapper that had been used for another one.
NothingSwallowed ==
  \A s \in Places : Holds(w[s]) =>
    /\ w[s].done => Ended(recv[w[s].obj])
    /\ w[s].started => recv[w[s].obj].started
=============================================================================
