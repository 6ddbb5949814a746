------------------------------ MODULE Entangle ------------------------------
(***************************************************************************)
(* pushmi::entangled<T, Dual> (include/pushmi/entangle.h): two movable      *)
(* objects that keep pointers to each other in sync without shared storage. *)
(* Each object has a spin lock (stateMachine); whoever wants to touch the   *)
(* metadata of the pair takes its own lock and then the lock of its dual,   *)
(* and a race between the two sides is decided by address order.            *)
(*                                                                         *)
(* Every atomic operation and every plain read or write that the other side *)
(* could observe is one action.  Threads 1 and 2 own one side each, which   *)
(* is the stated API constraint (lockBoth() on one object is never called   *)
(* by two threads at once).  Addresses are reused after destruction.        *)
(***************************************************************************)
EXTENDS Integers

CONSTANTS Addr,   \* addresses an entangled object can be constructed at
          Null    \* nullptr

ASSUME AddrAssumption == Addr \subseteq Nat /\ Null \notin Addr

VARIABLES
  stateMachine,   \* [Addr -> 0..2], the atomic<int> of the object at an address
  dual,           \* [Addr -> Addr \cup {Null}], its pointer to the other object
  t,              \* [Addr -> BOOLEAN]: the value t has not been moved from
  alive,          \* the addresses holding a constructed, undestroyed object
  owned,          \* [Thread -> SUBSET Addr], the objects each thread may name
  self,           \* [Thread -> Addr], `this' of the call in progress
  dest,           \* [Thread -> Addr], the object a move constructor builds
  op,             \* [Thread -> Ops], what the lock is taken for
  pc              \* [Thread -> Labels], where the thread is in the code

vars == <<stateMachine, dual, t, alive, owned, self, dest, op, pc>>

kUnlocked == 0
kLocked == 1
kLockedAndLossAcknowledged == 2

Thread == {1, 2}
Ops == {"use", "move", "destroy"}

\* tryLockBoth(), then the critical section of each operation, then unlockBoth()
TryLabels == {"lock_local", "read_dual", "lock_dual", "compare", "await_ack",
              "settle", "acknowledge"}
CriticalLabels == {"using", "construct", "repoint", "detach", "release_other",
                   "disown"}
UnlockLabels == {"unlock_local", "unlock_dual"}
Labels == {"idle"} \cup TryLabels \cup CriticalLabels \cup UnlockLabels

\* the operation's own code, entered when lockBoth() returns
Body(o) == CASE o = "use" -> "using"
             [] o = "move" -> "construct"
             [] o = "destroy" -> "disown"

Goto(s, from, to) == pc[s] = from /\ pc' = [pc EXCEPT ![s] = to]

-----------------------------------------------------------------------------
\* entangle(f, s): two objects that point at each other, one for each thread.
Init ==
  \E a, b \in Addr :
    /\ a # b
    /\ stateMachine = [x \in Addr |-> kUnlocked]
    /\ dual = [x \in Addr |-> IF x = a THEN b ELSE IF x = b THEN a ELSE Null]
    /\ t = [x \in Addr |-> x \in {a, b}]
    /\ alive = {a, b}
    /\ owned = [s \in Thread |-> IF s = 1 THEN {a} ELSE {b}]
    /\ self = [s \in Thread |-> IF s = 1 THEN a ELSE b]
    /\ dest = [s \in Thread |-> IF s = 1 THEN a ELSE b]
    /\ op = [s \in Thread |-> "use"]
    /\ pc = [s \in Thread |-> "idle"]

\* Mutant: a destructor that clears its dual's pointer without lockBoth().
BeginDestroysUnlocked(s) ==
  /\ \E x \in owned[s] :
       \/ /\ Goto(s, "idle", "lock_local")
          /\ op' = [op EXCEPT ![s] = "use"]
          /\ self' = [self EXCEPT ![s] = x]
       \/ /\ Goto(s, "idle", "disown")
          /\ op' = [op EXCEPT ![s] = "destroy"]
          /\ self' = [self EXCEPT ![s] = x]
  /\ UNCHANGED <<stateMachine, dual, t, alive, owned, dest>>

\* A call that starts with lockBoth(): lock_both(e) or lockPointerToDual(),
\* the move constructor (which places the new object at a free address), or
\* the destructor.
Begin(s) ==
  /\ Goto(s, "idle", "lock_local")
  /\ \E o \in Ops, x \in owned[s] :
       /\ op' = [op EXCEPT ![s] = o]
       /\ self' = [self EXCEPT ![s] = x]
       /\ IF o = "move"
          THEN \E a \in Addr \ alive : /\ dest' = [dest EXCEPT ![s] = a]
                                       /\ alive' = alive \cup {a}
          ELSE dest' = [dest EXCEPT ![s] = x] /\ UNCHANGED alive
  /\ UNCHANGED <<stateMachine, dual, t, owned>>

\* compare_exchange_weak on the local lock; lockBoth() spins while it fails.
LockLocal(s) ==
  /\ Goto(s, "lock_local", "read_dual")
  /\ stateMachine[self[s]] = kUnlocked
  /\ stateMachine' = [stateMachine EXCEPT ![self[s]] = kLocked]
  /\ UNCHANGED <<dual, t, alive, owned, self, dest, op>>

\* if (dual == nullptr) return true;
ReadDual(s) ==
  /\ Goto(s, "read_dual", IF dual[self[s]] = Null THEN Body(op[s]) ELSE "lock_dual")
  /\ UNCHANGED <<stateMachine, dual, t, alive, owned, self, dest, op>>

\* compare_exchange_strong on the lock of the dual.
LockDual(s) ==
  LET free == stateMachine[dual[self[s]]] = kUnlocked IN
  /\ Goto(s, "lock_dual", IF free THEN Body(op[s]) ELSE "compare")
  /\ stateMachine' = IF free THEN [stateMachine EXCEPT ![dual[self[s]]] = kLocked]
                             ELSE stateMachine
  /\ UNCHANGED <<dual, t, alive, owned, self, dest, op>>

\* Mutant: the winner enters at once instead of waiting for the loser.
CompareWithoutHandshake(s) ==
  /\ Goto(s, "compare", IF self[s] < dual[self[s]] THEN Body(op[s]) ELSE "acknowledge")
  /\ UNCHANGED <<stateMachine, dual, t, alive, owned, self, dest, op>>

\* Mutant: no tie-break, whoever finds the dual locked waits for the other.
CompareWithoutOrder(s) ==
  /\ Goto(s, "compare", "await_ack")
  /\ UNCHANGED <<stateMachine, dual, t, alive, owned, self, dest, op>>

\* Both sides hold their own lock: the lower address wins.
Compare(s) ==
  /\ Goto(s, "compare", IF self[s] < dual[self[s]] THEN "await_ack" ELSE "acknowledge")
  /\ UNCHANGED <<stateMachine, dual, t, alive, owned, self, dest, op>>

\* The winner spins until the loser has acknowledged on the winner's lock.
AwaitAck(s) ==
  /\ Goto(s, "await_ack", "settle")
  /\ stateMachine[self[s]] = kLockedAndLossAcknowledged
  /\ UNCHANGED <<stateMachine, dual, t, alive, owned, self, dest, op>>

Settle(s) ==
  /\ Goto(s, "settle", Body(op[s]))
  /\ stateMachine' = [stateMachine EXCEPT ![self[s]] = kLocked]
  /\ UNCHANGED <<dual, t, alive, owned, self, dest, op>>

\* Mutant: the loser acknowledges and then returns true.
AcknowledgeAndEnter(s) ==
  /\ Goto(s, "acknowledge", Body(op[s]))
  /\ stateMachine' = [stateMachine EXCEPT ![dual[self[s]]] = kLockedAndLossAcknowledged]
  /\ UNCHANGED <<dual, t, alive, owned, self, dest, op>>

\* The loser acknowledges and starts over; its own lock now belongs to the winner.
Acknowledge(s) ==
  /\ Goto(s, "acknowledge", "lock_local")
  /\ stateMachine' = [stateMachine EXCEPT ![dual[self[s]]] = kLockedAndLossAcknowledged]
  /\ UNCHANGED <<dual, t, alive, owned, self, dest, op>>

-----------------------------------------------------------------------------
\* Move constructor, after other.lockBoth(): self is `other', dest is `this'.
MoveConstruct(s) ==
  /\ Goto(s, "construct", "repoint")
  /\ stateMachine' = [stateMachine EXCEPT ![dest[s]] = kLocked]
  /\ t' = [t EXCEPT ![dest[s]] = t[self[s]], ![self[s]] = FALSE]
  /\ dual' = [dual EXCEPT ![dest[s]] = dual[self[s]]]
  /\ UNCHANGED <<alive, owned, self, dest, op>>

\* Mutant: the dual is not told about the new address.
MoveWithoutRepoint(s) ==
  /\ Goto(s, "repoint", "detach")
  /\ UNCHANGED <<stateMachine, dual, t, alive, owned, self, dest, op>>

\* if (dual != nullptr) dual->dual = this;
MoveRepoint(s) ==
  /\ Goto(s, "repoint", "detach")
  /\ dual' = IF dual[dest[s]] = Null THEN dual
             ELSE [dual EXCEPT ![dual[dest[s]]] = dest[s]]
  /\ UNCHANGED <<stateMachine, t, alive, owned, self, dest, op>>

\* other.dual = nullptr;
MoveDetach(s) ==
  /\ Goto(s, "detach", "release_other")
  /\ dual' = [dual EXCEPT ![self[s]] = Null]
  /\ UNCHANGED <<stateMachine, t, alive, owned, self, dest, op>>

\* other.stateMachine.store(kUnlocked); the rest of the constructor runs on this.
MoveReleaseOther(s) ==
  /\ Goto(s, "release_other", "unlock_local")
  /\ stateMachine' = [stateMachine EXCEPT ![self[s]] = kUnlocked]
  /\ self' = [self EXCEPT ![s] = dest[s]]
  /\ owned' = [owned EXCEPT ![s] = @ \cup {dest[s]}]
  /\ UNCHANGED <<dual, t, alive, dest, op>>

\* Destructor: if (dual != nullptr) dual->dual = nullptr;
Disown(s) ==
  /\ Goto(s, "disown", "unlock_local")
  /\ dual' = IF dual[self[s]] = Null THEN dual
             ELSE [dual EXCEPT ![dual[self[s]]] = Null]
  /\ UNCHANGED <<stateMachine, t, alive, owned, self, dest, op>>

\* The caller is done with the locked pair (unlockPointerToDual(), or the
\* destructor of locked_entangled_pair).
EndUse(s) ==
  /\ Goto(s, "using", "unlock_local")
  /\ UNCHANGED <<stateMachine, dual, t, alive, owned, self, dest, op>>

-----------------------------------------------------------------------------
\* unlockBoth(): locally first, then remotely.
UnlockLocal(s) ==
  /\ Goto(s, "unlock_local", "unlock_dual")
  /\ stateMachine' = [stateMachine EXCEPT ![self[s]] = kUnlocked]
  /\ UNCHANGED <<dual, t, alive, owned, self, dest, op>>

\* After a destructor the memory is given back and may be reused.
UnlockDual(s) ==
  /\ Goto(s, "unlock_dual", "idle")
  /\ stateMachine' = IF dual[self[s]] = Null THEN stateMachine
                     ELSE [stateMachine EXCEPT ![dual[self[s]]] = kUnlocked]
  /\ IF op[s] = "destroy"
     THEN /\ alive' = alive \ {self[s]}
          /\ owned' = [owned EXCEPT ![s] = @ \ {self[s]}]
     ELSE UNCHANGED <<alive, owned>>
  /\ UNCHANGED <<dual, t, self, dest, op>>

-----------------------------------------------------------------------------
LockBoth(s) == \/ LockLocal(s) \/ ReadDual(s) \/ LockDual(s) \/ Compare(s)
               \/ AwaitAck(s) \/ Settle(s) \/ Acknowledge(s)
Critical(s) == \/ MoveConstruct(s) \/ MoveRepoint(s) \/ MoveDetach(s)
               \/ MoveReleaseOther(s) \/ Disown(s) \/ EndUse(s)

UnlockBoth(s) == UnlockLocal(s) \/ UnlockDual(s)

\* Both sides have destroyed everything they owned.
Finished == /\ \A s \in Thread : pc[s] = "idle" /\ owned[s] = {}
            /\ UNCHANGED vars

Next == \/ \E s \in Thread : Begin(s) \/ LockBoth(s) \/ Critical(s) \/ UnlockBoth(s)
        \/ Finished

\* Each thread keeps executing the call it is in; it need not start another.
Fairness == \A s \in Thread : WF_vars(LockBoth(s) \/ Critical(s) \/ UnlockBoth(s))

Spec == Init /\ [][Next]_vars
FairSpec == Spec /\ Fairness

-----------------------------------------------------------------------------
TypeOK ==
  /\ stateMachine \in [Addr -> 0..2]
  /\ dual \in [Addr -> Addr \cup {Null}]
  /\ t \in [Addr -> BOOLEAN]
  /\ alive \in SUBSET Addr
  /\ owned \in [Thread -> SUBSET Addr]
  /\ self \in [Thread -> Addr]
  /\ dest \in [Thread -> Addr]
  /\ op \in [Thread -> Ops]
  /\ pc \in [Thread -> Labels]

\* Thread s has returned from lockBoth() and has not started to unlock.
HoldsBoth(s) == pc[s] \in CriticalLabels \cup {"unlock_local"}

\* Thread s is inside lockBoth().
Trying(s) == pc[s] \in TryLabels

\* Thread s holds the lock of its own object, whatever happened to the dual's.
HoldsLocal(s) == \/ HoldsBoth(s)
                 \/ pc[s] \in {"read_dual", "lock_dual", "compare", "await_ack", "settle"}

\* The objects whose metadata thread s may write while it holds both locks.
Section(s) ==
  LET constructed == IF pc[s] = "construct" THEN {self[s]} ELSE {self[s], dest[s]}
  IN  {self[s], dest[s]} \cup ({dual[x] : x \in constructed} \ {Null})

\* lockBoth() is a lock on the pair: two threads that have returned from it
\* never have an object in common, whichever branch of tryLockBoth() let each
\* of them through and wherever the two objects have been moved to.
MutualExclusion ==
  \A r, s \in Thread :
    r # s /\ HoldsBoth(r) /\ HoldsBoth(s) => Section(r) \cap Section(s) = {}

\* No code follows a null pointer or a pointer to an object that has been
\* destroyed: inside tryLockBoth(), where `dual' was tested once and is used
\* again (to compare addresses, to acknowledge that the race is lost), and in
\* the operation and unlockBoth(), where a non-null dual still exists.
NoDanglingDual ==
  \A s \in Thread :
    /\ pc[s] \in {"lock_dual", "compare", "acknowledge"} => dual[self[s]] \in alive
    /\ pc[s] \in {"using", "disown", "unlock_dual"} => dual[self[s]] \in alive \cup {Null}
    /\ pc[s] = "repoint" => dual[dest[s]] \in alive \cup {Null}

\* What a caller sees between lock_both() and the unlock: its dual, if it has
\* one, is a live object that points back at it and has not been moved from.
UsePairInSync ==
  \A s \in Thread :
    LET d == dual[self[s]] IN
    pc[s] = "using" /\ d # Null => d \in alive /\ dual[d] = self[s] /\ t[d]

\* "Once we hold our lock, no control data can change, in either object": a
\* step of the other side changes neither pointer of the pair of a thread that
\* holds the lock of its own object.
ControlDataStable ==
  [][\A s \in Thread :
       HoldsLocal(s) /\ pc'[s] = pc[s] /\ dual[self[s]] # Null
         => dual'[self[s]] = dual[self[s]] /\ dual'[dual[self[s]]] = dual[dual[self[s]]]]_vars

\* While somebody spins in lockBoth(), somebody gets in.  (Not each of them:
\* the source admits starvation of one side.)
LockProgress == (\E s \in Thread : Trying(s)) ~> (\E s \in Thread : HoldsBoth(s))
=============================================================================
