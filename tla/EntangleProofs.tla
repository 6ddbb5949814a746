--------------------------- MODULE EntangleProofs ---------------------------
(***************************************************************************)
(* Theorems about the two forms of an entangled pair.                       *)
(*                                                                         *)
(* Entangle: lockBoth() is a lock on the pair, no pointer dangles, the pair *)
(* a caller sees is in sync, and no control data of a locked object changes *)
(* under its holder, for every set of addresses.  The proof is an inductive *)
(* invariant, SideInv, that says of each side which objects exist, what     *)
(* they point at and which locks the side holds, at every label of the code.*)
(*                                                                         *)
(* SharedEntangle: the allocation of a shared_entangle pair outlives every  *)
(* lock of its mutex, for any set of sides.                                 *)
(***************************************************************************)
EXTENDS Entangle, SharedEntangle, TLAPS

\* Every atomic and every pointer of the pair keeps its type: the lock word of
\* an object only takes the three values of its state machine, whatever the
\* interleaving of lockBoth(), the move constructor and the destructor.
THEOREM TypeCorrect == Spec => []TypeOK
<1>1. Init => TypeOK
  BY AddrAssumption DEF Init, TypeOK, Thread, Ops, Labels, kUnlocked
<1>2. TypeOK /\ [Next]_vars => TypeOK'
  <2> SUFFICES ASSUME TypeOK, [Next]_vars PROVE TypeOK'
    OBVIOUS
  <2> USE DEF TypeOK, Goto, Labels, TryLabels, CriticalLabels, UnlockLabels
  <2>1. ASSUME NEW s \in Thread, Begin(s) PROVE TypeOK'
    BY <2>1 DEF Begin, Ops
  <2>2. ASSUME NEW s \in Thread, LockBoth(s) PROVE TypeOK'
    <3>1. Body(op[s]) \in Labels
      BY DEF Body, Ops
    <3> QED
      BY <2>2, <3>1 DEF LockBoth, LockLocal, ReadDual, LockDual, Compare, AwaitAck,
         Settle, Acknowledge, kLocked, kUnlocked, kLockedAndLossAcknowledged
  <2>3. ASSUME NEW s \in Thread, Critical(s) PROVE TypeOK'
    <3>1. CASE MoveConstruct(s)
      <4>1. t[self[s]] \in BOOLEAN
        OBVIOUS
      <4>2. t' \in [Addr -> BOOLEAN]
        BY <3>1, <4>1, Zenon DEF MoveConstruct
      <4> QED
        BY <3>1, <4>2 DEF MoveConstruct, kLocked
    <3>2. CASE MoveRepoint(s)
      BY <3>2 DEF MoveRepoint
    <3>3. CASE MoveDetach(s) \/ MoveReleaseOther(s) \/ Disown(s) \/ EndUse(s)
      BY <3>3 DEF MoveDetach, MoveReleaseOther, Disown, EndUse, kUnlocked
    <3> QED
      BY <2>3, <3>1, <3>2, <3>3 DEF Critical
  <2>4. ASSUME NEW s \in Thread, UnlockBoth(s) PROVE TypeOK'
    BY <2>4 DEF UnlockBoth, UnlockLocal, UnlockDual, kUnlocked
  <2>5. CASE Finished \/ UNCHANGED vars
    BY <2>5 DEF Finished, vars
  <2> QED
    BY <2>1, <2>2, <2>3, <2>4, <2>5 DEF Next
<1> QED
  BY <1>1, <1>2, PTL DEF Spec

-----------------------------------------------------------------------------
\* The inductive invariant.  s is a side of the pair and r the other side.

\* Inside tryLockBoth() with the local lock held and the race not decided.
Racing == {"read_dual", "lock_dual", "compare", "await_ack"}

\* Inside the move constructor, once the new object has its members.
Building == {"repoint", "detach", "release_other"}

\* A move constructor of s has the memory for its new object reserved.
Moving(s) == op[s] = "move" /\ pc[s] \in TryLabels \cup Building \cup {"construct"}

\* The constructed objects of side s.
Has(s, x) == x \in owned[s] \/ (pc[s] \in Building /\ x = dest[s])

\* Side s has the lock of its dual as well: it took it, or the dual's side has
\* acknowledged that it lost the race.
ReachesDual(s) ==
  \/ pc[s] \in {"settle", "using", "construct", "repoint", "disown",
                "unlock_local", "unlock_dual"}
  \/ pc[s] \in Racing /\ stateMachine[self[s]] = kLockedAndLossAcknowledged

\* Side s holds the lock of the object at z.
Holds(s, z) ==
  \/ z = self[s] /\ pc[s] \notin {"idle", "lock_local", "unlock_dual"}
  \/ z = dual[self[s]] /\ ReachesDual(s)
  \/ z = dest[s] /\ pc[s] \in Building
  \/ z = dual[dest[s]] /\ pc[s] \in {"detach", "release_other"}

\* The two sides own different, existing objects, a call is on an object of its
\* own side, and a move constructor builds where nobody has an object.
Ownership(s, r) ==
  /\ owned[s] \subseteq alive
  /\ owned[s] \cap owned[r] = {}
  /\ pc[s] # "idle" => self[s] \in owned[s]
  /\ Moving(s) => dest[s] \in alive /\ dest[s] \notin owned[s] /\ dest[s] \notin owned[r]
  /\ Moving(s) /\ Moving(r) => dest[s] # dest[r]
  /\ pc[s] # "idle" /\ ~ Moving(s) => dest[s] = self[s]

\* Each critical section is the one of its operation.
CodeOf(s) ==
  /\ pc[s] \in Building \cup {"construct"} => op[s] = "move"
  /\ pc[s] = "disown" => op[s] = "destroy"
  /\ pc[s] = "using" => op[s] = "use"

\* Where the dual of x points: back at x, except while side s rewrites it.
Back(s, x) ==
  IF pc[s] = "repoint" /\ x = dest[s] THEN self[s]
  ELSE IF pc[s] = "detach" /\ x = self[s] THEN dest[s]
  ELSE IF op[s] = "destroy" /\ pc[s] \in UnlockLabels /\ x = self[s] THEN Null
  ELSE x

\* A dual that is not null is a constructed object of the other side, and the
\* two point at each other.
Pointers(s, r) ==
  \A x \in Addr : Has(s, x) /\ dual[x] # Null =>
     Has(r, dual[x]) /\ dual[dual[x]] = Back(s, x)

\* The pointers of the object moved from, until it is released.
MovePointers(s) ==
  /\ pc[s] \in {"repoint", "detach"} => dual[self[s]] = dual[dest[s]]
  /\ pc[s] = "release_other" => dual[self[s]] = Null

\* An object with a dual has its value, except the one being moved from.
ValuePresent(s) ==
  \A x \in Addr :
    Has(s, x) /\ dual[x] # Null /\ ~ (pc[s] \in {"repoint", "detach"} /\ x = self[s]) => t[x]

\* Nobody points at an object whose destructor has told its dual.
Unreferenced(s, r) ==
  op[s] = "destroy" /\ pc[s] \in UnlockLabels =>
    \A x \in Addr : Has(r, x) => dual[x] # self[s]

\* No lock is held by both sides.
HeldOnce(s, r) == \A z \in Addr : ~ (Holds(s, z) /\ Holds(r, z))

\* The lock word of a constructed object says whether somebody holds it.
LockWord(s, r) ==
  \A z \in Addr : Has(s, z) =>
    (stateMachine[z] # kUnlocked <=> Holds(s, z) \/ Holds(r, z))

\* An acknowledgement is on the lock of a side that is still racing, or about
\* to leave the race, and has the lower address.
Acknowledged(s) ==
  \A z \in Addr : Has(s, z) /\ stateMachine[z] = kLockedAndLossAcknowledged =>
    /\ self[s] = z /\ pc[s] \in Racing \cup {"settle"}
    /\ dual[z] # Null /\ z < dual[z]

\* What each side knows of the race in tryLockBoth(); one that found its dual
\* locked and has not been acknowledged races against the dual's own side.
Duel(s, r) ==
  /\ pc[s] = "settle" => stateMachine[self[s]] = kLockedAndLossAcknowledged
  /\ pc[s] = "acknowledge" => dual[self[s]] < self[s]
  /\ pc[s] = "await_ack" => self[s] < dual[self[s]]
  /\ pc[s] \in {"lock_dual", "compare", "await_ack", "settle", "acknowledge"}
       => dual[self[s]] # Null
  /\ \/ pc[s] = "acknowledge"
     \/ pc[s] \in {"compare", "await_ack"} /\ stateMachine[self[s]] = kLocked
     => self[r] = dual[self[s]] /\ pc[r] \in Racing \cup {"acknowledge"}

Objects(s, r) == /\ Ownership(s, r) /\ CodeOf(s) /\ Pointers(s, r) /\ MovePointers(s)
                 /\ ValuePresent(s) /\ Unreferenced(s, r)

Locking(s, r) == HeldOnce(s, r) /\ LockWord(s, r) /\ Acknowledged(s) /\ Duel(s, r)

SideInv(s, r) == Objects(s, r) /\ Locking(s, r)

PairInv == TypeOK /\ \A s, r \in Thread : s # r => SideInv(s, r)

\* What a lemma about a step of side s assumes of the state before the step.
Both(s, r) == s # r /\ TypeOK /\ SideInv(s, r) /\ SideInv(r, s)

USE DEF kUnlocked, kLocked, kLockedAndLossAcknowledged, TryLabels, CriticalLabels,
        UnlockLabels, Labels, Ops, Racing, Building

-----------------------------------------------------------------------------
\* The values of a lock word.
LEMMA LockWordValues ==
  ASSUME TypeOK, NEW z \in Addr
  PROVE  stateMachine[z] \in {0, 1, 2}
BY DEF TypeOK

\* Addresses are ordered, so exactly one side wins the race.
LEMMA AddrOrder ==
  ASSUME NEW a \in Addr, NEW b \in Addr
  PROVE  /\ a # b => a < b \/ b < a
         /\ ~ (a < b /\ b < a) /\ ~ (a < a)
BY AddrAssumption

\* The sides have no object in common.
LEMMA HasApart ==
  ASSUME NEW s \in Thread, NEW r \in Thread, Both(s, r), NEW x \in Addr, Has(s, x)
  PROVE  ~ Has(r, x)
BY DEF Both, SideInv, Objects, Ownership, CodeOf, Has, Moving

\* A constructed object exists.
LEMMA HasAlive ==
  ASSUME NEW s \in Thread, NEW r \in Thread, Both(s, r), NEW x \in Addr, Has(s, x)
  PROVE  x \in alive
BY DEF Both, SideInv, Objects, Ownership, CodeOf, Has, Moving

\* A pointer of r at an object whose lock s holds is in sync.
LEMMA HeldPointsBack ==
  ASSUME NEW s \in Thread, NEW r \in Thread, Both(s, r),
         NEW x \in Addr, Has(r, x), dual[x] # Null, Holds(s, dual[x])
  PROVE  dual[dual[x]] = x
<1>1. dual[x] \in Addr /\ dual[dual[x]] = Back(r, x)
  BY DEF Both, TypeOK, SideInv, Objects, Pointers
<1>2. ~ Holds(r, dual[x])
  BY <1>1 DEF Both, SideInv, Locking, HeldOnce
<1>3. dual[self[r]] = dual[dest[r]] \/ pc[r] \notin {"repoint", "detach"}
  BY DEF Both, SideInv, Objects, MovePointers
<1> QED BY <1>1, <1>2, <1>3 DEF Back, Holds, ReachesDual

\* No object is at the place where s is about to construct one, nothing points
\* there, and r holds no lock there.
LEMMA FreshDest ==
  ASSUME NEW s \in Thread, NEW r \in Thread, Both(s, r), Moving(s), pc[s] \notin Building
  PROVE  /\ dest[s] \in Addr /\ ~ Has(s, dest[s]) /\ ~ Has(r, dest[s]) /\ ~ Holds(r, dest[s])
         /\ \A x \in Addr : Has(s, x) \/ Has(r, x) => dual[x] # dest[s]
<1> USE DEF Both, SideInv, Objects, TypeOK
<1>1. dest[s] \in Addr /\ dest[s] # Null /\ ~ Has(s, dest[s]) /\ ~ Has(r, dest[s])
  BY AddrAssumption DEF Ownership, CodeOf, Moving, Has
<1>2. \A x \in Addr : Has(s, x) \/ Has(r, x) => dual[x] # dest[s]
  BY <1>1 DEF Pointers
<1>3. ~ Holds(r, dest[s])
  <2>1. pc[r] # "idle" => Has(r, self[r])
    BY DEF Ownership, Has
  <2>2. pc[r] \in Building => Has(r, dest[r])
    BY DEF Has
  <2>3. ReachesDual(r) => dual[self[r]] # dest[s]
    BY <1>2, <2>1 DEF ReachesDual
  <2>4. pc[r] \in Building => dual[dest[r]] # dest[s]
    BY <1>2, <2>2
  <2> QED BY <1>1, <2>1, <2>2, <2>3, <2>4 DEF Holds
<1> QED BY <1>1, <1>2, <1>3

\* A step inside lockBoth() or unlockBoth() changes no object: it moves s from
\* one label to another of the same operation.
LEMMA ObjectsKept ==
  ASSUME NEW s \in Thread, NEW r \in Thread, Both(s, r), TypeOK', CodeOf(s)',
         UNCHANGED <<dual, t, alive, owned, self, dest, op>>,
         pc' = [pc EXCEPT ![s] = pc'[s]],
         pc[s] \notin Building \cup {"idle"}, pc'[s] \notin Building \cup {"idle"},
         Moving(s)' <=> Moving(s),
         op[s] = "destroy" => (pc'[s] \in UnlockLabels <=> pc[s] \in UnlockLabels)
  PROVE  Objects(s, r)' /\ Objects(r, s)'
<1> USE DEF Both, SideInv, Objects, TypeOK
<1>1. pc'[r] = pc[r] /\ (Moving(r)' <=> Moving(r))
  BY DEF Moving
<1>2. Ownership(s, r)' /\ Ownership(r, s)'
  BY <1>1 DEF Ownership
<1>3. CodeOf(r)'
  BY <1>1 DEF CodeOf
<1>4. Pointers(s, r)' /\ Pointers(r, s)'
  <2>1. \A x \in Addr : (Has(s, x)' <=> Has(s, x)) /\ (Has(r, x)' <=> Has(r, x))
    BY <1>1 DEF Has
  <2>2. \A x \in Addr : Back(s, x)' = Back(s, x) /\ Back(r, x)' = Back(r, x)
    BY <1>1 DEF Back
  <2> QED BY <2>1, <2>2 DEF Pointers
<1>5. MovePointers(s)' /\ MovePointers(r)'
  BY <1>1 DEF MovePointers
<1>6. ValuePresent(s)' /\ ValuePresent(r)'
  BY <1>1 DEF ValuePresent, Has
<1>7. Unreferenced(s, r)' /\ Unreferenced(r, s)'
  BY <1>1 DEF Unreferenced, Has
<1> QED BY <1>2, <1>3, <1>4, <1>5, <1>6, <1>7

-----------------------------------------------------------------------------
\* tryLockBoth() and unlockBoth(): what each step does to the locks that the two
\* sides hold, and from that to the rest of the invariant.

\* The local lock is taken: nobody held it.
LEMMA LockLocalKeeps ==
  ASSUME NEW s \in Thread, NEW r \in Thread, Both(s, r), TypeOK', LockLocal(s)
  PROVE  SideInv(s, r)' /\ SideInv(r, s)'
<1> USE DEF Both, SideInv, Locking, TypeOK, LockLocal, Goto
<1>1. CodeOf(s)' /\ (Moving(s)' <=> Moving(s))
  BY DEF CodeOf, Moving
<1>2. Objects(s, r)' /\ Objects(r, s)'
  BY <1>1, ObjectsKept
<1>3. self[s] \in owned[s] /\ (self[r] # self[s] \/ pc[r] = "idle")
  BY DEF Objects, Ownership
<1>4. Has(s, self[s]) /\ ~ Holds(s, self[s]) /\ ~ Holds(r, self[s])
  BY DEF Objects, Ownership, Has, LockWord
<1>5. \A z \in Addr : (Holds(s, z)' <=> z = self[s]) /\ ~ Holds(s, z)
                      /\ (Holds(r, z)' <=> Holds(r, z))
  BY <1>3 DEF Holds, ReachesDual
<1>6. HeldOnce(s, r)' /\ HeldOnce(r, s)'
  BY <1>4, <1>5 DEF HeldOnce
<1>7. LockWord(s, r)' /\ LockWord(r, s)'
  BY <1>4, <1>5 DEF LockWord, Has
<1>8. Acknowledged(s)' /\ Acknowledged(r)'
  BY DEF Acknowledged, Has
<1>9. Duel(s, r)' /\ Duel(r, s)'
  BY <1>3 DEF Duel
<1> QED BY <1>2, <1>6, <1>7, <1>8, <1>9

\* A side between read_dual and acknowledge has a dual, and they are in sync.
LEMMA RacingPair ==
  ASSUME NEW s \in Thread, NEW r \in Thread, Both(s, r),
         pc[s] \in {"lock_dual", "compare", "await_ack", "settle", "acknowledge"}
  PROVE  /\ self[s] \in owned[s] /\ Has(s, self[s]) /\ Holds(s, self[s])
         /\ dual[self[s]] \in Addr /\ dual[self[s]] # self[s]
         /\ Has(r, dual[self[s]]) /\ ~ Has(s, dual[self[s]])
         /\ dual[dual[self[s]]] = self[s]
<1> USE DEF Both, SideInv, TypeOK
<1>1. /\ self[s] \in owned[s] /\ Has(s, self[s]) /\ Holds(s, self[s])
      /\ dual[self[s]] \in Addr /\ dual[self[s]] # Null
  BY DEF Objects, Ownership, Has, Holds, Locking, Duel
<1>2. Back(s, self[s]) = self[s]
  BY DEF Back
<1>3. Has(r, dual[self[s]]) /\ dual[dual[self[s]]] = self[s]
  BY <1>1, <1>2 DEF Objects, Pointers
<1>4. ~ Has(s, dual[self[s]])
  BY <1>1, <1>3, HasApart
<1> QED BY <1>1, <1>3, <1>4

\* A dual that is locked, and not by an acknowledgement, is in the race itself.
LEMMA DualRaces ==
  ASSUME NEW s \in Thread, NEW r \in Thread, Both(s, r), pc[s] = "lock_dual",
         stateMachine[dual[self[s]]] # kUnlocked, stateMachine[self[s]] = kLocked
  PROVE  self[r] = dual[self[s]] /\ pc[r] \in Racing \cup {"acknowledge"}
<1> DEFINE y == dual[self[s]]
<1>1. /\ Holds(s, self[s]) /\ self[s] \in Addr /\ y \in Addr /\ y # self[s]
      /\ Has(r, y) /\ ~ Has(s, y) /\ dual[y] = self[s]
  BY RacingPair DEF Both, TypeOK
<1>2. ~ Holds(s, y)
  BY <1>1 DEF Holds, ReachesDual
<1>3. Holds(r, y) /\ ~ Holds(r, self[s])
  BY <1>1, <1>2 DEF Both, SideInv, Locking, LockWord, HeldOnce
<1>4. y = self[r] \/ (y = dest[r] /\ pc[r] \in Building)
  <2>1. pc[r] # "idle" => Has(r, self[r])
    BY DEF Both, SideInv, Objects, Ownership, Has
  <2>2. pc[r] \in Building => Has(r, dest[r])
    BY DEF Has
  <2>3. \A x \in Addr : Has(r, x) => dual[x] # y
    BY <1>1, AddrAssumption DEF Both, SideInv, Objects, Pointers
  <2>4. ReachesDual(r) => dual[self[r]] # y
    BY <2>1, <2>3 DEF ReachesDual, Both, TypeOK
  <2>5. pc[r] \in Building => dual[dest[r]] # y
    BY <2>2, <2>3 DEF Both, TypeOK
  <2> QED BY <1>3, <2>4, <2>5 DEF Holds
<1>5. ~ ReachesDual(r) /\ pc[r] \notin Building
  BY <1>1, <1>3, <1>4, AddrAssumption DEF Holds, ReachesDual, Both, SideInv, Objects, MovePointers
<1> QED BY <1>3, <1>4, <1>5 DEF Holds, ReachesDual, Both, TypeOK

\* The local lock is enough when there is no dual.
LEMMA ReadDualKeeps ==
  ASSUME NEW s \in Thread, NEW r \in Thread, Both(s, r), TypeOK', ReadDual(s)
  PROVE  SideInv(s, r)' /\ SideInv(r, s)'
<1> USE DEF Both, SideInv, Locking, TypeOK, ReadDual, Goto
<1>1. pc'[s] \in {"using", "construct", "disown", "lock_dual"} /\ pc'[r] = pc[r]
      /\ CodeOf(s)' /\ (Moving(s)' <=> Moving(s))
  BY DEF Body, CodeOf, Moving
<1>2. Objects(s, r)' /\ Objects(r, s)'
  BY <1>1, ObjectsKept
<1>3. Has(s, self[s]) /\ (dual[self[s]] = Null => pc'[s] # "lock_dual")
      /\ (dual[self[s]] # Null => pc'[s] = "lock_dual")
  BY DEF Objects, Ownership, Has, Body
<1>4. \A z \in Addr : (Holds(s, z)' <=> Holds(s, z)) /\ (Holds(r, z)' <=> Holds(r, z))
  BY <1>1, <1>3, AddrAssumption DEF Holds, ReachesDual
<1>5. HeldOnce(s, r)' /\ HeldOnce(r, s)'
  BY <1>4 DEF HeldOnce
<1>6. LockWord(s, r)' /\ LockWord(r, s)'
  BY <1>1, <1>4 DEF LockWord, Has
<1>7. Acknowledged(s)' /\ Acknowledged(r)'
  BY <1>1, <1>3 DEF Acknowledged, Has
<1>8. Duel(s, r)' /\ Duel(r, s)'
  <2>1. ASSUME self[s] = dual[self[r]], pc[r] \in {"acknowledge", "compare", "await_ack"}
        PROVE  pc'[s] = "lock_dual"
    BY <1>3, <2>1, RacingPair, AddrAssumption
  <2> QED BY <1>1, <1>3, <2>1 DEF Duel
<1> QED BY <1>2, <1>5, <1>6, <1>7, <1>8

\* The lock of the dual is taken, or somebody has it.
LEMMA LockDualKeeps ==
  ASSUME NEW s \in Thread, NEW r \in Thread, Both(s, r), TypeOK', LockDual(s)
  PROVE  SideInv(s, r)' /\ SideInv(r, s)'
<1> DEFINE y == dual[self[s]]
<1> USE DEF Both, SideInv, Locking, TypeOK, LockDual, Goto
<1>1. CodeOf(s)' /\ (Moving(s)' <=> Moving(s)) /\ pc'[r] = pc[r]
      /\ pc'[s] \in {"using", "construct", "disown", "compare"}
  BY DEF Body, CodeOf, Moving
<1>2. Objects(s, r)' /\ Objects(r, s)'
  BY <1>1, ObjectsKept
<1>3. /\ self[s] \in owned[s] /\ Has(s, self[s]) /\ y \in Addr /\ y # self[s] /\ Has(r, y)
      /\ ~ Has(s, y)
  BY RacingPair
<1>4. CASE stateMachine[y] = kUnlocked
  <2>1. pc'[s] \in {"using", "construct", "disown"}
    BY <1>4 DEF Body
  <2>2. ~ Holds(s, y) /\ ~ Holds(r, y)
    BY <1>3, <1>4 DEF LockWord
  <2>3. \A z \in Addr : (Holds(s, z)' <=> Holds(s, z) \/ z = y) /\ (Holds(r, z)' <=> Holds(r, z))
    BY <1>1, <1>3, <1>4, <2>1, <2>2 DEF Holds, ReachesDual
  <2>4. stateMachine[self[s]] # kLockedAndLossAcknowledged
    BY <2>2 DEF Holds, ReachesDual
  <2>5. HeldOnce(s, r)' /\ HeldOnce(r, s)'
    BY <2>2, <2>3 DEF HeldOnce
  <2>6. LockWord(s, r)' /\ LockWord(r, s)'
    BY <1>1, <1>3, <1>4, <2>1, <2>3 DEF LockWord, Has
  <2>7. Acknowledged(s)' /\ Acknowledged(r)'
    BY <1>1, <1>3, <1>4, <2>1, <2>4 DEF Acknowledged, Has
  <2>8. Duel(s, r)' /\ Duel(r, s)'
    <3>1. self[r] = y => pc[r] \in {"idle", "lock_local", "unlock_dual"}
      BY <2>2 DEF Holds
    <3>2. ~ (pc[r] = "acknowledge" \/ (pc[r] \in {"compare", "await_ack"}
                                       /\ stateMachine[self[r]] = kLocked))
      <4>1. SUFFICES ASSUME pc[r] \in {"acknowledge", "compare", "await_ack"},
                            self[s] = dual[self[r]]
                     PROVE  FALSE
        BY DEF Duel
      <4>2. dual[dual[self[r]]] = self[r]
        BY <4>1, RacingPair
      <4> QED BY <3>1, <4>1, <4>2
    <3> QED BY <1>1, <1>3, <1>4, <2>1, <3>1, <3>2 DEF Duel
  <2> QED BY <1>2, <2>5, <2>6, <2>7, <2>8
<1>5. CASE stateMachine[y] # kUnlocked
  <2>1. pc'[s] = "compare" /\ stateMachine' = stateMachine
    BY <1>5
  <2>2. \A z \in Addr : (Holds(s, z)' <=> Holds(s, z)) /\ (Holds(r, z)' <=> Holds(r, z))
    BY <1>1, <2>1 DEF Holds, ReachesDual
  <2>3. HeldOnce(s, r)' /\ HeldOnce(r, s)'
    BY <2>2 DEF HeldOnce
  <2>4. LockWord(s, r)' /\ LockWord(r, s)'
    BY <1>1, <2>1, <2>2 DEF LockWord, Has
  <2>5. Acknowledged(s)' /\ Acknowledged(r)'
    BY <1>1, <2>1 DEF Acknowledged, Has
  <2>6. Duel(s, r)' /\ Duel(r, s)'
    BY <1>1, <1>5, <2>1, DualRaces DEF Duel
  <2> QED BY <1>2, <2>3, <2>4, <2>5, <2>6
<1> QED BY <1>4, <1>5

\* The race is decided by the addresses; nobody has acknowledged a side that loses.
LEMMA CompareKeeps ==
  ASSUME NEW s \in Thread, NEW r \in Thread, Both(s, r), TypeOK', Compare(s)
  PROVE  SideInv(s, r)' /\ SideInv(r, s)'
<1> USE DEF Both, SideInv, Locking, TypeOK, Compare, Goto
<1>1. CodeOf(s)' /\ (Moving(s)' <=> Moving(s)) /\ pc'[r] = pc[r]
  BY DEF CodeOf, Moving
<1>2. Objects(s, r)' /\ Objects(r, s)'
  BY <1>1, ObjectsKept
<1>3. Has(s, self[s]) /\ Holds(s, self[s]) /\ dual[self[s]] \in Addr /\ dual[self[s]] # self[s]
  BY RacingPair
<1>4. ~ (self[s] < dual[self[s]]) =>
        stateMachine[self[s]] = kLocked /\ dual[self[s]] < self[s]
  BY <1>3, LockWordValues, AddrOrder DEF Acknowledged, LockWord
<1>5. \A z \in Addr : (Holds(s, z)' <=> Holds(s, z)) /\ (Holds(r, z)' <=> Holds(r, z))
  BY <1>1, <1>4 DEF Holds, ReachesDual
<1>6. HeldOnce(s, r)' /\ HeldOnce(r, s)'
  BY <1>5 DEF HeldOnce
<1>7. LockWord(s, r)' /\ LockWord(r, s)'
  BY <1>1, <1>5 DEF LockWord, Has
<1>8. Acknowledged(s)' /\ Acknowledged(r)'
  BY <1>1, <1>4 DEF Acknowledged, Has
<1>9. Duel(s, r)' /\ Duel(r, s)'
  BY <1>1, <1>4 DEF Duel
<1> QED BY <1>2, <1>6, <1>7, <1>8, <1>9

\* The winner sees the acknowledgement, with which it got the lock of its dual.
LEMMA AwaitAckKeeps ==
  ASSUME NEW s \in Thread, NEW r \in Thread, Both(s, r), TypeOK', AwaitAck(s)
  PROVE  SideInv(s, r)' /\ SideInv(r, s)'
<1> USE DEF Both, SideInv, Locking, TypeOK, AwaitAck, Goto
<1>1. CodeOf(s)' /\ (Moving(s)' <=> Moving(s)) /\ pc'[r] = pc[r]
  BY DEF CodeOf, Moving
<1>2. Objects(s, r)' /\ Objects(r, s)'
  BY <1>1, ObjectsKept
<1>3. \A z \in Addr : (Holds(s, z)' <=> Holds(s, z)) /\ (Holds(r, z)' <=> Holds(r, z))
  BY <1>1 DEF Holds, ReachesDual
<1>4. HeldOnce(s, r)' /\ HeldOnce(r, s)'
  BY <1>3 DEF HeldOnce
<1>5. LockWord(s, r)' /\ LockWord(r, s)'
  BY <1>1, <1>3 DEF LockWord, Has
<1>6. Acknowledged(s)' /\ Acknowledged(r)'
  BY <1>1 DEF Acknowledged, Has
<1>7. Duel(s, r)' /\ Duel(r, s)'
  <2>1. dual[self[s]] \in Addr /\ ~ Holds(r, dual[self[s]])
    BY RacingPair DEF Holds, ReachesDual, HeldOnce
  <2>2. ASSUME self[s] = dual[self[r]], pc[r] \in {"acknowledge", "compare", "await_ack"}
        PROVE  FALSE
    <3>1. dual[dual[self[r]]] = self[r] /\ Holds(r, self[r])
      BY <2>2, RacingPair
    <3> QED BY <2>1, <2>2, <3>1
  <2> QED BY <1>1, <2>2 DEF Duel
<1> QED BY <1>2, <1>4, <1>5, <1>6, <1>7

\* The winner turns the acknowledgement into an ordinary lock.
LEMMA SettleKeeps ==
  ASSUME NEW s \in Thread, NEW r \in Thread, Both(s, r), TypeOK', Settle(s)
  PROVE  SideInv(s, r)' /\ SideInv(r, s)'
<1> USE DEF Both, SideInv, Locking, TypeOK, Settle, Goto
<1>1. CodeOf(s)' /\ (Moving(s)' <=> Moving(s)) /\ pc'[r] = pc[r]
      /\ pc'[s] \in {"using", "construct", "disown"}
  BY DEF Body, CodeOf, Moving
<1>2. Objects(s, r)' /\ Objects(r, s)'
  BY <1>1, ObjectsKept
<1>3. Has(s, self[s]) /\ Holds(s, self[s]) /\ (self[r] # self[s] \/ pc[r] = "idle")
  BY RacingPair DEF Objects, Ownership
<1>4. \A z \in Addr : (Holds(s, z)' <=> Holds(s, z)) /\ (Holds(r, z)' <=> Holds(r, z))
  BY <1>1, <1>3 DEF Holds, ReachesDual
<1>5. HeldOnce(s, r)' /\ HeldOnce(r, s)'
  BY <1>4 DEF HeldOnce
<1>6. LockWord(s, r)' /\ LockWord(r, s)'
  BY <1>1, <1>3, <1>4 DEF LockWord, Has
<1>7. Acknowledged(s)' /\ Acknowledged(r)'
  BY <1>1, <1>3 DEF Acknowledged, Has
<1>8. Duel(s, r)' /\ Duel(r, s)'
  BY <1>1, <1>3 DEF Duel
<1> QED BY <1>2, <1>5, <1>6, <1>7, <1>8

\* The loser gives its own lock to the winner, which is still racing.
LEMMA AcknowledgeKeeps ==
  ASSUME NEW s \in Thread, NEW r \in Thread, Both(s, r), TypeOK', Acknowledge(s)
  PROVE  SideInv(s, r)' /\ SideInv(r, s)'
<1> USE DEF Both, SideInv, Locking, TypeOK, Acknowledge, Goto
<1>1. CodeOf(s)' /\ (Moving(s)' <=> Moving(s)) /\ pc'[r] = pc[r]
  BY DEF CodeOf, Moving
<1>2. Objects(s, r)' /\ Objects(r, s)'
  BY <1>1, ObjectsKept
<1>3. /\ Has(s, self[s]) /\ dual[self[s]] = self[r] /\ dual[self[r]] = self[s]
      /\ self[r] # self[s] /\ Has(r, self[r]) /\ ~ Has(r, self[s]) /\ ~ Has(s, self[r])
  BY RacingPair, HasApart DEF Duel
<1>4. pc[r] \in Racing /\ self[r] < self[s]
  BY <1>3, AddrOrder DEF Duel
<1>5. \A z \in Addr : /\ ~ Holds(s, z)'
                      /\ Holds(s, z) <=> z = self[s]
                      /\ Holds(r, z)' <=> Holds(r, z) \/ z = self[s]
  BY <1>1, <1>3, <1>4 DEF Holds, ReachesDual
<1>6. HeldOnce(s, r)' /\ HeldOnce(r, s)'
  BY <1>5 DEF HeldOnce
<1>7. LockWord(s, r)' /\ LockWord(r, s)'
  <2>1. Holds(r, self[r])
    BY <1>4 DEF Holds
  <2> QED BY <1>1, <1>3, <1>5, <2>1 DEF LockWord, Has
<1>8. Acknowledged(s)' /\ Acknowledged(r)'
  <2>1. Acknowledged(s)'
    BY <1>1, <1>3 DEF Acknowledged, Has
  <2>2. Acknowledged(r)'
    BY <1>1, <1>3, <1>4, AddrAssumption DEF Acknowledged, Has
  <2> QED BY <2>1, <2>2
<1>9. Duel(s, r)' /\ Duel(r, s)'
  BY <1>1, <1>3, <1>4 DEF Duel
<1> QED BY <1>2, <1>6, <1>7, <1>8, <1>9

\* The caller is done with the pair; its locks stay until unlockBoth().
LEMMA EndUseKeeps ==
  ASSUME NEW s \in Thread, NEW r \in Thread, Both(s, r), TypeOK', EndUse(s)
  PROVE  SideInv(s, r)' /\ SideInv(r, s)'
<1> USE DEF Both, SideInv, Locking, TypeOK, EndUse, Goto
<1>1. CodeOf(s)' /\ (Moving(s)' <=> Moving(s)) /\ pc'[r] = pc[r] /\ op[s] = "use"
  BY DEF Objects, CodeOf, Moving
<1>2. Objects(s, r)' /\ Objects(r, s)'
  BY <1>1, ObjectsKept
<1>3. \A z \in Addr : (Holds(s, z)' <=> Holds(s, z)) /\ (Holds(r, z)' <=> Holds(r, z))
  BY <1>1 DEF Holds, ReachesDual
<1>4. HeldOnce(s, r)' /\ HeldOnce(r, s)'
  BY <1>3 DEF HeldOnce
<1>5. LockWord(s, r)' /\ LockWord(r, s)'
  BY <1>1, <1>3 DEF LockWord, Has
<1>6. Acknowledged(s)' /\ Acknowledged(r)'
  BY <1>1 DEF Acknowledged, Has
<1>7. Duel(s, r)' /\ Duel(r, s)'
  BY <1>1 DEF Duel
<1> QED BY <1>2, <1>4, <1>5, <1>6, <1>7

\* The local lock is released while the lock of the dual is kept.
LEMMA UnlockLocalKeeps ==
  ASSUME NEW s \in Thread, NEW r \in Thread, Both(s, r), TypeOK', UnlockLocal(s)
  PROVE  SideInv(s, r)' /\ SideInv(r, s)'
<1> USE DEF Both, SideInv, Locking, TypeOK, UnlockLocal, Goto
<1>1. CodeOf(s)' /\ (Moving(s)' <=> Moving(s)) /\ pc'[r] = pc[r]
  BY DEF CodeOf, Moving
<1>2. Objects(s, r)' /\ Objects(r, s)'
  BY <1>1, ObjectsKept
<1>3. /\ self[s] \in Addr /\ Has(s, self[s]) /\ Holds(s, self[s])
      /\ ~ Holds(r, self[s]) /\ (self[r] # self[s] \/ pc[r] = "idle")
  BY DEF Objects, Ownership, Has, Holds, HeldOnce
<1>4. dual[self[s]] # self[s]
  <2>1. ~ Has(r, self[s]) /\ self[s] # Null
    BY <1>3, HasApart, AddrAssumption
  <2> QED BY <1>3, <2>1 DEF Objects, Pointers
<1>5. \A z \in Addr : (Holds(s, z)' <=> Holds(s, z) /\ z # self[s])
                      /\ (Holds(r, z)' <=> Holds(r, z))
  BY <1>1, <1>3, <1>4 DEF Holds, ReachesDual
<1>6. HeldOnce(s, r)' /\ HeldOnce(r, s)'
  BY <1>5 DEF HeldOnce
<1>7. LockWord(s, r)' /\ LockWord(r, s)'
  BY <1>1, <1>3, <1>5 DEF LockWord, Has
<1>8. Acknowledged(s)' /\ Acknowledged(r)'
  BY <1>1, <1>3 DEF Acknowledged, Has
<1>9. Duel(s, r)' /\ Duel(r, s)'
  BY <1>1, <1>3 DEF Duel
<1> QED BY <1>2, <1>6, <1>7, <1>8, <1>9

-----------------------------------------------------------------------------
\* The operations themselves.  In each lemma the first steps say what the
\* operation writes and who has and holds what after it.

\* A call starts: it holds nothing yet.
LEMMA BeginKeeps ==
  ASSUME NEW s \in Thread, NEW r \in Thread, Both(s, r), TypeOK', Begin(s)
  PROVE  SideInv(s, r)' /\ SideInv(r, s)'
<1> USE DEF Both, SideInv, Objects, Locking, TypeOK, Begin, Goto
<1>1. pc'[s] = "lock_local" /\ pc[s] = "idle" /\ pc'[r] = pc[r] /\ self'[r] = self[r]
      /\ dest'[r] = dest[r] /\ op'[r] = op[r]
  OBVIOUS
<1>2. \A x \in Addr : (Has(s, x)' <=> Has(s, x)) /\ (Has(r, x)' <=> Has(r, x))
  BY <1>1 DEF Has
<1>3. \A z \in Addr : ~ Holds(s, z) /\ ~ Holds(s, z)' /\ (Holds(r, z)' <=> Holds(r, z))
  BY <1>1 DEF Holds, ReachesDual
<1>4. Ownership(s, r)' /\ Ownership(r, s)'
  BY DEF Ownership, Moving, CodeOf
<1>5. CodeOf(s)' /\ CodeOf(r)'
  BY <1>1 DEF CodeOf
<1>6. Pointers(s, r)' /\ Pointers(r, s)'
  BY <1>1, <1>2 DEF Pointers, Back
<1>7. MovePointers(s)' /\ MovePointers(r)'
  BY <1>1 DEF MovePointers
<1>8. ValuePresent(s)' /\ ValuePresent(r)'
  BY <1>1, <1>2 DEF ValuePresent
<1>9. Unreferenced(s, r)' /\ Unreferenced(r, s)'
  BY <1>1, <1>2 DEF Unreferenced
<1>10. HeldOnce(s, r)' /\ HeldOnce(r, s)'
  BY <1>3 DEF HeldOnce
<1>11. LockWord(s, r)' /\ LockWord(r, s)'
  BY <1>2, <1>3 DEF LockWord
<1>12. Acknowledged(s)' /\ Acknowledged(r)'
  BY <1>1, <1>2 DEF Acknowledged
<1>13. Duel(s, r)' /\ Duel(r, s)'
  BY <1>1 DEF Duel
<1> QED
  BY <1>4, <1>5, <1>6, <1>7, <1>8, <1>9, <1>10, <1>11, <1>12, <1>13

\* The new object gets the members of the old one, and is born locked.
LEMMA MoveConstructKeeps ==
  ASSUME NEW s \in Thread, NEW r \in Thread, Both(s, r), TypeOK', MoveConstruct(s)
  PROVE  SideInv(s, r)' /\ SideInv(r, s)'
<1> DEFINE a == self[s]
           d == dest[s]
<1> USE DEF Both, SideInv, Objects, Locking, TypeOK, MoveConstruct, Goto
<1>1. Moving(s) /\ a \in owned[s] /\ a \in Addr /\ Has(s, a)
  BY DEF Ownership, Moving, CodeOf, Has
<1>2. /\ d \in Addr /\ ~ Has(s, d) /\ ~ Has(r, d) /\ ~ Holds(r, d) /\ ~ Has(r, a) /\ d # a
      /\ \A x \in Addr : Has(s, x) \/ Has(r, x) => dual[x] # d
  BY <1>1, FreshDest, HasApart
<1>3. /\ \A x \in Addr \ {d} : dual'[x] = dual[x] /\ stateMachine'[x] = stateMachine[x]
      /\ dual'[d] = dual[a] /\ stateMachine'[d] = kLocked
      /\ \A x \in Addr \ {d, a} : t'[x] = t[x]
      /\ t'[d] = t[a]
      /\ pc'[s] = "repoint" /\ pc'[r] = pc[r] /\ pc[s] = "construct"
      /\ UNCHANGED <<alive, owned, self, dest, op>>
  BY <1>2
<1>4. /\ \A x \in Addr : Has(r, x)' <=> Has(r, x)
      /\ \A x \in Addr : Has(s, x)' <=> Has(s, x) \/ x = d
  BY <1>3 DEF Has
<1>5. /\ pc[r] # "idle" => self[r] # d
      /\ pc[r] \in Building => dest[r] # d
  BY <1>2 DEF Ownership, Has
<1>6. \A z \in Addr : (Holds(s, z)' <=> Holds(s, z) \/ z = d) /\ (Holds(r, z)' <=> Holds(r, z))
  BY <1>1, <1>2, <1>3, <1>5 DEF Holds, ReachesDual
<1>7. Ownership(s, r)' /\ Ownership(r, s)'
  BY <1>3 DEF Ownership, Moving, CodeOf
<1>8. CodeOf(s)' /\ CodeOf(r)'
  BY <1>3 DEF CodeOf
<1>9. Pointers(s, r)' /\ Pointers(r, s)'
  <2>1. Pointers(s, r)'
    BY <1>1, <1>2, <1>3, <1>4 DEF Pointers, Back
  <2>2. Pointers(r, s)'
    BY <1>1, <1>2, <1>3, <1>4 DEF Pointers, Back
  <2> QED BY <2>1, <2>2
<1>10. MovePointers(s)' /\ MovePointers(r)'
  BY <1>2, <1>3, <1>5 DEF MovePointers
<1>11. ValuePresent(s)' /\ ValuePresent(r)'
  <2>1. ValuePresent(s)'
    BY <1>1, <1>2, <1>3, <1>4 DEF ValuePresent
  <2>2. ValuePresent(r)'
    BY <1>1, <1>2, <1>3, <1>4 DEF ValuePresent
  <2> QED BY <2>1, <2>2
<1>12. Unreferenced(s, r)' /\ Unreferenced(r, s)'
  BY <1>1, <1>2, <1>3, <1>4 DEF Unreferenced
<1>13. HeldOnce(s, r)' /\ HeldOnce(r, s)'
  BY <1>2, <1>6 DEF HeldOnce
<1>14. LockWord(s, r)' /\ LockWord(r, s)'
  BY <1>2, <1>3, <1>4, <1>6 DEF LockWord
<1>15. Acknowledged(s)' /\ Acknowledged(r)'
  BY <1>2, <1>3, <1>4 DEF Acknowledged
<1>16. Duel(s, r)' /\ Duel(r, s)'
  BY <1>2, <1>3, <1>5 DEF Duel
<1> QED
  BY <1>7, <1>8, <1>9, <1>10, <1>11, <1>12, <1>13, <1>14, <1>15, <1>16

\* Side s holds the locks of its own object a and of the dual y of a, which points
\* back at a: then r is in none of the places where it would read or write y.
LEMMA DualLocked ==
  ASSUME NEW s \in Thread, NEW r \in Thread, Both(s, r), NEW a \in Addr, NEW y \in Addr,
         Has(s, a), Has(r, y), Holds(s, a), Holds(s, y), dual[y] = a
  PROVE  /\ ReachesDual(r) => self[r] # y
         /\ pc[r] \in Building => self[r] # y /\ dest[r] # y
         /\ self[r] = y => pc[r] \in {"idle", "lock_local", "unlock_dual"}
         /\ \A x \in Addr : Has(s, x) => x # y
<1>1. ~ Holds(r, a) /\ ~ Holds(r, y)
  BY DEF Both, SideInv, Locking, HeldOnce
<1>2. \A x \in Addr : Has(s, x) => x # y
  BY HasApart
<1> QED BY <1>1, <1>2 DEF Holds, ReachesDual

\* The dual is told about the new address.
LEMMA MoveRepointKeeps ==
  ASSUME NEW s \in Thread, NEW r \in Thread, Both(s, r), TypeOK', MoveRepoint(s)
  PROVE  SideInv(s, r)' /\ SideInv(r, s)'
<1> DEFINE a == self[s]
           d == dest[s]
           y == dual[d]
<1> USE DEF Both, SideInv, Objects, Locking, TypeOK, MoveRepoint, Goto
<1>1. /\ a \in Addr /\ d \in Addr /\ Has(s, a) /\ Has(s, d) /\ d # a /\ dual[a] = y
      /\ op[s] = "move" /\ Holds(s, a) /\ Holds(s, d)
  BY DEF Ownership, Moving, CodeOf, Has, MovePointers, Holds
<1>2. y # Null => y \in Addr /\ Has(r, y) /\ Holds(s, y) /\ dual[y] = a
  BY <1>1 DEF Pointers, Back, Holds, ReachesDual
<1>3. y # Null => /\ ReachesDual(r) => self[r] # y
                  /\ pc[r] \in Building => self[r] # y /\ dest[r] # y
                  /\ self[r] = y => pc[r] \in {"idle", "lock_local", "unlock_dual"}
                  /\ \A x \in Addr : Has(s, x) => x # y
  BY <1>1, <1>2, DualLocked
<1>4. /\ \A x \in Addr : x # y => dual'[x] = dual[x]
      /\ y # Null => dual'[y] = d
      /\ pc'[s] = "detach" /\ pc'[r] = pc[r] /\ pc[s] = "repoint"
      /\ UNCHANGED <<alive, owned, self, dest, op, t, stateMachine>>
  BY <1>2
<1>5. /\ \A x \in Addr : Has(r, x)' <=> Has(r, x)
      /\ \A x \in Addr : Has(s, x)' <=> Has(s, x)
      /\ \A x \in Addr : Has(s, x) => x # y
  BY <1>3, <1>4, AddrAssumption DEF Has
<1>6. \A z \in Addr : (Holds(s, z)' <=> Holds(s, z)) /\ (Holds(r, z)' <=> Holds(r, z))
  <2>1. \A z \in Addr : Holds(s, z)' <=> Holds(s, z)
    BY <1>1, <1>4, <1>5 DEF Holds, ReachesDual
  <2>2. \A z \in Addr : Holds(r, z)' <=> Holds(r, z)
    BY <1>3, <1>4, AddrAssumption DEF Holds, ReachesDual
  <2> QED BY <2>1, <2>2
<1>7. Ownership(s, r)' /\ Ownership(r, s)'
  BY <1>4 DEF Ownership, Moving, CodeOf
<1>8. CodeOf(s)' /\ CodeOf(r)'
  BY <1>4 DEF CodeOf
<1>9. Pointers(s, r)'
  BY <1>1, <1>2, <1>4, <1>5 DEF Pointers, Back
<1>10. Pointers(r, s)'
  <2> SUFFICES ASSUME NEW x \in Addr, Has(r, x), dual'[x] # Null
               PROVE  Has(s, dual'[x]) /\ dual'[dual'[x]] = Back(r, x)'
    BY <1>4, <1>5 DEF Pointers
  <2>1. CASE x = y
    <3>1. y # Null
      BY <2>1, AddrAssumption
    <3>2. Back(r, x)' = x
      BY <1>3, <1>4, <2>1, <3>1 DEF Back, ReachesDual
    <3>3. dual'[y] = d /\ dual'[d] = y
      BY <1>1, <1>4, <1>5, <3>1
    <3> QED BY <1>1, <2>1, <3>2, <3>3
  <2>2. CASE x # y
    <3>1. dual'[x] = dual[x] /\ Has(s, dual[x]) /\ dual[dual[x]] = Back(r, x)
      BY <1>4, <2>2 DEF Pointers
    <3>2. Back(r, x)' = Back(r, x)
      BY <1>4 DEF Back
    <3>3. dual[x] \in Addr /\ dual[x] # y
      BY <1>5, <3>1
    <3> QED BY <1>4, <3>1, <3>2, <3>3
  <2> QED BY <2>1, <2>2
<1>11. MovePointers(s)' /\ MovePointers(r)'
  BY <1>1, <1>3, <1>4, <1>5, AddrAssumption DEF MovePointers
<1>12. ValuePresent(s)' /\ ValuePresent(r)'
  <2>1. ValuePresent(s)'
    BY <1>4, <1>5 DEF ValuePresent
  <2>2. ValuePresent(r)'
    BY <1>1, <1>2, <1>3, <1>4, <1>5, AddrAssumption DEF ValuePresent
  <2> QED BY <2>1, <2>2
<1>13. Unreferenced(s, r)' /\ Unreferenced(r, s)'
  BY <1>1, <1>4, <1>5 DEF Unreferenced
<1>14. HeldOnce(s, r)' /\ HeldOnce(r, s)'
  BY <1>6 DEF HeldOnce
<1>15. LockWord(s, r)' /\ LockWord(r, s)'
  BY <1>4, <1>5, <1>6 DEF LockWord
<1>16. Acknowledged(s)' /\ Acknowledged(r)'
  BY <1>3, <1>4, <1>5, AddrAssumption DEF Acknowledged
<1>17. Duel(s, r)' /\ Duel(r, s)'
  BY <1>3, <1>4, AddrAssumption DEF Duel
<1> QED
  BY <1>7, <1>8, <1>9, <1>10, <1>11, <1>12, <1>13, <1>14, <1>15, <1>16, <1>17

\* The old object forgets its dual; nobody points at the old object any more.
LEMMA MoveDetachKeeps ==
  ASSUME NEW s \in Thread, NEW r \in Thread, Both(s, r), TypeOK', MoveDetach(s)
  PROVE  SideInv(s, r)' /\ SideInv(r, s)'
<1> DEFINE a == self[s]
           d == dest[s]
           y == dual[d]
<1> USE DEF Both, SideInv, Objects, Locking, TypeOK, MoveDetach, Goto
<1>1. /\ a \in Addr /\ d \in Addr /\ Has(s, a) /\ Has(s, d) /\ d # a /\ dual[a] = y
      /\ op[s] = "move" /\ Holds(s, a)
      /\ y # Null => y \in Addr /\ Has(r, y) /\ dual[y] = d
  BY DEF Ownership, Moving, CodeOf, Has, MovePointers, Pointers, Back, Holds
<1>2. /\ \A x \in Addr : x # a => dual'[x] = dual[x]
      /\ dual'[a] = Null
      /\ pc'[s] = "release_other" /\ pc'[r] = pc[r] /\ pc[s] = "detach"
      /\ UNCHANGED <<alive, owned, self, dest, op, t, stateMachine>>
  BY <1>1
<1>3. /\ \A x \in Addr : Has(r, x)' <=> Has(r, x)
      /\ \A x \in Addr : Has(s, x)' <=> Has(s, x)
      /\ ~ Has(r, a)
  BY <1>1, <1>2, HasApart DEF Has
<1>4. \A x \in Addr : Has(r, x) => dual[x] # a
  <2>1. ASSUME NEW x \in Addr, Has(r, x), dual[x] = a PROVE FALSE
    <3>1. dual[a] = x
      BY <1>1, <2>1, HeldPointsBack, AddrAssumption
    <3> QED BY <1>1, <2>1, <3>1, AddrAssumption
  <2> QED BY <2>1
<1>5. pc[r] # "idle" => self[r] # a /\ (pc[r] \in Building => dest[r] # a)
  BY <1>3 DEF Ownership, Has
<1>6. \A z \in Addr : (Holds(s, z)' <=> Holds(s, z)) /\ (Holds(r, z)' <=> Holds(r, z))
  BY <1>1, <1>2, <1>5 DEF Holds, ReachesDual
<1>7. Ownership(s, r)' /\ Ownership(r, s)'
  BY <1>2 DEF Ownership, Moving, CodeOf
<1>8. CodeOf(s)' /\ CodeOf(r)'
  BY <1>2 DEF CodeOf
<1>9. Pointers(s, r)' /\ Pointers(r, s)'
  <2>1. Pointers(s, r)'
    BY <1>1, <1>2, <1>3 DEF Pointers, Back
  <2>2. Pointers(r, s)'
    BY <1>1, <1>2, <1>3, <1>4 DEF Pointers, Back
  <2> QED BY <2>1, <2>2
<1>10. MovePointers(s)' /\ MovePointers(r)'
  BY <1>1, <1>2, <1>5 DEF MovePointers
<1>11. ValuePresent(s)' /\ ValuePresent(r)'
  BY <1>2, <1>3 DEF ValuePresent
<1>12. Unreferenced(s, r)' /\ Unreferenced(r, s)'
  BY <1>1, <1>2, <1>3, AddrAssumption DEF Unreferenced
<1>13. HeldOnce(s, r)' /\ HeldOnce(r, s)'
  BY <1>6 DEF HeldOnce
<1>14. LockWord(s, r)' /\ LockWord(r, s)'
  BY <1>2, <1>3, <1>6 DEF LockWord
<1>15. Acknowledged(s)' /\ Acknowledged(r)'
  BY <1>2, <1>3 DEF Acknowledged
<1>16. Duel(s, r)' /\ Duel(r, s)'
  BY <1>2, <1>5 DEF Duel
<1> QED
  BY <1>7, <1>8, <1>9, <1>10, <1>11, <1>12, <1>13, <1>14, <1>15, <1>16

\* The old object is unlocked, and the new one belongs to the side.
LEMMA MoveReleaseOtherKeeps ==
  ASSUME NEW s \in Thread, NEW r \in Thread, Both(s, r), TypeOK', MoveReleaseOther(s)
  PROVE  SideInv(s, r)' /\ SideInv(r, s)'
<1> DEFINE a == self[s]
           d == dest[s]
<1> USE DEF Both, SideInv, Objects, Locking, TypeOK, MoveReleaseOther, Goto
<1>1. /\ a \in Addr /\ d \in Addr /\ Has(s, a) /\ Has(s, d) /\ d # a /\ Holds(s, a)
      /\ op[s] = "move" /\ dual[a] = Null /\ Moving(s)
  BY DEF Ownership, Moving, CodeOf, Has, MovePointers, Holds
<1>2. /\ \A x \in Addr : x # a => stateMachine'[x] = stateMachine[x]
      /\ stateMachine'[a] = kUnlocked
      /\ self'[s] = d /\ self'[r] = self[r]
      /\ owned'[s] = owned[s] \cup {d} /\ owned'[r] = owned[r]
      /\ pc'[s] = "unlock_local" /\ pc'[r] = pc[r] /\ pc[s] = "release_other"
      /\ UNCHANGED <<alive, dest, op, t, dual>>
  BY <1>1
<1>3. /\ \A x \in Addr : Has(r, x)' <=> Has(r, x)
      /\ \A x \in Addr : Has(s, x)' <=> Has(s, x)
  BY <1>2 DEF Has
<1>4. ~ Has(r, a) /\ ~ Holds(r, a) /\ dual[d] # a /\ (pc[r] # "idle" => self[r] # a)
  <2>1. ~ Has(r, a) /\ ~ Holds(r, a)
    BY <1>1, HasApart DEF HeldOnce
  <2> QED BY <1>1, <2>1, AddrAssumption DEF Pointers, Ownership, Has
<1>5. \A z \in Addr : (Holds(s, z)' <=> Holds(s, z) /\ z # a) /\ (Holds(r, z)' <=> Holds(r, z))
  BY <1>1, <1>2, <1>4, AddrAssumption DEF Holds, ReachesDual
<1>6. Ownership(s, r)' /\ Ownership(r, s)'
  BY <1>1, <1>2 DEF Ownership, Moving, CodeOf
<1>7. CodeOf(s)' /\ CodeOf(r)'
  BY <1>2 DEF CodeOf
<1>8. Pointers(s, r)' /\ Pointers(r, s)'
  BY <1>1, <1>2, <1>3 DEF Pointers, Back
<1>9. MovePointers(s)' /\ MovePointers(r)'
  BY <1>2 DEF MovePointers
<1>10. ValuePresent(s)' /\ ValuePresent(r)'
  BY <1>2, <1>3 DEF ValuePresent
<1>11. Unreferenced(s, r)' /\ Unreferenced(r, s)'
  BY <1>1, <1>2, <1>3 DEF Unreferenced
<1>12. HeldOnce(s, r)' /\ HeldOnce(r, s)'
  BY <1>5 DEF HeldOnce
<1>13. LockWord(s, r)' /\ LockWord(r, s)'
  BY <1>1, <1>2, <1>3, <1>4, <1>5 DEF LockWord
<1>14. Acknowledged(s)' /\ Acknowledged(r)'
  BY <1>1, <1>2, <1>3, <1>4 DEF Acknowledged
<1>15. Duel(s, r)' /\ Duel(r, s)'
  BY <1>2, <1>4 DEF Duel
<1> QED
  BY <1>6, <1>7, <1>8, <1>9, <1>10, <1>11, <1>12, <1>13, <1>14, <1>15

\* The destructor clears the only pointer at the object.
LEMMA DisownKeeps ==
  ASSUME NEW s \in Thread, NEW r \in Thread, Both(s, r), TypeOK', Disown(s)
  PROVE  SideInv(s, r)' /\ SideInv(r, s)'
<1> DEFINE a == self[s]
           y == dual[a]
<1> USE DEF Both, SideInv, Objects, Locking, TypeOK, Disown, Goto
<1>1. a \in Addr /\ Has(s, a) /\ Holds(s, a) /\ op[s] = "destroy"
  BY DEF Ownership, CodeOf, Has, Holds
<1>2. y # Null => y \in Addr /\ Has(r, y) /\ Holds(s, y) /\ dual[y] = a
  BY <1>1 DEF Pointers, Back, Holds, ReachesDual
<1>3. y # Null => /\ ReachesDual(r) => self[r] # y
                  /\ pc[r] \in Building => self[r] # y /\ dest[r] # y
                  /\ self[r] = y => pc[r] \in {"idle", "lock_local", "unlock_dual"}
                  /\ \A x \in Addr : Has(s, x) => x # y
  BY <1>1, <1>2, DualLocked
<1>4. /\ \A x \in Addr : x # y => dual'[x] = dual[x]
      /\ y # Null => dual'[y] = Null
      /\ pc'[s] = "unlock_local" /\ pc'[r] = pc[r] /\ pc[s] = "disown"
      /\ UNCHANGED <<alive, owned, self, dest, op, t, stateMachine>>
  BY <1>2
<1>5. /\ \A x \in Addr : Has(r, x)' <=> Has(r, x)
      /\ \A x \in Addr : Has(s, x)' <=> Has(s, x)
      /\ \A x \in Addr : Has(s, x) => x # y
  BY <1>3, <1>4, AddrAssumption DEF Has
<1>6. \A x \in Addr : Has(r, x) /\ x # y => dual[x] # a
  BY <1>1, HeldPointsBack, AddrAssumption
<1>7. \A z \in Addr : (Holds(s, z)' <=> Holds(s, z)) /\ (Holds(r, z)' <=> Holds(r, z))
  <2>1. \A z \in Addr : Holds(s, z)' <=> Holds(s, z)
    BY <1>1, <1>4, <1>5 DEF Holds, ReachesDual
  <2>2. \A z \in Addr : Holds(r, z)' <=> Holds(r, z)
    BY <1>3, <1>4, AddrAssumption DEF Holds, ReachesDual
  <2> QED BY <2>1, <2>2
<1>8. Ownership(s, r)' /\ Ownership(r, s)'
  BY <1>1, <1>4 DEF Ownership, Moving, CodeOf
<1>9. CodeOf(s)' /\ CodeOf(r)'
  BY <1>4 DEF CodeOf
<1>10. Pointers(s, r)'
  BY <1>1, <1>2, <1>4, <1>5 DEF Pointers, Back
<1>11. Pointers(r, s)'
  BY <1>1, <1>2, <1>4, <1>5, <1>6 DEF Pointers, Back
<1>12. MovePointers(s)' /\ MovePointers(r)'
  BY <1>3, <1>4, AddrAssumption DEF MovePointers
<1>13. ValuePresent(s)' /\ ValuePresent(r)'
  BY <1>1, <1>4, <1>5 DEF ValuePresent
<1>14. Unreferenced(s, r)' /\ Unreferenced(r, s)'
  BY <1>1, <1>4, <1>5, <1>6, AddrAssumption DEF Unreferenced
<1>15. HeldOnce(s, r)' /\ HeldOnce(r, s)'
  BY <1>7 DEF HeldOnce
<1>16. LockWord(s, r)' /\ LockWord(r, s)'
  BY <1>4, <1>5, <1>7 DEF LockWord
<1>17. Acknowledged(s)' /\ Acknowledged(r)'
  BY <1>3, <1>4, <1>5, AddrAssumption DEF Acknowledged
<1>18. Duel(s, r)' /\ Duel(r, s)'
  BY <1>3, <1>4, AddrAssumption DEF Duel
<1> QED
  BY <1>8, <1>9, <1>10, <1>11, <1>12, <1>13, <1>14, <1>15, <1>16, <1>17, <1>18

\* The lock of the dual is released; after a destructor the object is gone.
LEMMA UnlockDualKeeps ==
  ASSUME NEW s \in Thread, NEW r \in Thread, Both(s, r), TypeOK', UnlockDual(s)
  PROVE  SideInv(s, r)' /\ SideInv(r, s)'
<1> DEFINE a == self[s]
           y == dual[a]
<1> USE DEF Both, SideInv, Objects, Locking, TypeOK, UnlockDual, Goto
<1>1. /\ a \in owned[s] /\ a \in Addr /\ Has(s, a)
      /\ y # Null => y \in Addr /\ Has(r, y)
  BY DEF Ownership, Has, Pointers
<1>2. /\ \A x \in Addr : x # y => stateMachine'[x] = stateMachine[x]
      /\ y # Null => stateMachine'[y] = kUnlocked
      /\ pc'[s] = "idle" /\ pc'[r] = pc[r] /\ pc[s] = "unlock_dual"
      /\ owned'[r] = owned[r]
      /\ owned'[s] = IF op[s] = "destroy" THEN owned[s] \ {a} ELSE owned[s]
      /\ UNCHANGED <<self, dest, op, t, dual>>
  BY <1>1
<1>3. /\ \A x \in Addr : Has(r, x)' <=> Has(r, x)
      /\ \A x \in Addr : Has(s, x)' <=> Has(s, x) /\ (op[s] = "destroy" => x # a)
  BY <1>2 DEF Has
<1>4. y # Null => Holds(s, y) /\ ~ Holds(r, y) /\ ~ Has(s, y)
  BY <1>1, <1>2, HasApart DEF Holds, ReachesDual, HeldOnce
<1>5. y # Null => (self[r] = y => pc[r] \in {"idle", "lock_local", "unlock_dual"})
  BY <1>4 DEF Holds
<1>6. \A z \in Addr : /\ ~ Holds(s, z)'
                      /\ Holds(s, z) <=> z = y
                      /\ Holds(r, z)' <=> Holds(r, z)
  BY <1>2, <1>5 DEF Holds, ReachesDual
<1>7. Ownership(s, r)' /\ Ownership(r, s)'
  BY DEF Ownership, Moving, CodeOf
<1>8. CodeOf(s)' /\ CodeOf(r)'
  BY <1>2 DEF CodeOf
<1>9. Pointers(s, r)' /\ Pointers(r, s)'
  <2>1. Pointers(s, r)'
    BY <1>2, <1>3 DEF Pointers, Back
  <2>2. \A x \in Addr : Has(r, x) /\ op[s] = "destroy" => dual[x] # a
    BY <1>2 DEF Unreferenced
  <2>3. \A x \in Addr : Back(r, x)' = Back(r, x)
    BY <1>2 DEF Back
  <2> QED BY <1>2, <1>3, <2>1, <2>2, <2>3 DEF Pointers
<1>10. MovePointers(s)' /\ MovePointers(r)'
  BY <1>2 DEF MovePointers
<1>11. ValuePresent(s)' /\ ValuePresent(r)'
  BY <1>2, <1>3 DEF ValuePresent
<1>12. Unreferenced(s, r)' /\ Unreferenced(r, s)'
  BY <1>2, <1>3 DEF Unreferenced
<1>13. HeldOnce(s, r)' /\ HeldOnce(r, s)'
  BY <1>6 DEF HeldOnce
<1>14. LockWord(s, r)' /\ LockWord(r, s)'
  BY <1>2, <1>3, <1>4, <1>6, AddrAssumption DEF LockWord
<1>15. Acknowledged(s)' /\ Acknowledged(r)'
  BY <1>2, <1>3 DEF Acknowledged
<1>16. Duel(s, r)' /\ Duel(r, s)'
  BY <1>2, <1>5 DEF Duel
<1> QED
  BY <1>7, <1>8, <1>9, <1>10, <1>11, <1>12, <1>13, <1>14, <1>15, <1>16

-----------------------------------------------------------------------------
\* shared_entangle.

SharedTypeOK ==
  /\ handle \subseteq Side /\ gone \subseteq Side
  /\ guard \in [Side -> {"none", "waiting", "locked", "unlocked"}]
  /\ keeps \subseteq Side
  /\ mutex \in Side \cup {Nobody}
  /\ again \subseteq Side

\* A destroyed shared_entangled has no pointer, and a pointer kept by a guard is the
\* pointer of a guard that exists.
NoStrayPointer ==
  /\ handle \cap gone = {}
  /\ \A s \in keeps : guard[s] # "none"

\* As long as no side has called lock_both twice, every guard has a pointer, and the
\* mutex is locked only by a guard that will unlock it.
GuardsKeep ==
  again = {} =>
    /\ \A s \in Side : guard[s] # "none" => s \in keeps
    /\ \A s \in Side : mutex = s => guard[s] = "locked"

SharedIInv == SharedTypeOK /\ NoStrayPointer /\ GuardsKeep

\* shared_entangle establishes the invariant.
LEMMA SharedInitCorrect == SharedInit => SharedIInv
BY SideAssumption DEF SharedInit, SharedIInv, SharedTypeOK, NoStrayPointer, GuardsKeep

\* lock_both: the pointer goes from the handle to the guard, or the side is one that
\* calls it again.
LEMMA LockBothKeeps ==
  ASSUME SharedIInv, NEW s \in Side, SharedLockBoth(s)
  PROVE  SharedIInv'
<1> USE DEF SharedIInv, SharedLockBoth
<1>1. SharedTypeOK'
  BY DEF SharedTypeOK
<1>2. NoStrayPointer'
  BY DEF SharedTypeOK, NoStrayPointer
<1>3. GuardsKeep'
  <2>1. CASE s \in handle
    BY <2>1 DEF SharedTypeOK, GuardsKeep
  <2>2. CASE s \notin handle
    BY <2>2 DEF SharedTypeOK, GuardsKeep
  <2> QED BY <2>1, <2>2
<1> QED BY <1>1, <1>2, <1>3

\* The guard locks, unlocks and releases: only a guard that has its pointer matters to
\* the invariant, and that one unlocks before it releases.
LEMMA GuardStepKeeps ==
  ASSUME SharedIInv, NEW s \in Side, GuardStep(s)
  PROVE  SharedIInv'
<1> USE DEF SharedIInv
<1>1. CASE MutexLock(s)
  BY <1>1, SideAssumption DEF MutexLock, SharedTypeOK, NoStrayPointer, GuardsKeep
<1>2. CASE MutexUnlock(s)
  BY <1>2, SideAssumption DEF MutexUnlock, SharedTypeOK, NoStrayPointer, GuardsKeep
<1>3. CASE ReleaseGuard(s)
  BY <1>3, SideAssumption DEF ReleaseGuard, SharedTypeOK, NoStrayPointer, GuardsKeep
<1> QED BY <1>1, <1>2, <1>3 DEF GuardStep

\* The destructor of a shared_entangled takes away only that side's own pointer.
LEMMA DestroyKeeps ==
  ASSUME SharedIInv, NEW s \in Side, DestroyShared(s)
  PROVE  SharedIInv'
BY DEF SharedIInv, DestroyShared, SharedTypeOK, NoStrayPointer, GuardsKeep

\* Every step preserves the invariant.
LEMMA SharedNextCorrect == SharedIInv /\ [SharedNext]_sharedVars => SharedIInv'
<1> SUFFICES ASSUME SharedIInv, [SharedNext]_sharedVars PROVE SharedIInv'
  OBVIOUS
<1>1. CASE UNCHANGED sharedVars
  BY <1>1 DEF sharedVars, SharedIInv, SharedTypeOK, NoStrayPointer, GuardsKeep
<1>2. CASE \E s \in Side : SharedLockBoth(s) \/ GuardStep(s) \/ DestroyShared(s)
  BY <1>2, LockBothKeeps, GuardStepKeeps, DestroyKeeps
<1> QED BY <1>1, <1>2 DEF SharedNext, SharedFinished, SharedStuck

\* The invariant says that a guard keeps the allocation, and that nothing is left when
\* both sides and their guards are gone.
LEMMA SharedIInvImplies == SharedIInv => SharedStorageLives
<1> SUFFICES ASSUME SharedIInv, again = {} PROVE SharedStorageLives
  BY DEF SharedStorageLives
<1>1. \A s \in Side : guard[s] # "none" => Allocated
  BY DEF SharedIInv, GuardsKeep, Allocated
<1>2. ASSUME gone = Side, \A s \in Side : guard[s] = "none"
      PROVE  mutex = Nobody /\ ~Allocated
  <2>1. handle = {}
    BY <1>2 DEF SharedIInv, SharedTypeOK, NoStrayPointer
  <2>2. keeps = {}
    BY <1>2 DEF SharedIInv, SharedTypeOK, NoStrayPointer
  <2>3. mutex = Nobody
    BY <1>2 DEF SharedIInv, SharedTypeOK, GuardsKeep
  <2> QED BY <2>1, <2>2, <2>3 DEF Allocated
<1> QED BY <1>1, <1>2 DEF SharedStorageLives

\* lock_both of a shared pair never touches freed memory, and the pair is freed in the
\* end, unless a side calls lock_both twice.
THEOREM SharedStorageCorrect == SharedSpec => []SharedStorageLives
<1>1. SharedSpec => []SharedIInv
  BY SharedInitCorrect, SharedNextCorrect, PTL DEF SharedSpec
<1> QED BY <1>1, SharedIInvImplies, PTL

-----------------------------------------------------------------------------
\* entangle() makes a pair that satisfies the invariant.
LEMMA PairInvInit == Init => PairInv
<1> SUFFICES ASSUME Init PROVE PairInv
  OBVIOUS
<1>1. PICK a \in Addr, b \in Addr :
        /\ a # b
        /\ stateMachine = [x \in Addr |-> kUnlocked]
        /\ dual = [x \in Addr |-> IF x = a THEN b ELSE IF x = b THEN a ELSE Null]
        /\ t = [x \in Addr |-> x \in {a, b}]
        /\ alive = {a, b}
        /\ owned = [s \in Thread |-> IF s = 1 THEN {a} ELSE {b}]
        /\ pc = [s \in Thread |-> "idle"]
  BY DEF Init
<1>2. TypeOK
  BY AddrAssumption DEF Init, TypeOK, Thread
<1>3. ASSUME NEW s \in Thread, NEW r \in Thread, s # r PROVE SideInv(s, r)
  <2>1. pc[s] = "idle" /\ pc[r] = "idle" /\ ~ Moving(s) /\ ~ Moving(r)
    BY <1>1 DEF Moving
  <2>2. \/ owned[s] = {a} /\ owned[r] = {b}
        \/ owned[s] = {b} /\ owned[r] = {a}
    BY <1>1, <1>3 DEF Thread
  <2>3. Ownership(s, r) /\ CodeOf(s) /\ MovePointers(s) /\ Unreferenced(s, r)
    BY <1>1, <2>1, <2>2 DEF Ownership, CodeOf, MovePointers, Unreferenced
  <2>4. Pointers(s, r) /\ ValuePresent(s)
    BY <1>1, <2>1, <2>2 DEF Pointers, ValuePresent, Has, Back
  <2>5. Locking(s, r)
    BY <1>1, <2>1 DEF Locking, HeldOnce, LockWord, Acknowledged, Duel, Holds, ReachesDual
  <2> QED BY <2>3, <2>4, <2>5 DEF SideInv, Objects
<1> QED BY <1>2, <1>3 DEF PairInv

\* A step of side s preserves what the invariant says of both sides.
LEMMA StepKeeps ==
  ASSUME NEW s \in Thread, NEW r \in Thread, Both(s, r), TypeOK',
         Begin(s) \/ LockBoth(s) \/ Critical(s) \/ UnlockBoth(s)
  PROVE  SideInv(s, r)' /\ SideInv(r, s)'
<1>1. CASE Begin(s)
  BY <1>1, BeginKeeps
<1>2. CASE LockBoth(s)
  BY <1>2, LockLocalKeeps, ReadDualKeeps, LockDualKeeps, CompareKeeps, AwaitAckKeeps,
     SettleKeeps, AcknowledgeKeeps DEF LockBoth
<1>3. CASE Critical(s)
  BY <1>3, MoveConstructKeeps, MoveRepointKeeps, MoveDetachKeeps, MoveReleaseOtherKeeps,
     DisownKeeps, EndUseKeeps DEF Critical
<1>4. CASE UnlockBoth(s)
  BY <1>4, UnlockLocalKeeps, UnlockDualKeeps DEF UnlockBoth
<1> QED BY <1>1, <1>2, <1>3, <1>4

\* Every step preserves the invariant.
LEMMA PairInvNext == PairInv /\ TypeOK' /\ [Next]_vars => PairInv'
<1> SUFFICES ASSUME PairInv, TypeOK', [Next]_vars,
                    NEW u \in Thread, NEW v \in Thread, u # v
             PROVE  SideInv(u, v)'
  BY DEF PairInv
<1>1. Both(u, v) /\ Both(v, u)
  BY DEF PairInv, Both
<1>2. CASE UNCHANGED vars
  BY <1>1, <1>2 DEF vars, Both, SideInv, Objects, Locking, Ownership, CodeOf, Pointers,
     MovePointers, ValuePresent, Unreferenced, HeldOnce, LockWord, Acknowledged, Duel,
     Moving, Has, Back, Holds, ReachesDual
<1>3. CASE \E s \in Thread : Begin(s) \/ LockBoth(s) \/ Critical(s) \/ UnlockBoth(s)
  <2>1. PICK s \in Thread : Begin(s) \/ LockBoth(s) \/ Critical(s) \/ UnlockBoth(s)
    BY <1>3
  <2>2. s = u \/ s = v
    BY DEF Thread
  <2> QED BY <1>1, <2>1, <2>2, StepKeeps
<1> QED BY <1>2, <1>3 DEF Next, Finished

\* The sides of an entangled pair always satisfy the invariant, whatever the
\* interleaving of their calls and wherever their objects have been moved to.
THEOREM PairCorrect == Spec => []PairInv
BY PairInvInit, PairInvNext, TypeCorrect, PTL DEF Spec

-----------------------------------------------------------------------------
\* What a thread may write in its critical section is locked by it, or is the
\* object that it has not constructed yet.
LEMMA SectionHeld ==
  ASSUME NEW s \in Thread, NEW r \in Thread, Both(s, r), HoldsBoth(s),
         NEW z \in Section(s)
  PROVE  z \in Addr /\ (Holds(s, z) \/ (pc[s] = "construct" /\ z = dest[s]))
<1>1. pc[s] \notin Building \cup {"construct"} => dest[s] = self[s]
  BY DEF Both, SideInv, Objects, Ownership, HoldsBoth, Moving
<1>2. /\ pc[s] \in {"repoint", "detach"} => dual[self[s]] = dual[dest[s]]
      /\ pc[s] = "release_other" => dual[self[s]] = Null
  BY DEF Both, SideInv, Objects, MovePointers
<1>3. z \in Addr
  BY DEF Section, Both, TypeOK
<1> QED BY <1>1, <1>2, <1>3 DEF Section, HoldsBoth, Holds, ReachesDual

\* Two threads that have returned from lockBoth() have no object in common.
LEMMA PairExcludes == PairInv => MutualExclusion
<1> SUFFICES ASSUME PairInv, NEW r \in Thread, NEW s \in Thread, r # s,
                    HoldsBoth(r), HoldsBoth(s), NEW z \in Section(r), z \in Section(s)
             PROVE  FALSE
  BY DEF MutualExclusion
<1>1. Both(s, r) /\ Both(r, s)
  BY DEF PairInv, Both
<1>2. /\ z \in Addr
      /\ Holds(s, z) \/ (pc[s] = "construct" /\ z = dest[s])
      /\ Holds(r, z) \/ (pc[r] = "construct" /\ z = dest[r])
  BY <1>1, SectionHeld
<1>3. ~ (Holds(s, z) /\ Holds(r, z))
  BY <1>1, <1>2 DEF Both, SideInv, Locking, HeldOnce
<1>4. /\ pc[s] = "construct" => Moving(s) /\ ~ Holds(r, dest[s])
      /\ pc[r] = "construct" => Moving(r) /\ ~ Holds(s, dest[r])
  <2>1. /\ pc[s] = "construct" => Moving(s)
        /\ pc[r] = "construct" => Moving(r)
    BY <1>1 DEF Both, SideInv, Objects, CodeOf, Moving
  <2> QED BY <1>1, <2>1, FreshDest
<1>5. Moving(s) /\ Moving(r) => dest[s] # dest[r]
  BY <1>1 DEF Both, SideInv, Objects, Ownership
<1> QED BY <1>2, <1>3, <1>4, <1>5

\* lockBoth() is a lock on the pair: two threads that have returned from it never
\* have an object in common.
THEOREM MutualExclusionCorrect == Spec => []MutualExclusion
BY PairCorrect, PairExcludes, PTL

\* A pointer that the code follows is to an object that exists.
LEMMA PairPointersLive == PairInv => NoDanglingDual
<1> SUFFICES ASSUME PairInv, NEW s \in Thread PROVE
      /\ pc[s] \in {"lock_dual", "compare", "acknowledge"} => dual[self[s]] \in alive
      /\ pc[s] \in {"using", "disown", "unlock_dual"} => dual[self[s]] \in alive \cup {Null}
      /\ pc[s] = "repoint" => dual[dest[s]] \in alive \cup {Null}
  BY DEF NoDanglingDual
<1>1. PICK r \in Thread : r # s
  BY DEF Thread
<1>2. Both(s, r) /\ Both(r, s)
  BY <1>1 DEF PairInv, Both
<1>3. \A x \in Addr : Has(s, x) => dual[x] \in alive \cup {Null}
  <2>1. ASSUME NEW x \in Addr, Has(s, x), dual[x] # Null PROVE dual[x] \in alive
    <3>1. dual[x] \in Addr /\ Has(r, dual[x])
      BY <1>2, <2>1 DEF Both, TypeOK, SideInv, Objects, Pointers
    <3> QED BY <1>2, <3>1, HasAlive
  <2> QED BY <2>1
<1>4. /\ pc[s] # "idle" => Has(s, self[s]) /\ self[s] \in Addr
      /\ pc[s] = "repoint" => Has(s, dest[s]) /\ dest[s] \in Addr
  BY <1>2 DEF Both, TypeOK, SideInv, Objects, Ownership, Has
<1>5. pc[s] \in {"lock_dual", "compare", "acknowledge"} => dual[self[s]] # Null
  BY <1>2 DEF Both, SideInv, Locking, Duel
<1> QED BY <1>3, <1>4, <1>5

\* Neither tryLockBoth() nor an operation nor unlockBoth() follows a null pointer or a
\* pointer to a destroyed object.
THEOREM NoDanglingDualCorrect == Spec => []NoDanglingDual
BY PairCorrect, PairPointersLive, PTL

\* A caller between lock_both() and the unlock sees a dual that is alive, points back
\* and has its value.
LEMMA PairUsable == PairInv => UsePairInSync
<1> SUFFICES ASSUME PairInv, NEW s \in Thread, pc[s] = "using", dual[self[s]] # Null
             PROVE  /\ dual[self[s]] \in alive /\ dual[dual[self[s]]] = self[s]
                    /\ t[dual[self[s]]]
  BY DEF UsePairInSync
<1>1. PICK r \in Thread : r # s
  BY DEF Thread
<1>2. Both(s, r) /\ Both(r, s)
  BY <1>1 DEF PairInv, Both
<1>3. self[s] \in Addr /\ Has(s, self[s]) /\ Back(s, self[s]) = self[s]
  BY <1>2 DEF Both, TypeOK, SideInv, Objects, Ownership, Has, Back
<1>4. dual[self[s]] \in Addr /\ Has(r, dual[self[s]]) /\ dual[dual[self[s]]] = self[s]
  BY <1>2, <1>3 DEF Both, TypeOK, SideInv, Objects, Pointers
<1>5. dual[self[s]] \in alive
  BY <1>2, <1>4, HasAlive
<1>6. Holds(s, dual[self[s]])
  BY DEF Holds, ReachesDual
<1>7. ~ Holds(r, dual[self[s]])
  BY <1>2, <1>4, <1>6 DEF Both, SideInv, Locking, HeldOnce
<1>8. ~ (pc[r] \in {"repoint", "detach"} /\ dual[self[s]] = self[r])
  BY <1>7 DEF Holds
<1>9. t[dual[self[s]]]
  BY <1>2, <1>3, <1>4, <1>8, AddrAssumption DEF Both, SideInv, Objects, ValuePresent
<1> QED BY <1>4, <1>5, <1>9

\* What a caller sees of the locked pair is in sync.
THEOREM UsePairInSyncCorrect == Spec => []UsePairInSync
BY PairCorrect, PairUsable, PTL

\* A step of r changes no pointer of the pair of s, when s has its local lock.
LEMMA OtherSideKeepsPair ==
  ASSUME NEW s \in Thread, NEW r \in Thread, Both(s, r), HoldsLocal(s), dual[self[s]] # Null,
         Begin(r) \/ LockBoth(r) \/ Critical(r) \/ UnlockBoth(r)
  PROVE  /\ dual'[self[s]] = dual[self[s]]
         /\ dual'[dual[self[s]]] = dual[dual[self[s]]]
<1> DEFINE a == self[s]
           y == dual[a]
<1>1. Both(r, s)
  BY DEF Both
<1>2. Holds(s, a) /\ a \in Addr /\ Has(s, a)
  BY DEF HoldsLocal, HoldsBoth, Holds, Both, TypeOK, SideInv, Objects, Ownership, Has
<1>3. y \in Addr /\ Has(r, y) /\ ~ Has(s, y) /\ ~ Has(r, a) /\ ~ Holds(r, a)
  <2>1. y \in Addr /\ Has(r, y)
    BY <1>2 DEF Both, TypeOK, SideInv, Objects, Pointers
  <2> QED BY <1>1, <1>2, <2>1, HasApart DEF Both, SideInv, Locking, HeldOnce
<1> USE DEF Both, TypeOK, Goto
<1>4. CASE MoveConstruct(r)
  <2>1. Moving(r) /\ pc[r] \notin Building
    BY <1>4 DEF MoveConstruct, SideInv, Objects, CodeOf, Moving
  <2>2. ~ Has(r, dest[r]) /\ ~ Has(s, dest[r]) /\ dest[r] \in Addr
    BY <1>1, <2>1, FreshDest
  <2> QED BY <1>2, <1>3, <1>4, <2>2 DEF MoveConstruct
<1>5. CASE MoveRepoint(r)
  <2>1. dual[dest[r]] # Null =>
          dual[dest[r]] \in Addr /\ Has(s, dual[dest[r]]) /\ Holds(r, dual[dest[r]])
    BY <1>5 DEF MoveRepoint, SideInv, Objects, Pointers, MovePointers, Has, Holds, ReachesDual
  <2> QED BY <1>2, <1>3, <1>5, <2>1 DEF MoveRepoint
<1>6. CASE MoveDetach(r)
  <2>1. /\ self[r] \in Addr /\ dest[r] \in Addr /\ Has(r, self[r]) /\ Holds(r, self[r])
        /\ Has(r, dest[r]) /\ dest[r] # self[r] /\ dual[self[r]] = dual[dest[r]]
    BY <1>6 DEF MoveDetach, SideInv, Objects, Ownership, CodeOf, Moving, MovePointers, Has, Holds
  <2>2. self[r] # y
    <3>1. SUFFICES ASSUME self[r] = y PROVE FALSE
      OBVIOUS
    <3>2. dual[y] = a
      BY <1>1, <1>2, <2>1, <3>1, HeldPointsBack
    <3>3. Back(r, self[r]) = dest[r]
      BY <1>6 DEF MoveDetach, Back
    <3>4. dual[a] = dest[r]
      BY <1>2, <2>1, <3>1, <3>2, <3>3, AddrAssumption DEF SideInv, Objects, Pointers
    <3> QED BY <2>1, <3>1, <3>4
  <2> QED BY <1>2, <1>3, <1>6, <2>1, <2>2 DEF MoveDetach
<1>7. CASE Disown(r)
  <2>1. dual[self[r]] # Null =>
          dual[self[r]] \in Addr /\ Has(s, dual[self[r]]) /\ Holds(r, dual[self[r]])
    BY <1>7 DEF Disown, SideInv, Objects, Ownership, Pointers, Has, Holds, ReachesDual
  <2> QED BY <1>2, <1>3, <1>7, <2>1 DEF Disown
<1>8. CASE Begin(r) \/ LockBoth(r) \/ MoveReleaseOther(r) \/ EndUse(r) \/ UnlockBoth(r)
  BY <1>8 DEF Begin, LockBoth, LockLocal, ReadDual, LockDual, Compare, AwaitAck, Settle,
     Acknowledge, MoveReleaseOther, EndUse, UnlockBoth, UnlockLocal, UnlockDual
<1> QED BY <1>4, <1>5, <1>6, <1>7, <1>8 DEF Critical

\* A thread that takes a step leaves the label it was at.
LEMMA StepLeavesLabel ==
  ASSUME TypeOK, NEW s \in Thread,
         Begin(s) \/ LockBoth(s) \/ Critical(s) \/ UnlockBoth(s)
  PROVE  pc'[s] # pc[s]
<1>1. Body(op[s]) \in {"using", "construct", "disown"}
  BY DEF TypeOK, Body
<1> USE DEF TypeOK, Goto
<1>2. CASE Begin(s)
  BY <1>2 DEF Begin
<1>3. CASE LockBoth(s)
  BY <1>1, <1>3 DEF LockBoth, LockLocal, ReadDual, LockDual, Compare, AwaitAck, Settle,
     Acknowledge
<1>4. CASE Critical(s)
  BY <1>4 DEF Critical, MoveConstruct, MoveRepoint, MoveDetach, MoveReleaseOther, Disown,
     EndUse
<1>5. CASE UnlockBoth(s)
  BY <1>5 DEF UnlockBoth, UnlockLocal, UnlockDual
<1> QED BY <1>2, <1>3, <1>4, <1>5

\* "Once we hold our lock, no control data can change, in either object" is true of
\* every step of the other side.
THEOREM ControlDataStableCorrect == Spec => ControlDataStable
<1>1. PairInv /\ [Next]_vars =>
        [\A s \in Thread :
           HoldsLocal(s) /\ pc'[s] = pc[s] /\ dual[self[s]] # Null
             => dual'[self[s]] = dual[self[s]]
                /\ dual'[dual[self[s]]] = dual[dual[self[s]]]]_vars
  <2> SUFFICES ASSUME PairInv, Next, NEW s \in Thread,
                      HoldsLocal(s), pc'[s] = pc[s], dual[self[s]] # Null
               PROVE  /\ dual'[self[s]] = dual[self[s]]
                      /\ dual'[dual[self[s]]] = dual[dual[self[s]]]
    OBVIOUS
  <2>1. CASE \E r \in Thread : Begin(r) \/ LockBoth(r) \/ Critical(r) \/ UnlockBoth(r)
    <3>1. PICK r \in Thread : Begin(r) \/ LockBoth(r) \/ Critical(r) \/ UnlockBoth(r)
      BY <2>1
    <3>2. r # s
      BY <3>1, StepLeavesLabel DEF PairInv
    <3>3. Both(s, r)
      BY <3>2 DEF PairInv, Both
    <3> QED BY <3>1, <3>3, OtherSideKeepsPair
  <2>2. CASE Finished
    BY <2>2 DEF Finished, vars
  <2> QED BY <2>1, <2>2 DEF Next
<1> QED BY <1>1, PairCorrect, PTL DEF Spec, ControlDataStable
=============================================================================
