--------------------------- MODULE SharedEntangle ---------------------------
(***************************************************************************)
(* shared_entangle and its lock_both (include/pushmi/entangle.h): the pair  *)
(* and a mutex live in one allocation, and each side has a shared_entangled,*)
(* a shared pointer to its object with plain pointers to the other object   *)
(* and to the mutex.  lock_both moves the shared pointer out of the         *)
(* shared_entangled into the guard it returns, but the plain pointers stay: *)
(* a side that calls lock_both again locks a mutex it no longer keeps       *)
(* alive, and the guard's destructor does not unlock it.                    *)
(*                                                                         *)
(* Side is the set of the two objects.  Each side is used by one thread.    *)
(***************************************************************************)
EXTENDS Naturals

CONSTANTS Side,   \* the two objects
          Nobody  \* no side

ASSUME SideAssumption == Nobody \notin Side

VARIABLES
  handle,  \* the sides whose shared_entangled has a pointer that is not null
  gone,    \* the sides whose shared_entangled was destroyed
  guard,   \* where each side's guard is: "none", "waiting" for the mutex, "locked",
           \* "unlocked" (its members are not destroyed yet)
  keeps,   \* the sides whose guard has a pointer that is not null
  mutex,   \* the side that has locked the mutex
  again    \* the sides that called lock_both with a null pointer

sharedVars == <<handle, gone, guard, keeps, mutex, again>>

\* shared_entangle: a pointer for each side.
SharedInit ==
  /\ handle = Side
  /\ gone = {}
  /\ guard = [s \in Side |-> "none"]
  /\ keeps = {}
  /\ mutex = Nobody
  /\ again = {}

\* The allocation exists while somebody points to it.
Allocated == handle \cup keeps # {}

-----------------------------------------------------------------------------
\* lock_both: the guard takes the pointer.
SharedLockBoth(s) ==
  /\ guard[s] = "none" /\ s \notin gone
  /\ guard' = [guard EXCEPT ![s] = "waiting"]
  /\ keeps' = IF s \in handle THEN keeps \cup {s} ELSE keeps
  /\ handle' = handle \ {s}
  /\ again' = IF s \in handle THEN again ELSE again \cup {s}
  /\ UNCHANGED <<gone, mutex>>

\* The guard locks the mutex, of whose destruction it would not know.
MutexLock(s) ==
  /\ guard[s] = "waiting" /\ mutex = Nobody
  /\ guard' = [guard EXCEPT ![s] = "locked"]
  /\ mutex' = s
  /\ UNCHANGED <<handle, gone, keeps, again>>

\* Mutant: the guard gives up its pointer before it unlocks.
UnlockReleases(s) ==
  /\ guard[s] = "locked" /\ s \in keeps
  /\ keeps' = keeps \ {s}
  /\ UNCHANGED <<handle, gone, guard, mutex, again>>

\* Mutant: the destructor of the guard does not unlock.
UnlockForgets(s) ==
  /\ guard[s] = "locked"
  /\ guard' = [guard EXCEPT ![s] = "unlocked"]
  /\ UNCHANGED <<handle, gone, keeps, mutex, again>>

\* The destructor of the guard unlocks if its pointer is not null.
MutexUnlock(s) ==
  /\ guard[s] = "locked"
  /\ guard' = [guard EXCEPT ![s] = "unlocked"]
  /\ mutex' = IF s \in keeps THEN Nobody ELSE mutex
  /\ UNCHANGED <<handle, gone, keeps, again>>

\* Then the pointer is destroyed, with the allocation if it was the last one.
ReleaseGuard(s) ==
  /\ guard[s] = "unlocked"
  /\ guard' = [guard EXCEPT ![s] = "none"]
  /\ keeps' = keeps \ {s}
  /\ UNCHANGED <<handle, gone, mutex, again>>

\* The shared_entangled of a side is destroyed, perhaps before its guard.
DestroyShared(s) ==
  /\ s \notin gone
  /\ gone' = gone \cup {s}
  /\ handle' = handle \ {s}
  /\ UNCHANGED <<guard, keeps, mutex, again>>

GuardStep(s) == MutexLock(s) \/ MutexUnlock(s) \/ ReleaseGuard(s)

\* Nothing is left of the pair.
SharedFinished ==
  /\ gone = Side /\ \A s \in Side : guard[s] = "none"
  /\ UNCHANGED sharedVars

\* The guard that locked the mutex is gone, and nobody will unlock it.
SharedStuck ==
  /\ mutex # Nobody /\ guard[mutex] # "locked"
  /\ UNCHANGED sharedVars

SharedNext ==
  \/ \E s \in Side : SharedLockBoth(s) \/ GuardStep(s) \/ DestroyShared(s)
  \/ SharedFinished
  \/ SharedStuck

SharedSpec == SharedInit /\ [][SharedNext]_sharedVars

\* A guard is locked, used and destroyed; nobody has to call lock_both.
SharedFairness == \A s \in Side : WF_sharedVars(GuardStep(s))

-----------------------------------------------------------------------------
\* While the mutex is locked or being unlocked the allocation that holds it and both
\* objects exists, also when the other side's shared_entangled and guard are gone, and it
\* is freed in the end.  A side that calls lock_both again can break this.
SharedStorageLives ==
  \/ again # {}
  \/ /\ \A s \in Side : guard[s] # "none" => Allocated
     /\ gone = Side /\ (\A s \in Side : guard[s] = "none") => mutex = Nobody /\ ~Allocated

\* lock_both returns, unless some side has called it twice: the guard of the second call
\* never unlocks.
SharedLockReturns ==
  \A s \in Side : guard[s] = "waiting" ~> guard[s] = "locked" \/ again # {}
=============================================================================
