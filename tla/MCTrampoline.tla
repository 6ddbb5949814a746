---------------------------- MODULE MCTrampoline ----------------------------
(* Work on executors: in some behaviours tasks on the executors of the library, *)
(* five tasks on two threads with a limit of one level (a task in place, one    *)
(* that is deferred, and work that is nested in either); in the others a bulk   *)
(* operation over three indices on a pool.                                      *)
EXTENDS Trampoline, Bulk

VARIABLE work  \* "tasks" or "bulk"

workVars == <<vars, bulkVars, work>>

WorkInit ==
  /\ Init /\ BulkInit
  /\ \/ work = "tasks" /\ target = "inline" /\ input = "done"
     \/ work = "bulk"

WorkNext ==
  \/ work = "tasks" /\ Next /\ UNCHANGED <<bulkVars, work>>
  \/ work = "bulk" /\ BulkNext /\ UNCHANGED <<vars, work>>

WorkSpec == WorkInit /\ [][WorkNext]_workVars /\ Fairness /\ BulkFairness
=============================================================================
