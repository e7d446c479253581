--------------------------- MODULE MCRunSchedulers ---------------------------
(* Small instances of RunSchedulers: see README, "Runs".                     *)
EXTENDS RunSchedulers, TLC

CONSTANTS t1, t2

Tasks(limits) == [t \in DOMAIN limits |-> [max_attempts |-> limits[t]]]

\* One run of two tasks whose limits exceed the budget of the run together.
MCTwoTasks ==
  {[max_steps |-> 3, timeout_seconds |-> 2, repeat_limit |-> 1,
    tasks |-> Tasks(t1 :> 2 @@ t2 :> 2)]}

\* Runs that list no task, so that any operation may be attempted.
MCNoTasks ==
  {[max_steps |-> 1, timeout_seconds |-> n, repeat_limit |-> 1, tasks |-> EmptyTable] : n \in {1, 2}}
=============================================================================
