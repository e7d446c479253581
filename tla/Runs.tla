--------------------------------- MODULE Runs ---------------------------------
(***************************************************************************)
(* Workflow runs: their budget of attempts and terminal states              *)
(* (coordinator.py: create_workflow .. abandon_attempt) and the durable     *)
(* ownership of a run by one scheduler at a time (durable.py).  A claim on  *)
(* a run carries a generation; the worker of that scheduler presents it as  *)
(* its execution token.  A request the code answers with an error changes   *)
(* no table and is not a step.                                              *)
(***************************************************************************)
EXTENDS Storage, Sequences

CONSTANTS
  Specification,     \* what create_workflow may be asked for
  Mode,              \* planner modes of durable runs
  Outcome,           \* terminal outcomes of a task
  Scheduler,         \* owners of claims on runs
  ClaimTtl,          \* ttl of claims
  MaxGeneration      \* bound: claims on one run

\* A specification limits the steps of the whole run, its time, and, if it lists
\* tasks, which operations may be attempted and how often.
ASSUME RunAssumption ==
  /\ \A s \in Specification :
       /\ s.max_steps \in Nat \ {0}
       /\ s.timeout_seconds \in Nat \ {0}
       /\ s.tasks = [t \in DOMAIN s.tasks |-> s.tasks[t]]
       /\ DOMAIN s.tasks \subseteq Task
       /\ \A t \in DOMAIN s.tasks : s.tasks[t].max_attempts \in Nat \ {0}
  /\ ClaimTtl \subseteq Nat \ {0}
  /\ MaxGeneration \in Nat
  /\ NoOwner \notin Scheduler

VARIABLES
  workflows,         \* run id -> row
  attempts,          \* attempt id -> row; ids are consecutive
  run_jobs,          \* run id -> claim row, for the runs that were enqueued
  task_outcomes      \* <<run id, task id>> -> outcome

runVars == <<workflows, attempts, run_jobs, task_outcomes>>

Terminal == {"completed", "failed", "cancelled"}

\* The execution_token of a request that names none.
None == -1
ExecutionToken == {None} \union 1..MaxGeneration

\* deadline is absolute; steps counts the attempts begun so far.
WorkflowRow ==
  [status : Terminal \union {"running"}, steps : Nat, deadline : Nat,
   specification : Specification]

\* generation is history: the token the worker presented, 0 for a run without a
\* row in run_jobs, of which no token is asked.
AttemptRow ==
  [workflow : Workflow, operation : Task, owner : Owner,
   status : {"pending", "committed", "abandoned"}, generation : Int]

JobRow == [mode : Mode, owner : Scheduler \union {NoOwner}, generation : Nat, expires_at : Nat]

RunTablesOK ==
  /\ IsTable(workflows, Workflow, WorkflowRow)
  /\ attempts \in Seq(AttemptRow)
  /\ IsTable(run_jobs, Workflow, JobRow)
  /\ IsTable(task_outcomes, Workflow \X Task, Outcome)

RunTablesInit ==
  /\ workflows = EmptyTable
  /\ attempts = <<>>
  /\ run_jobs = EmptyTable
  /\ task_outcomes = EmptyTable

-----------------------------------------------------------------------------
(* Faulty variants, which the runs put in the place of the operator each names. *)

\* ExecutionAllowed, without comparing the generation.
AnyGenerationAllowed(w, token) ==
  w \in DOMAIN run_jobs =>
    /\ Unexpired(run_jobs[w].expires_at)
    /\ run_jobs[w].owner # NoOwner

\* AttemptsOf, without those that a takeover or their worker abandoned.
UnabandonedAttemptsOf(w, op) ==
  {i \in DOMAIN attempts : /\ attempts[i].workflow = w
                           /\ attempts[i].operation = op
                           /\ attempts[i].status # "abandoned"}

\* PendingAbandoned, leaving every attempt as it was.
PendingKept(W) == attempts

\* PendingAbandoned, without the run in the WHERE clause.
AllPendingAbandoned(W) ==
  [i \in DOMAIN attempts |->
    IF attempts[i].status = "pending"
    THEN [attempts[i] EXCEPT !.status = "abandoned"]
    ELSE attempts[i]]

\* Unowned, clearing the whole row.
Reset(job) == [job EXCEPT !.owner = NoOwner, !.expires_at = 0, !.generation = 0]

\* Failed, with a status that no other part of the program knows.
Expired(row) == [row EXCEPT !.status = "expired"]

\* Overdue, when the sweep looks only at runs some scheduler enqueued.
OverdueAndQueued ==
  {w \in DOMAIN run_jobs : workflows[w].status = "running" /\ ~Unexpired(workflows[w].deadline)}

\* Claimable, one tick before the claim has expired.
ClaimableEarly(w) == run_jobs[w].expires_at <= clock + 1

\* StatusSet, whatever the status was before.
StatusOverwritten(w, status) == [workflows EXCEPT ![w].status = status]

-----------------------------------------------------------------------------
(* What the operations below share.                                         *)

\* active_workflow: the row exists, is running, and its deadline has not passed.
Active(w) ==
  /\ w \in DOMAIN workflows
  /\ workflows[w].status = "running"
  /\ Unexpired(workflows[w].deadline)

\* check_execution: a run that was enqueued asks for the token of its live claim.
ExecutionAllowed(w, token) ==
  w \in DOMAIN run_jobs =>
    /\ token = run_jobs[w].generation
    /\ Unexpired(run_jobs[w].expires_at)
    /\ run_jobs[w].owner # NoOwner

TasksOf(w) == workflows[w].specification.tasks

\* The attempts of one operation of a run, whatever became of them.
AttemptsOf(w, op) ==
  {i \in DOMAIN attempts : attempts[i].workflow = w /\ attempts[i].operation = op}

\* UPDATE attempts SET status='abandoned' of the pending attempts of the runs in W.
PendingAbandoned(W) ==
  [i \in DOMAIN attempts |->
    IF attempts[i].workflow \in W /\ attempts[i].status = "pending"
    THEN [attempts[i] EXCEPT !.status = "abandoned"]
    ELSE attempts[i]]

-----------------------------------------------------------------------------
(* Runs and their budget.                                                   *)

\* A known id is answered with the row it has, or workflow_mismatch.
CreateWorkflow(w, specification) ==
  /\ w \notin DOMAIN workflows
  /\ workflows' = Insert(workflows, w,
       [status |-> "running", steps |-> 0,
        deadline |-> clock + specification.timeout_seconds,
        specification |-> specification])
  /\ UNCHANGED <<attempts, run_jobs, task_outcomes>>

\* The run is open, the token is that of its claim, and the budgets of the task and
\* of the run have an attempt left.
BeginAllowed(w, op, token) ==
  /\ Active(w)
  /\ ExecutionAllowed(w, token)
  /\ DOMAIN TasksOf(w) # {} =>
       /\ op \in DOMAIN TasksOf(w)
       /\ Cardinality(AttemptsOf(w, op)) < TasksOf(w)[op].max_attempts
  /\ workflows[w].steps < workflows[w].specification.max_steps

BeginAttempt(w, op, owner, token) ==
  /\ BeginAllowed(w, op, token)
  /\ workflows' = [workflows EXCEPT ![w].steps = @ + 1]
  /\ attempts' = Append(attempts,
       [workflow |-> w, operation |-> op, owner |-> owner, status |-> "pending",
        generation |-> IF w \in DOMAIN run_jobs THEN token ELSE 0])
  /\ UNCHANGED <<run_jobs, task_outcomes>>

\* Asks for no token: a worker only ever abandons the attempt it began.
AbandonAttempt(id) ==
  /\ attempts[id].status = "pending"
  /\ attempts' = [attempts EXCEPT ![id].status = "abandoned"]
  /\ UNCHANGED <<workflows, run_jobs, task_outcomes>>

\* UPDATE workflows SET status=? ... WHERE id=? AND status='running'.
StatusSet(w, status) ==
  IF workflows[w].status = "running"
  THEN [workflows EXCEPT ![w].status = status]
  ELSE workflows

\* The engine presents its token; a cancel through the API presents none.
Finish(w, status, token) ==
  /\ token # None => ExecutionAllowed(w, token)
  /\ workflows' = StatusSet(w, status)
  /\ attempts' = IF workflows[w].status = "running" THEN PendingAbandoned({w}) ELSE attempts
  /\ UNCHANGED <<run_jobs, task_outcomes>>

-----------------------------------------------------------------------------
(* Durable ownership.                                                       *)

\* A second enqueue finds the row: the same mode changes nothing, another mode is
\* runtime_mismatch.  Callers have created the workflow in an earlier transaction.
Enqueue(w, mode) ==
  /\ w \in DOMAIN workflows
  /\ w \notin DOMAIN run_jobs
  /\ run_jobs' = Insert(run_jobs, w,
       [mode |-> mode, owner |-> NoOwner, generation |-> 0, expires_at |-> 0])
  /\ UNCHANGED <<workflows, attempts, task_outcomes>>

Claimable(w) == ~Unexpired(run_jobs[w].expires_at)

ClaimRun(w, scheduler, ttl) ==
  /\ Active(w)
  /\ w \in DOMAIN run_jobs
  /\ Claimable(w)
  /\ run_jobs[w].generation < MaxGeneration
  /\ run_jobs' = [run_jobs EXCEPT ![w].owner = scheduler, ![w].generation = @ + 1,
                                  ![w].expires_at = clock + ttl]
  /\ attempts' = PendingAbandoned({w})
  /\ UNCHANGED <<workflows, task_outcomes>>

\* The heartbeat of the engine that holds the claim.
RenewRun(w, scheduler, generation, ttl) ==
  /\ Active(w)
  /\ w \in DOMAIN run_jobs
  /\ ExecutionAllowed(w, generation)
  /\ run_jobs[w].owner = scheduler
  /\ run_jobs' = [run_jobs EXCEPT ![w].expires_at = clock + ttl]
  /\ UNCHANGED <<workflows, attempts, task_outcomes>>

Unowned(job) == [job EXCEPT !.owner = NoOwner, !.expires_at = 0]

\* A release by a scheduler that no longer owns the run matches no row.
ReleaseRun(w, scheduler, generation) ==
  /\ w \in DOMAIN run_jobs
  /\ run_jobs[w].owner = scheduler
  /\ run_jobs[w].generation = generation
  /\ run_jobs' = [run_jobs EXCEPT ![w] = Unowned(@)]
  /\ UNCHANGED <<workflows, attempts, task_outcomes>>

\* ON CONFLICT DO NOTHING: the first outcome of a task stays.
SaveOutcome(w, task, outcome, generation) ==
  /\ ExecutionAllowed(w, generation)
  /\ <<w, task>> \notin DOMAIN task_outcomes
  /\ task_outcomes' = Insert(task_outcomes, <<w, task>>, outcome)
  /\ UNCHANGED <<workflows, attempts, run_jobs>>

Overdue ==
  {w \in DOMAIN workflows : workflows[w].status = "running" /\ ~Unexpired(workflows[w].deadline)}

Failed(row) == [row EXCEPT !.status = "failed"]

\* The sweep every scheduler makes before it polls, over enqueued and other runs.
ExpireRuns ==
  /\ Overdue # {}
  /\ workflows' = [w \in DOMAIN workflows |->
       IF w \in Overdue THEN Failed(workflows[w]) ELSE workflows[w]]
  /\ attempts' = PendingAbandoned(Overdue)
  /\ UNCHANGED <<run_jobs, task_outcomes>>
=============================================================================
