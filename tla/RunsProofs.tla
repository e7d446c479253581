------------------------------ MODULE RunsProofs ------------------------------
(***************************************************************************)
(* What the operations on runs do to their tables, whoever calls them: the  *)
(* types stay, rows only move forward, and an attempt that can still commit *)
(* is always of the generation its run has reached.                         *)
(***************************************************************************)
EXTENDS Runs, TLAPS

USE RunAssumption, StorageAssumption

\* The newest claim on a run, 0 while there was none.
Generation(w) == IF w \in DOMAIN run_jobs THEN run_jobs[w].generation ELSE 0

PendingCurrent ==
  \A i \in DOMAIN attempts : attempts[i].status = "pending" =>
    attempts[i].generation = Generation(attempts[i].workflow)

RunsOK ==
  /\ RunTablesOK
  /\ PendingCurrent

\* How rows may change: runs keep their specification and never lose a generation,
\* and attempts keep everything but their status, which ends once.
RunsForward ==
  /\ DOMAIN workflows \subseteq DOMAIN workflows'
  /\ \A w \in DOMAIN workflows : workflows'[w].specification = workflows[w].specification
  /\ \A w : Generation(w) <= Generation(w)'
  /\ DOMAIN attempts \subseteq DOMAIN attempts'
  /\ \A i \in DOMAIN attempts :
       /\ attempts'[i].workflow = attempts[i].workflow
       /\ attempts'[i].operation = attempts[i].operation
       /\ attempts'[i].status = "committed" <=> attempts[i].status = "committed"
  /\ \A i \in DOMAIN attempts' \ DOMAIN attempts : attempts'[i].status = "pending"

-----------------------------------------------------------------------------
(* The table of attempts.                                                   *)

\* What abandoning the pending attempts of some runs leaves as it was.
LEMMA PendingAbandonedRows ==
  ASSUME attempts \in Seq(AttemptRow), NEW W
  PROVE  /\ PendingAbandoned(W) \in Seq(AttemptRow)
         /\ DOMAIN PendingAbandoned(W) = DOMAIN attempts
         /\ \A i \in DOMAIN attempts :
              /\ PendingAbandoned(W)[i].workflow = attempts[i].workflow
              /\ PendingAbandoned(W)[i].operation = attempts[i].operation
              /\ PendingAbandoned(W)[i].generation = attempts[i].generation
              /\ PendingAbandoned(W)[i].status =
                   IF attempts[i].workflow \in W /\ attempts[i].status = "pending"
                   THEN "abandoned" ELSE attempts[i].status
<1>1. /\ DOMAIN attempts = 1..Len(attempts) /\ Len(attempts) \in Nat
      /\ \A i \in DOMAIN attempts : attempts[i] \in AttemptRow
  OBVIOUS
<1>2. \A i \in DOMAIN attempts : PendingAbandoned(W)[i] \in AttemptRow
  BY <1>1 DEF PendingAbandoned, AttemptRow
<1>3. DOMAIN PendingAbandoned(W) = 1..Len(attempts)
  BY <1>1 DEF PendingAbandoned
<1>4. PendingAbandoned(W) \in [1..Len(attempts) -> AttemptRow]
  BY <1>1, <1>2, <1>3 DEF PendingAbandoned
<1>5. PendingAbandoned(W) \in Seq(AttemptRow)
  BY <1>1, <1>4
<1> QED
  BY <1>1, <1>5 DEF PendingAbandoned, AttemptRow


\* Generations are natural numbers.
LEMMA GenerationType ==
  ASSUME RunTablesOK, NEW w
  PROVE  Generation(w) \in Nat
BY DEF RunTablesOK, IsTable, JobRow, Generation

\* A step that touches neither runs nor attempts nor claims.
LEMMA ClaimsKept ==
  ASSUME RunsOK, UNCHANGED <<workflows, attempts, run_jobs>>
  PROVE  RunsForward /\ PendingCurrent'
<1>1. \A w : Generation(w)' = Generation(w)
  BY DEF Generation
<1>2. \A w : Generation(w) \in Nat
  BY GenerationType DEF RunsOK
<1> QED
  BY <1>1, <1>2 DEF RunsOK, RunsForward, PendingCurrent

\* A new run.
LEMMA CreateWorkflowForward ==
  ASSUME RunsOK, clock \in Nat, NEW w \in Workflow, NEW specification \in Specification,
         CreateWorkflow(w, specification)
  PROVE  RunsOK' /\ RunsForward
<1> DEFINE row == [status |-> "running", steps |-> 0,
                   deadline |-> clock + specification.timeout_seconds,
                   specification |-> specification]
<1>1. row \in WorkflowRow
  <2>1. clock + specification.timeout_seconds \in Nat
    <3>1. specification.timeout_seconds \in Nat
      OBVIOUS
    <3> QED
      BY <3>1
  <2> QED
    BY <2>1 DEF WorkflowRow
<1>2. /\ UNCHANGED <<attempts, run_jobs, task_outcomes>>
      /\ w \notin DOMAIN workflows
      /\ workflows' = Insert(workflows, w, row)
  BY DEF CreateWorkflow
<1> HIDE DEF row
<1>3. /\ IsTable(workflows', Workflow, WorkflowRow)
      /\ DOMAIN workflows' = DOMAIN workflows \union {w}
      /\ \A x \in DOMAIN workflows : workflows'[x] = workflows[x]
  <2>1. IsTable(workflows, Workflow, WorkflowRow)
    BY DEF RunsOK, RunTablesOK
  <2>2. /\ IsTable(Insert(workflows, w, row), Workflow, WorkflowRow)
        /\ DOMAIN Insert(workflows, w, row) = DOMAIN workflows \union {w}
        /\ \A x \in DOMAIN workflows \ {w} : Insert(workflows, w, row)[x] = workflows[x]
    BY <1>1, <2>1 DEF IsTable, Insert, Upsert
  <2> QED
    BY <1>2, <2>2
<1>4. \A x : Generation(x)' = Generation(x) /\ Generation(x) \in Nat
  BY <1>2, GenerationType DEF RunsOK, Generation
<1> QED
  BY <1>2, <1>3, <1>4 DEF RunsOK, RunTablesOK, PendingCurrent, RunsForward

\* A run that is enqueued begins with generation 0, as it had no claim before.
LEMMA EnqueueForward ==
  ASSUME RunsOK, NEW w \in Workflow, NEW mode \in Mode, Enqueue(w, mode)
  PROVE  RunsOK' /\ RunsForward
<1> DEFINE row == [mode |-> mode, owner |-> NoOwner, generation |-> 0, expires_at |-> 0]
<1>1. row \in JobRow /\ row.generation = 0
  BY DEF JobRow
<1>2. /\ UNCHANGED <<workflows, attempts, task_outcomes>>
      /\ w \notin DOMAIN run_jobs
      /\ run_jobs' = Insert(run_jobs, w, row)
  BY DEF Enqueue
<1> HIDE DEF row
<1>3. /\ IsTable(run_jobs', Workflow, JobRow)
      /\ DOMAIN run_jobs' = DOMAIN run_jobs \union {w}
      /\ run_jobs'[w] = row
      /\ \A x \in DOMAIN run_jobs : run_jobs'[x] = run_jobs[x]
  <2>1. IsTable(run_jobs, Workflow, JobRow)
    BY DEF RunsOK, RunTablesOK
  <2>2. /\ IsTable(Insert(run_jobs, w, row), Workflow, JobRow)
        /\ DOMAIN Insert(run_jobs, w, row) = DOMAIN run_jobs \union {w}
        /\ Insert(run_jobs, w, row)[w] = row
        /\ \A x \in DOMAIN run_jobs \ {w} : Insert(run_jobs, w, row)[x] = run_jobs[x]
    BY <1>1, <2>1 DEF IsTable, Insert, Upsert
  <2> QED
    BY <1>2, <2>2
<1>4. \A x : Generation(x)' = Generation(x) /\ Generation(x) \in Nat
  BY <1>1, <1>2, <1>3, GenerationType DEF RunsOK, Generation
<1> QED
  BY <1>2, <1>3, <1>4 DEF RunsOK, RunTablesOK, PendingCurrent, RunsForward

\* A claim raises the generation and leaves none of the run's attempts pending.
LEMMA ClaimRunForward ==
  ASSUME RunsOK, clock \in Nat, NEW w \in Workflow, NEW scheduler \in Scheduler,
         NEW ttl \in Nat, ClaimRun(w, scheduler, ttl)
  PROVE  RunsOK' /\ RunsForward
<1> DEFINE next == run_jobs[w].generation + 1
           expiry == clock + ttl
<1>1. /\ attempts \in Seq(AttemptRow)
      /\ IsTable(run_jobs, Workflow, JobRow)
      /\ w \in DOMAIN run_jobs /\ run_jobs[w] \in JobRow
      /\ ttl \in Nat
  BY DEF RunsOK, RunTablesOK, ClaimRun, IsTable
<1>2. next \in Nat /\ run_jobs[w].generation <= next /\ expiry \in Nat
  BY <1>1 DEF JobRow
<1>3. /\ UNCHANGED <<workflows, task_outcomes>>
      /\ attempts' = PendingAbandoned({w})
      /\ run_jobs' = [run_jobs EXCEPT ![w].owner = scheduler, ![w].generation = next,
                                      ![w].expires_at = expiry]
  BY DEF ClaimRun
<1> HIDE DEF next, expiry
<1>4. /\ DOMAIN run_jobs' = DOMAIN run_jobs
      /\ run_jobs'[w].generation = next
      /\ run_jobs'[w] \in JobRow
      /\ \A x \in DOMAIN run_jobs \ {w} : run_jobs'[x] = run_jobs[x]
      /\ IsTable(run_jobs', Workflow, JobRow)
  BY <1>1, <1>2, <1>3 DEF JobRow, IsTable
<1>5. \A x : Generation(x) \in Nat
  BY GenerationType DEF RunsOK
<1>6. /\ \A x : x # w => Generation(x)' = Generation(x)
      /\ \A x : Generation(x) <= Generation(x)'
  BY <1>1, <1>2, <1>4, <1>5 DEF Generation
<1>7. /\ attempts' \in Seq(AttemptRow)
      /\ DOMAIN attempts' = DOMAIN attempts
      /\ \A i \in DOMAIN attempts :
           /\ attempts'[i].workflow = attempts[i].workflow
           /\ attempts'[i].operation = attempts[i].operation
           /\ attempts'[i].generation = attempts[i].generation
           /\ attempts'[i].status = IF attempts[i].workflow \in {w} /\ attempts[i].status = "pending"
                                    THEN "abandoned" ELSE attempts[i].status
  BY <1>1, <1>3, PendingAbandonedRows
<1>8. PendingCurrent'
  BY <1>6, <1>7 DEF RunsOK, PendingCurrent
<1> QED
  BY <1>3, <1>4, <1>6, <1>7, <1>8 DEF RunsOK, RunTablesOK, RunsForward

\* A renewal only moves the expiry.
LEMMA RenewRunForward ==
  ASSUME RunsOK, clock \in Nat, NEW w \in Workflow, NEW scheduler, NEW generation,
         NEW ttl \in Nat, RenewRun(w, scheduler, generation, ttl)
  PROVE  RunsOK' /\ RunsForward
<1>1. PICK expiry \in Nat : expiry = clock + ttl
  OBVIOUS
<1>2. /\ IsTable(run_jobs, Workflow, JobRow)
      /\ w \in DOMAIN run_jobs /\ run_jobs[w] \in JobRow
  BY DEF RunsOK, RunTablesOK, RenewRun, IsTable
<1>3. /\ UNCHANGED <<workflows, attempts, task_outcomes>>
      /\ run_jobs' = [run_jobs EXCEPT ![w].expires_at = expiry]
  BY <1>1 DEF RenewRun
<1>4. /\ IsTable(run_jobs', Workflow, JobRow)
      /\ DOMAIN run_jobs' = DOMAIN run_jobs
      /\ \A x \in DOMAIN run_jobs : run_jobs'[x].generation = run_jobs[x].generation
  BY <1>1, <1>2, <1>3 DEF IsTable, JobRow
<1>5. \A x : Generation(x)' = Generation(x) /\ Generation(x) \in Nat
  BY <1>4, GenerationType DEF RunsOK, Generation
<1> QED
  BY <1>3, <1>4, <1>5 DEF RunsOK, RunTablesOK, PendingCurrent, RunsForward

\* A new outcome of a task.
LEMMA SaveOutcomeForward ==
  ASSUME RunsOK, NEW w \in Workflow, NEW task \in Task, NEW outcome \in Outcome,
         NEW generation, SaveOutcome(w, task, outcome, generation)
  PROVE  RunsOK' /\ RunsForward
<1>1. UNCHANGED <<workflows, attempts, run_jobs>>
  BY DEF SaveOutcome
<1>2. IsTable(task_outcomes', Workflow \X Task, Outcome)
  BY DEF RunsOK, RunTablesOK, SaveOutcome, IsTable, Insert, Upsert
<1>3. RunsForward /\ PendingCurrent'
  BY <1>1, ClaimsKept
<1> QED
  BY <1>1, <1>2, <1>3 DEF RunsOK, RunTablesOK

\* A release keeps the generation.
LEMMA ReleaseRunForward ==
  ASSUME RunsOK, NEW w \in Workflow, NEW scheduler, NEW generation,
         ReleaseRun(w, scheduler, generation)
  PROVE  RunsOK' /\ RunsForward
<1> DEFINE job == Unowned(run_jobs[w])
<1>1. /\ IsTable(run_jobs, Workflow, JobRow)
      /\ w \in DOMAIN run_jobs /\ run_jobs[w] \in JobRow
  BY DEF RunsOK, RunTablesOK, ReleaseRun, IsTable
<1>2. job \in JobRow /\ job.generation = run_jobs[w].generation
  BY <1>1 DEF Unowned, JobRow
<1>3. /\ UNCHANGED <<workflows, attempts, task_outcomes>>
      /\ run_jobs' = [run_jobs EXCEPT ![w] = job]
  BY DEF ReleaseRun
<1> HIDE DEF job
<1>4. /\ IsTable(run_jobs', Workflow, JobRow)
      /\ DOMAIN run_jobs' = DOMAIN run_jobs
      /\ \A x \in DOMAIN run_jobs : run_jobs'[x].generation = run_jobs[x].generation
  BY <1>1, <1>2, <1>3 DEF IsTable
<1>5. \A x : Generation(x)' = Generation(x) /\ Generation(x) \in Nat
  BY <1>4, GenerationType DEF RunsOK, Generation
<1> QED
  BY <1>3, <1>4, <1>5 DEF RunsOK, RunTablesOK, PendingCurrent, RunsForward

\* An attempt begins with the generation its run has, or is refused.
LEMMA BeginAttemptForward ==
  ASSUME RunsOK, NEW w \in Workflow, NEW op \in Task, NEW owner \in Owner,
         NEW token \in ExecutionToken, BeginAttempt(w, op, owner, token)
  PROVE  RunsOK' /\ RunsForward
<1> DEFINE n == Len(attempts) + 1
           row == [workflow |-> w, operation |-> op, owner |-> owner, status |-> "pending",
                   generation |-> IF w \in DOMAIN run_jobs THEN token ELSE 0]
           run == [workflows[w] EXCEPT !.steps = @ + 1]
<1>1. /\ attempts \in Seq(AttemptRow)
      /\ IsTable(workflows, Workflow, WorkflowRow)
      /\ Len(attempts) \in Nat /\ DOMAIN attempts = 1..Len(attempts)
      /\ w \in DOMAIN workflows /\ workflows[w] \in WorkflowRow
  BY DEF RunsOK, RunTablesOK, BeginAttempt, BeginAllowed, Active, IsTable
<1>2. /\ UNCHANGED <<run_jobs, task_outcomes>>
      /\ workflows' = [workflows EXCEPT ![w] = run]
      /\ attempts' = Append(attempts, row)
      /\ w \in DOMAIN run_jobs => token = run_jobs[w].generation
  BY DEF BeginAttempt, BeginAllowed, ExecutionAllowed
<1>3. /\ row \in AttemptRow
      /\ row.workflow = w /\ row.status = "pending" /\ row.generation = Generation(w)
  BY <1>2 DEF AttemptRow, ExecutionToken, None, Generation
<1>4. run \in WorkflowRow /\ run.specification = workflows[w].specification
  BY <1>1 DEF WorkflowRow
<1> HIDE DEF row, run
<1>5. /\ attempts' \in Seq(AttemptRow)
      /\ DOMAIN attempts' = DOMAIN attempts \union {n}
      /\ attempts'[n] = row
      /\ \A i \in DOMAIN attempts : attempts'[i] = attempts[i]
      /\ n \notin DOMAIN attempts
  BY <1>1, <1>2, <1>3
<1>6. /\ IsTable(workflows', Workflow, WorkflowRow)
      /\ DOMAIN workflows' = DOMAIN workflows
      /\ \A x \in DOMAIN workflows : workflows'[x].specification = workflows[x].specification
  BY <1>1, <1>2, <1>4 DEF IsTable
<1>7. \A x : Generation(x)' = Generation(x) /\ Generation(x) \in Nat
  BY <1>2, GenerationType DEF RunsOK, Generation
<1>8. PendingCurrent'
  <2> SUFFICES ASSUME NEW i \in DOMAIN attempts', attempts'[i].status = "pending"
               PROVE  attempts'[i].generation = Generation(attempts'[i].workflow)
    BY <1>7 DEF PendingCurrent
  <2>1. CASE i = n
    BY <1>3, <1>5, <2>1
  <2>2. CASE i \in DOMAIN attempts
    BY <1>5, <2>2 DEF RunsOK, PendingCurrent
  <2> QED
    BY <1>5, <2>1, <2>2
<1>9. RunsForward
  BY <1>3, <1>5, <1>6, <1>7 DEF RunsForward
<1> QED
  BY <1>2, <1>5, <1>6, <1>8, <1>9 DEF RunsOK, RunTablesOK

\* Attempts that end, and with them perhaps runs, leave the others as they were.
LEMMA AttemptsEndForward ==
  ASSUME RunsOK, UNCHANGED <<run_jobs, task_outcomes>>,
         IsTable(workflows', Workflow, WorkflowRow),
         DOMAIN workflows' = DOMAIN workflows,
         \A w \in DOMAIN workflows : workflows'[w].specification = workflows[w].specification,
         attempts' \in Seq(AttemptRow),
         DOMAIN attempts' = DOMAIN attempts,
         \A i \in DOMAIN attempts :
           /\ attempts'[i].workflow = attempts[i].workflow
           /\ attempts'[i].operation = attempts[i].operation
           /\ attempts'[i].generation = attempts[i].generation
           /\ \/ attempts'[i].status = attempts[i].status
              \/ attempts[i].status = "pending" /\ attempts'[i].status = "abandoned"
  PROVE  RunsOK' /\ RunsForward
<1>1. \A x : Generation(x)' = Generation(x) /\ Generation(x) \in Nat
  BY GenerationType DEF RunsOK, Generation
<1>2. PendingCurrent'
  BY <1>1 DEF RunsOK, PendingCurrent
<1>3. RunsForward
  BY <1>1 DEF RunsForward
<1> QED
  BY <1>2, <1>3 DEF RunsOK, RunTablesOK

\* One attempt is abandoned by its worker.
LEMMA AbandonAttemptForward ==
  ASSUME RunsOK, NEW id \in DOMAIN attempts, AbandonAttempt(id)
  PROVE  RunsOK' /\ RunsForward
<1> DEFINE new == [attempts[id] EXCEPT !.status = "abandoned"]
<1>1. /\ attempts \in Seq(AttemptRow) /\ attempts[id] \in AttemptRow
      /\ IsTable(workflows, Workflow, WorkflowRow)
  BY DEF RunsOK, RunTablesOK
<1>2. /\ attempts' = [attempts EXCEPT ![id] = new]
      /\ attempts[id].status = "pending"
      /\ UNCHANGED <<workflows, run_jobs, task_outcomes>>
  BY DEF AbandonAttempt
<1>3. /\ new \in AttemptRow
      /\ new.workflow = attempts[id].workflow
      /\ new.operation = attempts[id].operation
      /\ new.generation = attempts[id].generation
      /\ new.status = "abandoned"
  BY <1>1 DEF AttemptRow
<1> HIDE DEF new
<1>4. /\ attempts' \in Seq(AttemptRow)
      /\ DOMAIN attempts' = DOMAIN attempts
      /\ attempts'[id] = new
      /\ \A i \in DOMAIN attempts \ {id} : attempts'[i] = attempts[i]
  BY <1>1, <1>2, <1>3
<1> QED
  BY <1>1, <1>2, <1>3, <1>4, AttemptsEndForward

\* Runs end together with their pending attempts.
LEMMA RunsEndForward ==
  ASSUME RunsOK, NEW W \in SUBSET DOMAIN workflows, NEW status \in Terminal,
         workflows' = [w \in DOMAIN workflows |->
           IF w \in W THEN [workflows[w] EXCEPT !.status = status] ELSE workflows[w]],
         attempts' = PendingAbandoned(W),
         UNCHANGED <<run_jobs, task_outcomes>>
  PROVE  RunsOK' /\ RunsForward
<1>1. attempts \in Seq(AttemptRow) /\ IsTable(workflows, Workflow, WorkflowRow)
  BY DEF RunsOK, RunTablesOK
<1>2. \A w \in DOMAIN workflows :
        /\ workflows'[w] \in WorkflowRow
        /\ workflows'[w].specification = workflows[w].specification
  BY <1>1 DEF IsTable, WorkflowRow
<1>3. IsTable(workflows', Workflow, WorkflowRow) /\ DOMAIN workflows' = DOMAIN workflows
  BY <1>1, <1>2 DEF IsTable
<1>4. /\ attempts' \in Seq(AttemptRow)
      /\ DOMAIN attempts' = DOMAIN attempts
      /\ \A i \in DOMAIN attempts :
           /\ attempts'[i].workflow = attempts[i].workflow
           /\ attempts'[i].operation = attempts[i].operation
           /\ attempts'[i].generation = attempts[i].generation
           /\ attempts'[i].status = IF attempts[i].workflow \in W /\ attempts[i].status = "pending"
                                    THEN "abandoned" ELSE attempts[i].status
  BY <1>1, PendingAbandonedRows
<1> QED
  BY <1>2, <1>3, <1>4, AttemptsEndForward

\* Finishing, with or without a token.
LEMMA FinishForward ==
  ASSUME RunsOK, NEW w \in DOMAIN workflows, NEW status \in Terminal, NEW token,
         Finish(w, status, token)
  PROVE  RunsOK' /\ RunsForward
<1>1. IsTable(workflows, Workflow, WorkflowRow)
  BY DEF RunsOK, RunTablesOK
<1>2. CASE workflows[w].status = "running"
  <2>1. workflows' = [x \in DOMAIN workflows |->
          IF x \in {w} THEN [workflows[x] EXCEPT !.status = status] ELSE workflows[x]]
    BY <1>1, <1>2 DEF Finish, StatusSet, IsTable
  <2>2. attempts' = PendingAbandoned({w}) /\ UNCHANGED <<run_jobs, task_outcomes>>
    BY <1>2 DEF Finish
  <2> QED
    BY <2>1, <2>2, RunsEndForward
<1>3. CASE workflows[w].status # "running"
  <2>1. UNCHANGED <<workflows, attempts, run_jobs, task_outcomes>>
    BY <1>3 DEF Finish, StatusSet
  <2> QED
    BY <2>1, ClaimsKept DEF RunsOK, RunTablesOK
<1> QED
  BY <1>2, <1>3

\* The sweep.
LEMMA ExpireRunsForward ==
  ASSUME RunsOK, ExpireRuns
  PROVE  RunsOK' /\ RunsForward
<1>1. /\ Overdue \in SUBSET DOMAIN workflows
      /\ "failed" \in Terminal
      /\ attempts' = PendingAbandoned(Overdue)
      /\ UNCHANGED <<run_jobs, task_outcomes>>
  BY DEF ExpireRuns, Overdue, Terminal
<1>2. workflows' = [w \in DOMAIN workflows |->
        IF w \in Overdue THEN [workflows[w] EXCEPT !.status = "failed"] ELSE workflows[w]]
  BY DEF ExpireRuns, Failed
<1> QED
  BY <1>1, <1>2, RunsEndForward
=============================================================================
