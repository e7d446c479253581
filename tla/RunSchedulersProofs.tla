------------------------- MODULE RunSchedulersProofs -------------------------
(***************************************************************************)
(* Proofs about RunSchedulers, for any runs, tasks, schedulers, limits and  *)
(* bounds.  The inductive invariant Inv joins the budget, the quiescence of *)
(* closed runs and the fencing by generations; GenerationsIssued is what    *)
(* makes fencing inductive: a claim's token was never issued before.        *)
(***************************************************************************)
EXTENDS RunSchedulers, RunsProofs, FiniteSetTheorems

Inv ==
  /\ TypeOK
  /\ BudgetExact
  /\ ClosedRunsQuiet
  /\ PendingUnderNewestClaim
  /\ GenerationsInOrder
  /\ GenerationsIssued
  /\ LiveClaimIntact

USE RunAssumption, StorageAssumption

-----------------------------------------------------------------------------
(* The budget.                                                              *)

\* The rows of a run, and of a task, are finitely many.
LEMMA RowsFinite ==
  ASSUME attempts \in Seq(AttemptRow), NEW w
  PROVE  /\ IsFiniteSet(RowsOfRun(w))
         /\ Cardinality(RowsOfRun(w)) \in Nat
         /\ \A t : IsFiniteSet(RowsOfTask(w, t)) /\ Cardinality(RowsOfTask(w, t)) \in Nat
<1>1. DOMAIN attempts = 1..Len(attempts) /\ Len(attempts) \in Nat
  OBVIOUS
<1>2. IsFiniteSet(1..Len(attempts))
  BY <1>1, FS_Interval
<1>3. IsFiniteSet(RowsOfRun(w)) /\ \A t : IsFiniteSet(RowsOfTask(w, t))
  BY <1>1, <1>2, FS_Subset DEF RowsOfRun, RowsOfTask
<1> QED
  BY <1>3, FS_CardinalityType

\* A step that keeps the runs, the workflow and operation of every attempt, and
\* the steps and specification of every run keeps the budget exact.
LEMMA BudgetKept ==
  ASSUME BudgetExact,
         DOMAIN attempts' = DOMAIN attempts,
         \A i \in DOMAIN attempts : /\ attempts'[i].workflow = attempts[i].workflow
                                    /\ attempts'[i].operation = attempts[i].operation,
         DOMAIN workflows' = DOMAIN workflows,
         \A w \in DOMAIN workflows : /\ workflows'[w].steps = workflows[w].steps
                                     /\ workflows'[w].specification = workflows[w].specification
  PROVE  BudgetExact'
<1>1. \A w : RowsOfRun(w)' = RowsOfRun(w)
  BY DEF RowsOfRun
<1>2. \A w, t : RowsOfTask(w, t)' = RowsOfTask(w, t)
  BY <1>1 DEF RowsOfRun, RowsOfTask
<1>3. \A w \in DOMAIN workflows : TasksOf(w)' = TasksOf(w)
  BY DEF TasksOf
<1> QED
  BY <1>1, <1>2, <1>3 DEF BudgetExact

\* A step that changes neither runs, attempts nor claims.
LEMMA TablesKept ==
  ASSUME Inv, UNCHANGED <<workflows, attempts, run_jobs, claims>>, TypeOK', LiveClaimIntact'
  PROVE  Inv'
<1>1. BudgetExact'
  BY BudgetKept DEF Inv
<1>2. ClosedRunsQuiet' /\ PendingUnderNewestClaim' /\ GenerationsInOrder' /\ GenerationsIssued'
  BY DEF Inv, ClosedRunsQuiet, PendingUnderNewestClaim, GenerationsInOrder, GenerationsIssued
<1> QED
  BY <1>1, <1>2 DEF Inv

-----------------------------------------------------------------------------
(* One lemma per action.                                                     *)

\* Init establishes the invariant.
LEMMA InitInv == Init => Inv
<1> SUFFICES ASSUME Init PROVE Inv
  OBVIOUS
<1>1. TypeOK
  BY DEF IsTable, EmptyTable, Init, RunTablesInit, TypeOK, RunTablesOK
<1>2. DOMAIN attempts = {} /\ DOMAIN workflows = {} /\ DOMAIN claims = {}
  BY DEF IsTable, EmptyTable, Init, RunTablesInit
<1> QED
  BY <1>1, <1>2 DEF Inv, BudgetExact, ClosedRunsQuiet, PendingUnderNewestClaim,
                    GenerationsInOrder, GenerationsIssued, LiveClaimIntact

\* A new run has no attempts yet.
LEMMA CreateInv ==
  ASSUME Inv, NEW w \in Workflow, NEW specification \in Specification, Create(w, specification)
  PROVE  Inv'
<1> DEFINE row == [status |-> "running", steps |-> 0,
                   deadline |-> clock + specification.timeout_seconds,
                   specification |-> specification]
<1>1. row \in WorkflowRow
  <2>1. clock \in Nat
    BY DEF Inv, TypeOK
  <2>2. specification.timeout_seconds \in Nat
    OBVIOUS
  <2>3. clock + specification.timeout_seconds \in Nat
    BY <2>1, <2>2
  <2> QED
    BY <2>3 DEF WorkflowRow
<1>2. UNCHANGED <<clock, claims, attempts, run_jobs, task_outcomes>> /\ w \notin DOMAIN workflows
  BY DEF Create, CreateWorkflow
<1>3. /\ IsTable(workflows', Workflow, WorkflowRow)
      /\ DOMAIN workflows' = DOMAIN workflows \union {w}
      /\ workflows'[w] = row
      /\ \A x \in DOMAIN workflows : workflows'[x] = workflows[x]
  <2>1. workflows' = Insert(workflows, w, row)
    BY DEF Create, CreateWorkflow
  <2>2. IsTable(workflows, Workflow, WorkflowRow)
    BY DEF Inv, TypeOK, RunTablesOK
  <2> HIDE DEF row
  <2> QED
    BY <1>1, <1>2, <2>1, <2>2 DEF IsTable, Insert, Upsert
<1>4. TypeOK'
  BY <1>2, <1>3 DEF Inv, TypeOK, RunTablesOK
<1>5. BudgetExact'
  <2>1. \A x : RowsOfRun(x)' = RowsOfRun(x)
    BY <1>2 DEF RowsOfRun
  <2>2. \A x, t : RowsOfTask(x, t)' = RowsOfTask(x, t)
    BY <1>2, <2>1 DEF RowsOfTask
  <2>3. RowsOfRun(w) = {} /\ \A t : RowsOfTask(w, t) = {}
    BY <1>2 DEF Inv, BudgetExact, RowsOfRun, RowsOfTask
  <2>4. Cardinality({}) = 0
    BY FS_EmptySet
  <2>5. \A x \in DOMAIN workflows : TasksOf(x)' = TasksOf(x)
    BY <1>3 DEF TasksOf
  <2>6. TasksOf(w)' = specification.tasks
    BY <1>3 DEF TasksOf
  <2>7. /\ workflows'[w].steps = Cardinality(RowsOfRun(w)')
        /\ workflows'[w].steps <= workflows'[w].specification.max_steps
        /\ \A t \in DOMAIN TasksOf(w)' :
             Cardinality(RowsOfTask(w, t)') <= TasksOf(w)'[t].max_attempts
    <3>1. Cardinality(RowsOfRun(w)') = 0 /\ \A t : Cardinality(RowsOfTask(w, t)') = 0
      BY <2>1, <2>2, <2>3, <2>4
    <3>2. workflows'[w].steps = 0 /\ workflows'[w].specification = specification
      BY <1>3
    <3>3. /\ specification.max_steps \in Nat
          /\ \A t \in DOMAIN specification.tasks : specification.tasks[t].max_attempts \in Nat
      OBVIOUS
    <3>4. 0 <= specification.max_steps
      BY <3>3
    <3>5. \A t \in DOMAIN specification.tasks : 0 <= specification.tasks[t].max_attempts
      BY <3>3
    <3> QED
      BY <2>6, <3>1, <3>2, <3>4, <3>5
  <2>8. \A x \in DOMAIN workflows :
          /\ workflows'[x].steps = Cardinality(RowsOfRun(x)')
          /\ workflows'[x].steps <= workflows'[x].specification.max_steps
          /\ \A t \in DOMAIN TasksOf(x)' :
               Cardinality(RowsOfTask(x, t)') <= TasksOf(x)'[t].max_attempts
    BY <1>3, <2>1, <2>2, <2>5 DEF Inv, BudgetExact
  <2> QED
    BY <1>2, <1>3, <2>7, <2>8 DEF Inv, BudgetExact
<1>6. ClosedRunsQuiet'
  BY <1>2, <1>3 DEF Inv, BudgetExact, ClosedRunsQuiet
<1> QED
  BY <1>2, <1>4, <1>5, <1>6
  DEF Inv, PendingUnderNewestClaim, GenerationsInOrder, GenerationsIssued, LiveClaimIntact, Held

\* A run that is enqueued has no claim, and its attempts are of generation 0.
LEMMA SubmitInv ==
  ASSUME Inv, NEW w \in Workflow, NEW mode \in Mode, Submit(w, mode)
  PROVE  Inv'
<1> DEFINE row == [mode |-> mode, owner |-> NoOwner, generation |-> 0, expires_at |-> 0]
<1>1. row \in JobRow
  BY DEF JobRow
<1>2. UNCHANGED <<clock, claims, workflows, attempts, task_outcomes>> /\ w \notin DOMAIN run_jobs
  BY DEF Submit, Enqueue
<1>3. /\ IsTable(run_jobs', Workflow, JobRow)
      /\ DOMAIN run_jobs' = DOMAIN run_jobs \union {w}
      /\ run_jobs'[w] = row
      /\ \A x \in DOMAIN run_jobs : run_jobs'[x] = run_jobs[x]
  <2>1. run_jobs' = Insert(run_jobs, w, row)
    BY DEF Submit, Enqueue
  <2>2. IsTable(run_jobs, Workflow, JobRow)
    BY DEF Inv, TypeOK, RunTablesOK
  <2> HIDE DEF row
  <2> QED
    BY <1>1, <1>2, <2>1, <2>2 DEF IsTable, Insert, Upsert
<1>4. TypeOK'
  BY <1>2, <1>3 DEF Inv, TypeOK, RunTablesOK
<1>5. BudgetExact' /\ ClosedRunsQuiet' /\ GenerationsInOrder'
  BY <1>2, BudgetKept DEF Inv, ClosedRunsQuiet, GenerationsInOrder
<1>6. PendingUnderNewestClaim' /\ GenerationsIssued'
  BY <1>2, <1>3 DEF Inv, PendingUnderNewestClaim, GenerationsIssued
<1>7. LiveClaimIntact'
  BY <1>2, <1>3 DEF Inv, GenerationsIssued, LiveClaimIntact, Held
<1> QED
  BY <1>4, <1>5, <1>6, <1>7 DEF Inv

\* A takeover leaves no pending attempt, and its generation is new to the run.
LEMMA TakeClaimInv ==
  ASSUME Inv, NEW w \in Workflow, NEW scheduler \in Scheduler, NEW ttl \in ClaimTtl,
         TakeClaim(w, scheduler, ttl)
  PROVE  Inv'
<1> DEFINE next == run_jobs[w].generation + 1
           claim == [owner |-> scheduler, expires_at |-> clock + ttl, released |-> FALSE]
<1>1. /\ clock \in Nat /\ clock + ttl \in Nat
      /\ attempts \in Seq(AttemptRow)
      /\ IsTable(run_jobs, Workflow, JobRow)
      /\ IsTable(claims, Workflow \X (Nat \ {0}), Claim)
      /\ w \in DOMAIN run_jobs /\ run_jobs[w] \in JobRow
      /\ next \in Nat \ {0}
  <2>1. /\ clock \in Nat /\ ttl \in Nat /\ attempts \in Seq(AttemptRow)
        /\ IsTable(run_jobs, Workflow, JobRow) /\ w \in DOMAIN run_jobs
        /\ IsTable(claims, Workflow \X (Nat \ {0}), Claim)
    BY DEF Inv, TypeOK, RunTablesOK, TakeClaim, ClaimRun
  <2>2. run_jobs[w] \in JobRow
    BY <2>1 DEF IsTable
  <2> QED
    BY <2>1, <2>2 DEF JobRow
<1>2. /\ UNCHANGED <<clock, workflows, task_outcomes>>
      /\ attempts' = PendingAbandoned({w})
  BY DEF TakeClaim, ClaimRun
<1>3. /\ DOMAIN run_jobs' = DOMAIN run_jobs
      /\ run_jobs'[w].owner = scheduler
      /\ run_jobs'[w].generation = next
      /\ run_jobs'[w].expires_at = clock + ttl
      /\ run_jobs'[w] \in JobRow
      /\ \A x \in DOMAIN run_jobs \ {w} : run_jobs'[x] = run_jobs[x]
      /\ IsTable(run_jobs', Workflow, JobRow)
  BY <1>1 DEF TakeClaim, ClaimRun, JobRow, IsTable
<1>4. /\ IsTable(claims', Workflow \X (Nat \ {0}), Claim)
      /\ DOMAIN claims' = DOMAIN claims \union {<<w, next>>}
      /\ claims'[<<w, next>>] = claim
      /\ \A c \in DOMAIN claims \ {<<w, next>>} : claims'[c] = claims[c]
  <2>1. claims' = Insert(claims, <<w, next>>, claim)
    BY DEF TakeClaim
  <2>2. claim \in Claim /\ <<w, next>> \in Workflow \X (Nat \ {0})
    BY <1>1 DEF Claim
  <2> HIDE DEF claim, next
  <2> QED
    BY <1>1, <2>1, <2>2 DEF IsTable, Insert, Upsert
<1>5. /\ attempts' \in Seq(AttemptRow)
      /\ DOMAIN attempts' = DOMAIN attempts
      /\ \A i \in DOMAIN attempts :
           /\ attempts'[i].workflow = attempts[i].workflow
           /\ attempts'[i].operation = attempts[i].operation
           /\ attempts'[i].generation = attempts[i].generation
           /\ attempts'[i].status = IF attempts[i].workflow \in {w} /\ attempts[i].status = "pending"
                                    THEN "abandoned" ELSE attempts[i].status
  BY <1>1, <1>2, PendingAbandonedRows
<1>6. TypeOK'
  BY <1>2, <1>3, <1>4, <1>5 DEF Inv, TypeOK, RunTablesOK
<1>7. BudgetExact' /\ ClosedRunsQuiet' /\ GenerationsInOrder'
  <2>1. BudgetExact'
    BY <1>2, <1>5, BudgetKept DEF Inv
  <2>2. ClosedRunsQuiet'
    BY <1>2, <1>5 DEF Inv, ClosedRunsQuiet
  <2>3. GenerationsInOrder'
    BY <1>5 DEF Inv, GenerationsInOrder
  <2> QED
    BY <2>1, <2>2, <2>3
<1>8. PendingUnderNewestClaim'
  BY <1>3, <1>5 DEF Inv, PendingUnderNewestClaim
<1>9. \A i \in DOMAIN attempts : attempts[i].generation \in Int
  <2>1. \A i \in DOMAIN attempts : attempts[i] \in AttemptRow
    BY <1>1
  <2> QED
    BY <2>1 DEF AttemptRow
<1>10. GenerationsIssued'
  <2>1. \A i \in DOMAIN attempts' :
          LET x == attempts'[i].workflow IN
            IF x \in DOMAIN run_jobs'
            THEN attempts'[i].generation <= run_jobs'[x].generation
            ELSE attempts'[i].generation = 0
    BY <1>1, <1>3, <1>5, <1>9 DEF Inv, GenerationsIssued, JobRow
  <2>2. ASSUME NEW c \in DOMAIN claims'
        PROVE  c[1] \in DOMAIN run_jobs' /\ c[2] <= run_jobs'[c[1]].generation
    <3>1. CASE c = <<w, next>>
      BY <3>1, <1>1, <1>3
    <3>2. CASE c \in DOMAIN claims
      <4>1. c[1] \in DOMAIN run_jobs /\ c[2] <= run_jobs[c[1]].generation
        BY <3>2 DEF Inv, GenerationsIssued
      <4>2. c[2] \in Nat
        BY <3>2, <1>1 DEF IsTable
      <4> QED
        BY <4>1, <4>2, <1>1, <1>3 DEF JobRow
    <3> QED
      BY <3>1, <3>2, <1>4
  <2> QED
    BY <2>1, <2>2 DEF GenerationsIssued
<1>11. LiveClaimIntact'
  <2> SUFFICES ASSUME NEW c \in DOMAIN claims', Held(c)'
               PROVE  /\ c[1] \in DOMAIN run_jobs'
                      /\ run_jobs'[c[1]].owner = claims'[c].owner
                      /\ run_jobs'[c[1]].generation = c[2]
                      /\ run_jobs'[c[1]].expires_at = claims'[c].expires_at
    BY DEF LiveClaimIntact
  <2>1. CASE c = <<w, next>>
    BY <2>1, <1>1, <1>3, <1>4
  <2>2. CASE c # <<w, next>>
    <3>1. c \in DOMAIN claims /\ claims'[c] = claims[c]
      BY <2>2, <1>4
    <3>2. Held(c)
      BY <3>1, <1>2 DEF Held
    <3>3. /\ c[1] \in DOMAIN run_jobs
          /\ run_jobs[c[1]].owner = claims[c].owner
          /\ run_jobs[c[1]].generation = c[2]
          /\ run_jobs[c[1]].expires_at = claims[c].expires_at
      BY <3>1, <3>2 DEF Inv, LiveClaimIntact
    <3>4. c[1] # w
      BY <3>2, <3>3 DEF Held, TakeClaim, ClaimRun, Claimable, Unexpired
    <3> QED
      BY <3>1, <3>3, <3>4, <1>3
  <2> QED
    BY <2>1, <2>2
<1> QED
  BY <1>6, <1>7, <1>8, <1>10, <1>11 DEF Inv

\* A step of a claimant that owns the run may change the expiry and the owner of
\* its row, and what it is told about its own claim, and nothing else.
LEMMA ClaimantInv ==
  ASSUME Inv, NEW c \in DOMAIN claims, NEW job \in JobRow, NEW claim \in Claim,
         UNCHANGED <<clock, workflows, attempts, task_outcomes>>,
         c[1] \in DOMAIN run_jobs,
         run_jobs[c[1]].generation = c[2],
         job.generation = c[2],
         ~claim.released => job.owner = claim.owner /\ job.expires_at = claim.expires_at,
         run_jobs' = [run_jobs EXCEPT ![c[1]] = job],
         claims' = [claims EXCEPT ![c] = claim]
  PROVE  Inv'
<1>1. /\ IsTable(run_jobs, Workflow, JobRow)
      /\ IsTable(claims, Workflow \X (Nat \ {0}), Claim)
  BY DEF Inv, TypeOK, RunTablesOK
<1>2. /\ IsTable(run_jobs', Workflow, JobRow)
      /\ DOMAIN run_jobs' = DOMAIN run_jobs
      /\ run_jobs'[c[1]] = job
      /\ \A x \in DOMAIN run_jobs \ {c[1]} : run_jobs'[x] = run_jobs[x]
      /\ \A x \in DOMAIN run_jobs : run_jobs'[x].generation = run_jobs[x].generation
  BY <1>1 DEF IsTable
<1>3. /\ IsTable(claims', Workflow \X (Nat \ {0}), Claim)
      /\ DOMAIN claims' = DOMAIN claims
      /\ claims'[c] = claim
      /\ \A d \in DOMAIN claims \ {c} : claims'[d] = claims[d]
  BY <1>1 DEF IsTable
<1>4. TypeOK'
  BY <1>2, <1>3 DEF Inv, TypeOK, RunTablesOK
<1>5. BudgetExact' /\ ClosedRunsQuiet' /\ GenerationsInOrder'
  BY BudgetKept DEF Inv, ClosedRunsQuiet, GenerationsInOrder
<1>6. PendingUnderNewestClaim' /\ GenerationsIssued'
  BY <1>2, <1>3 DEF Inv, PendingUnderNewestClaim, GenerationsIssued
<1>7. LiveClaimIntact'
  <2> SUFFICES ASSUME NEW d \in DOMAIN claims, Held(d)'
               PROVE  /\ d[1] \in DOMAIN run_jobs'
                      /\ run_jobs'[d[1]].owner = claims'[d].owner
                      /\ run_jobs'[d[1]].generation = d[2]
                      /\ run_jobs'[d[1]].expires_at = claims'[d].expires_at
    BY <1>3 DEF LiveClaimIntact
  <2>1. CASE d = c
    BY <2>1, <1>2, <1>3 DEF Held
  <2>2. CASE d # c
    <3>1. Held(d) /\ claims'[d] = claims[d]
      BY <2>2, <1>3 DEF Held
    <3>2. /\ d[1] \in DOMAIN run_jobs
          /\ run_jobs[d[1]].owner = claims[d].owner
          /\ run_jobs[d[1]].generation = d[2]
          /\ run_jobs[d[1]].expires_at = claims[d].expires_at
      BY <3>1 DEF Inv, LiveClaimIntact
    <3>3. d = <<d[1], d[2]>> /\ c = <<c[1], c[2]>>
      BY <1>1 DEF IsTable
    <3>4. d[1] # c[1]
      BY <2>2, <3>2, <3>3
    <3> QED
      BY <3>1, <3>2, <3>4, <1>2
  <2> QED
    BY <2>1, <2>2
<1> QED
  BY <1>4, <1>5, <1>6, <1>7 DEF Inv

\* Renewing moves the expiry of the row and of the claim alike.
LEMMA HeartbeatInv ==
  ASSUME Inv, NEW c \in DOMAIN claims, NEW ttl \in ClaimTtl, Heartbeat(c[1], c[2], ttl)
  PROVE  Inv'
<1> DEFINE job == [run_jobs[c[1]] EXCEPT !.expires_at = clock + ttl]
           claim == [claims[c] EXCEPT !.expires_at = clock + ttl]
<1>1. /\ c = <<c[1], c[2]>>
      /\ claims[c] \in Claim
      /\ c[1] \in DOMAIN run_jobs
      /\ run_jobs[c[1]] \in JobRow
      /\ clock + ttl \in Nat
  BY DEF Inv, TypeOK, RunTablesOK, IsTable, Heartbeat, RenewRun
<1>2. /\ run_jobs[c[1]].generation = c[2]
      /\ run_jobs[c[1]].owner = claims[c].owner
      /\ run_jobs' = [run_jobs EXCEPT ![c[1]] = job]
      /\ claims' = [claims EXCEPT ![c] = claim]
      /\ UNCHANGED <<clock, workflows, attempts, task_outcomes>>
  BY <1>1 DEF Heartbeat, RenewRun, ExecutionAllowed
<1>3. /\ job \in JobRow /\ job.generation = run_jobs[c[1]].generation
      /\ job.owner = run_jobs[c[1]].owner /\ job.expires_at = clock + ttl
  BY <1>1 DEF JobRow
<1>4. claim \in Claim /\ claim.owner = claims[c].owner /\ claim.expires_at = clock + ttl
  BY <1>1 DEF Claim
<1> HIDE DEF job, claim
<1> QED
  BY <1>1, <1>2, <1>3, <1>4, ClaimantInv

\* A release clears the row of the claim that is given up.
LEMMA GiveUpClaimInv ==
  ASSUME Inv, NEW c \in DOMAIN claims, GiveUpClaim(c[1], c[2])
  PROVE  Inv'
<1> DEFINE job == Unowned(run_jobs[c[1]])
           claim == [claims[c] EXCEPT !.released = TRUE]
<1>1. /\ c = <<c[1], c[2]>>
      /\ claims[c] \in Claim
      /\ c[1] \in DOMAIN run_jobs
      /\ run_jobs[c[1]] \in JobRow
  BY DEF Inv, TypeOK, RunTablesOK, IsTable, GiveUpClaim, ReleaseRun
<1>2. /\ run_jobs[c[1]].generation = c[2]
      /\ run_jobs' = [run_jobs EXCEPT ![c[1]] = job]
      /\ claims' = [claims EXCEPT ![c] = claim]
      /\ UNCHANGED <<clock, workflows, attempts, task_outcomes>>
  BY <1>1 DEF GiveUpClaim, ReleaseRun
<1>3. job \in JobRow /\ job.generation = run_jobs[c[1]].generation
  BY <1>1 DEF JobRow, Unowned
<1>4. claim \in Claim /\ claim.released
  BY <1>1 DEF Claim
<1> HIDE DEF job, claim
<1> QED
  BY <1>1, <1>2, <1>3, <1>4, ClaimantInv

\* An attempt takes one step of the budget, and is of the run's generation.
LEMMA BeginInv ==
  ASSUME Inv, NEW w \in Workflow, NEW op \in Task, NEW owner \in Owner,
         NEW token \in ExecutionToken, Begin(w, op, owner, token)
  PROVE  Inv'
<1> DEFINE n == Len(attempts) + 1
           row == [workflow |-> w, operation |-> op, owner |-> owner, status |-> "pending",
                   generation |-> IF w \in DOMAIN run_jobs THEN token ELSE 0]
<1>1. /\ attempts \in Seq(AttemptRow)
      /\ IsTable(workflows, Workflow, WorkflowRow)
      /\ IsTable(run_jobs, Workflow, JobRow)
      /\ Len(attempts) \in Nat /\ DOMAIN attempts = 1..Len(attempts)
      /\ w \in DOMAIN workflows /\ workflows[w] \in WorkflowRow
  BY DEF Inv, TypeOK, RunTablesOK, Begin, BeginAttempt, BeginAllowed, Active, IsTable
<1>2. /\ UNCHANGED <<clock, claims, run_jobs, task_outcomes>>
      /\ workflows' = [workflows EXCEPT ![w].steps = @ + 1]
      /\ attempts' = Append(attempts, row)
      /\ workflows[w].status = "running"
      /\ workflows[w].steps < workflows[w].specification.max_steps
      /\ w \in DOMAIN run_jobs => token = run_jobs[w].generation
  BY DEF Begin, BeginAttempt, BeginAllowed, Active, ExecutionAllowed
<1>3. row \in AttemptRow
  BY DEF AttemptRow, ExecutionToken, None
<1>4. /\ attempts' \in Seq(AttemptRow)
      /\ DOMAIN attempts' = DOMAIN attempts \union {n}
      /\ attempts'[n] = row
      /\ \A i \in DOMAIN attempts : attempts'[i] = attempts[i]
      /\ n \notin DOMAIN attempts
  <2> HIDE DEF row
  <2> QED
    BY <1>1, <1>2, <1>3
<1>5. /\ IsTable(workflows', Workflow, WorkflowRow)
      /\ DOMAIN workflows' = DOMAIN workflows
      /\ workflows'[w].steps = workflows[w].steps + 1
      /\ \A x \in DOMAIN workflows \ {w} : workflows'[x] = workflows[x]
      /\ \A x \in DOMAIN workflows : /\ workflows'[x].status = workflows[x].status
                                     /\ workflows'[x].specification = workflows[x].specification
  <2> DEFINE new == [workflows[w] EXCEPT !.steps = @ + 1]
  <2>1. workflows' = [workflows EXCEPT ![w] = new]
    BY <1>2
  <2>2. /\ new \in WorkflowRow
        /\ new.steps = workflows[w].steps + 1
        /\ new.status = workflows[w].status
        /\ new.specification = workflows[w].specification
    BY <1>1 DEF WorkflowRow
  <2> HIDE DEF new
  <2>3. /\ DOMAIN workflows' = DOMAIN workflows
        /\ workflows'[w] = new
        /\ \A x \in DOMAIN workflows \ {w} : workflows'[x] = workflows[x]
    BY <1>1, <2>1 DEF IsTable
  <2>4. IsTable(workflows', Workflow, WorkflowRow)
    BY <1>1, <2>1, <2>2 DEF IsTable
  <2> QED
    BY <2>2, <2>3, <2>4
<1>6. TypeOK'
  BY <1>2, <1>4, <1>5 DEF Inv, TypeOK, RunTablesOK
<1>7. BudgetExact'
  <2>1. \A x : RowsOfRun(x)' = IF x = w THEN RowsOfRun(w) \union {n} ELSE RowsOfRun(x)
    BY <1>4 DEF RowsOfRun
  <2>2. \A x, t : RowsOfTask(x, t)' =
          IF x = w /\ t = op THEN RowsOfTask(w, op) \union {n} ELSE RowsOfTask(x, t)
    BY <1>4 DEF RowsOfRun, RowsOfTask
  <2>3. n \notin RowsOfRun(w) /\ n \notin RowsOfTask(w, op)
    BY <1>4 DEF RowsOfRun, RowsOfTask
  <2>4. /\ Cardinality(RowsOfRun(w) \union {n}) = Cardinality(RowsOfRun(w)) + 1
        /\ Cardinality(RowsOfTask(w, op) \union {n}) = Cardinality(RowsOfTask(w, op)) + 1
    BY <1>1, <2>3, RowsFinite, FS_AddElement
  <2>5. \A x \in DOMAIN workflows : TasksOf(x)' = TasksOf(x)
    BY <1>5 DEF TasksOf
  <2>6. \A x \in DOMAIN workflows :
          /\ workflows'[x].steps = Cardinality(RowsOfRun(x)')
          /\ workflows'[x].steps <= workflows'[x].specification.max_steps
    <3>1. /\ workflows[w].steps \in Nat
          /\ workflows[w].specification.max_steps \in Nat
      BY <1>1 DEF WorkflowRow
    <3>2. workflows[w].steps + 1 <= workflows[w].specification.max_steps
      BY <3>1, <1>2
    <3> QED
      BY <1>5, <2>1, <2>4, <3>2 DEF Inv, BudgetExact
  <2>7. ASSUME NEW x \in DOMAIN workflows, NEW t \in DOMAIN TasksOf(x)
        PROVE  Cardinality(RowsOfTask(x, t)') <= TasksOf(x)[t].max_attempts
    <3>1. CASE x = w /\ t = op
      <4>1. RowsOfTask(w, op) = AttemptsOf(w, op)
        BY DEF RowsOfTask, RowsOfRun, AttemptsOf
      <4>2. Cardinality(AttemptsOf(w, op)) < TasksOf(w)[op].max_attempts
        BY <3>1 DEF Begin, BeginAttempt, BeginAllowed
      <4>3. TasksOf(w)[op].max_attempts \in Nat
        BY <1>1, <3>1 DEF WorkflowRow, TasksOf
      <4>4. Cardinality(RowsOfTask(w, op)) \in Nat
        BY <1>1, RowsFinite
      <4>5. Cardinality(RowsOfTask(w, op)) + 1 <= TasksOf(w)[op].max_attempts
        BY <4>1, <4>2, <4>3, <4>4
      <4> QED
        BY <3>1, <4>5, <2>2, <2>4
    <3>2. CASE ~(x = w /\ t = op)
      BY <3>2, <2>2 DEF Inv, BudgetExact
    <3> QED
      BY <3>1, <3>2
  <2>8. \A i \in DOMAIN attempts' : attempts'[i].workflow \in DOMAIN workflows'
    BY <1>1, <1>4, <1>5 DEF Inv, BudgetExact
  <2> QED
    BY <1>5, <2>5, <2>6, <2>7, <2>8 DEF BudgetExact
<1>8. ClosedRunsQuiet'
  BY <1>2, <1>4, <1>5 DEF Inv, BudgetExact, ClosedRunsQuiet
<1>9. row.workflow = w /\ (w \in DOMAIN run_jobs => row.generation = run_jobs[w].generation)
      /\ (w \notin DOMAIN run_jobs => row.generation = 0)
  BY <1>2
<1>10. PendingUnderNewestClaim'
  <2> HIDE DEF row, n
  <2> QED
    BY <1>2, <1>4, <1>9 DEF Inv, PendingUnderNewestClaim
<1>11. GenerationsInOrder'
  <2> SUFFICES ASSUME NEW i \in DOMAIN attempts', NEW j \in DOMAIN attempts', i < j,
                      attempts'[i].workflow = attempts'[j].workflow
               PROVE  attempts'[i].generation <= attempts'[j].generation
    BY DEF GenerationsInOrder
  <2>1. i \in DOMAIN attempts
    BY <1>1, <1>4
  <2>2. CASE j \in DOMAIN attempts
    BY <2>1, <2>2, <1>4 DEF Inv, GenerationsInOrder
  <2>3. CASE j = n
    BY <2>1, <2>3, <1>4, <1>9 DEF Inv, GenerationsIssued
  <2> QED
    BY <2>2, <2>3, <1>4
<1>12. GenerationsIssued'
  <2>1. w \in DOMAIN run_jobs => run_jobs[w].generation \in Nat
    BY <1>1 DEF IsTable, JobRow
  <2> HIDE DEF row, n
  <2> QED
    BY <1>2, <1>4, <1>9, <2>1 DEF Inv, GenerationsIssued
<1>13. LiveClaimIntact'
  BY <1>2 DEF Inv, LiveClaimIntact, Held
<1> QED
  BY <1>6, <1>7, <1>8, <1>10, <1>11, <1>12, <1>13 DEF Inv

\* A step that only marks pending attempts abandoned keeps every part of the
\* invariant that is about attempts.
LEMMA AttemptsAbandonedInv ==
  ASSUME Inv,
         UNCHANGED <<clock, run_jobs, task_outcomes, claims>>,
         IsTable(workflows', Workflow, WorkflowRow),
         DOMAIN workflows' = DOMAIN workflows,
         \A w \in DOMAIN workflows : /\ workflows'[w].steps = workflows[w].steps
                                     /\ workflows'[w].specification = workflows[w].specification,
         attempts' \in Seq(AttemptRow),
         DOMAIN attempts' = DOMAIN attempts,
         \A i \in DOMAIN attempts :
           /\ attempts'[i].workflow = attempts[i].workflow
           /\ attempts'[i].operation = attempts[i].operation
           /\ attempts'[i].generation = attempts[i].generation
           /\ attempts'[i].status = "pending" =>
                /\ attempts[i].status = "pending"
                /\ workflows'[attempts[i].workflow].status =
                     workflows[attempts[i].workflow].status
  PROVE  Inv'
<1>1. TypeOK'
  BY DEF Inv, TypeOK, RunTablesOK
<1>2. BudgetExact'
  BY BudgetKept DEF Inv
<1>3. ClosedRunsQuiet'
  BY DEF Inv, ClosedRunsQuiet
<1>4. PendingUnderNewestClaim' /\ GenerationsIssued'
  BY DEF Inv, PendingUnderNewestClaim, GenerationsIssued
<1>5. GenerationsInOrder' /\ LiveClaimIntact'
  BY DEF Inv, GenerationsInOrder, LiveClaimIntact, Held
<1> QED
  BY <1>1, <1>2, <1>3, <1>4, <1>5 DEF Inv

\* One attempt is abandoned by its worker.
LEMMA AbandonInv ==
  ASSUME Inv, NEW id \in DOMAIN attempts, Abandon(id)
  PROVE  Inv'
<1> DEFINE new == [attempts[id] EXCEPT !.status = "abandoned"]
<1>1. /\ attempts \in Seq(AttemptRow) /\ attempts[id] \in AttemptRow
      /\ IsTable(workflows, Workflow, WorkflowRow)
  BY DEF Inv, TypeOK, RunTablesOK
<1>2. /\ attempts' = [attempts EXCEPT ![id] = new]
      /\ UNCHANGED <<clock, workflows, run_jobs, task_outcomes, claims>>
  BY DEF Abandon, AbandonAttempt
<1>3. /\ new \in AttemptRow
      /\ new.workflow = attempts[id].workflow
      /\ new.operation = attempts[id].operation
      /\ new.generation = attempts[id].generation
      /\ new.status = "abandoned"
  BY <1>1 DEF AttemptRow
<1> HIDE DEF new
<1>4. /\ attempts' \in Seq(AttemptRow)
      /\ DOMAIN attempts' = DOMAIN attempts
      /\ attempts'[id] = new
      /\ \A i \in DOMAIN attempts \ {id} : attempts'[i] = attempts[i]
  BY <1>1, <1>2, <1>3
<1> QED
  BY <1>1, <1>2, <1>3, <1>4, AttemptsAbandonedInv

\* Ending a set of running runs together with their pending attempts.
LEMMA RunsEndInv ==
  ASSUME Inv, NEW W \in SUBSET DOMAIN workflows, NEW status \in Terminal,
         workflows' = [w \in DOMAIN workflows |->
           IF w \in W THEN [workflows[w] EXCEPT !.status = status] ELSE workflows[w]],
         attempts' = PendingAbandoned(W),
         UNCHANGED <<clock, run_jobs, task_outcomes, claims>>
  PROVE  Inv'
<1>1. attempts \in Seq(AttemptRow) /\ IsTable(workflows, Workflow, WorkflowRow)
  BY DEF Inv, TypeOK, RunTablesOK
<1>2. \A w \in DOMAIN workflows :
        /\ workflows'[w] \in WorkflowRow
        /\ workflows'[w].steps = workflows[w].steps
        /\ workflows'[w].specification = workflows[w].specification
        /\ w \notin W => workflows'[w] = workflows[w]
  BY <1>1 DEF IsTable, WorkflowRow
<1>3. IsTable(workflows', Workflow, WorkflowRow) /\ DOMAIN workflows' = DOMAIN workflows
  BY <1>1, <1>2 DEF IsTable
<1>4. /\ attempts' \in Seq(AttemptRow)
      /\ DOMAIN attempts' = DOMAIN attempts
      /\ \A i \in DOMAIN attempts :
           /\ attempts'[i].workflow = attempts[i].workflow
           /\ attempts'[i].operation = attempts[i].operation
           /\ attempts'[i].generation = attempts[i].generation
           /\ attempts'[i].status = IF attempts[i].workflow \in W /\ attempts[i].status = "pending"
                                    THEN "abandoned" ELSE attempts[i].status
  BY <1>1, PendingAbandonedRows
<1>5. \A i \in DOMAIN attempts : attempts[i].workflow \in DOMAIN workflows
  BY DEF Inv, BudgetExact
<1>6. \A i \in DOMAIN attempts :
        attempts'[i].status = "pending" =>
          /\ attempts[i].status = "pending"
          /\ workflows'[attempts[i].workflow].status = workflows[attempts[i].workflow].status
  BY <1>2, <1>4, <1>5
<1> QED
  BY <1>2, <1>3, <1>4, <1>6, AttemptsAbandonedInv

\* Finishing a run that is over changes nothing.
LEMMA EndInv ==
  ASSUME Inv, NEW w \in DOMAIN workflows, NEW status \in Terminal, NEW token \in ExecutionToken,
         End(w, status, token)
  PROVE  Inv'
<1>1. IsTable(workflows, Workflow, WorkflowRow)
  BY DEF Inv, TypeOK, RunTablesOK
<1>2. UNCHANGED <<clock, run_jobs, task_outcomes, claims>>
  BY DEF End, Finish
<1>3. CASE workflows[w].status = "running"
  <2>1. workflows' = [x \in DOMAIN workflows |->
          IF x \in {w} THEN [workflows[x] EXCEPT !.status = status] ELSE workflows[x]]
    BY <1>1, <1>3 DEF End, Finish, StatusSet, IsTable
  <2>2. attempts' = PendingAbandoned({w})
    BY <1>3 DEF End, Finish
  <2> QED
    BY <1>2, <2>1, <2>2, RunsEndInv
<1>4. CASE workflows[w].status # "running"
  <2>1. UNCHANGED <<workflows, attempts>>
    BY <1>4 DEF End, Finish, StatusSet
  <2>2. TypeOK' /\ LiveClaimIntact'
    BY <1>2, <2>1 DEF Inv, TypeOK, RunTablesOK, LiveClaimIntact, Held
  <2> QED
    BY <1>2, <2>1, <2>2, TablesKept
<1> QED
  BY <1>3, <1>4

\* The sweep ends the runs whose deadline has passed.
LEMMA ExpireInv == ASSUME Inv, Expire PROVE Inv'
<1>1. /\ Overdue \in SUBSET DOMAIN workflows
      /\ "failed" \in Terminal
      /\ attempts' = PendingAbandoned(Overdue)
      /\ UNCHANGED <<clock, run_jobs, task_outcomes, claims>>
  BY DEF Expire, ExpireRuns, Overdue, Terminal
<1>2. workflows' = [w \in DOMAIN workflows |->
        IF w \in Overdue THEN [workflows[w] EXCEPT !.status = "failed"] ELSE workflows[w]]
  BY DEF Expire, ExpireRuns, Failed
<1> QED
  BY <1>1, <1>2, RunsEndInv

\* Outcomes are read by no other operation of this module.
LEMMA SaveInv ==
  ASSUME Inv, NEW c \in DOMAIN claims, NEW task \in Task, NEW outcome \in Outcome,
         Save(c[1], task, outcome, c[2])
  PROVE  Inv'
<1>1. UNCHANGED <<clock, workflows, attempts, run_jobs, claims>>
  BY DEF Save, SaveOutcome
<1>2. IsTable(task_outcomes', Workflow \X Task, Outcome)
  <2>1. /\ c[1] \in Workflow
        /\ IsTable(task_outcomes, Workflow \X Task, Outcome)
        /\ task_outcomes' = Insert(task_outcomes, <<c[1], task>>, outcome)
    BY DEF Inv, TypeOK, RunTablesOK, IsTable, Save, SaveOutcome
  <2> QED
    BY <2>1 DEF IsTable, Insert, Upsert
<1>3. TypeOK' /\ LiveClaimIntact'
  BY <1>1, <1>2 DEF Inv, TypeOK, RunTablesOK, LiveClaimIntact, Held
<1> QED
  BY <1>1, <1>3, TablesKept

\* Time ends claims and starts none.
LEMMA WaitInv == ASSUME Inv, Wait PROVE Inv'
<1>1. /\ UNCHANGED <<workflows, attempts, run_jobs, task_outcomes, claims>>
      /\ clock \in Nat /\ clock' = clock + 1
  BY DEF Wait, Tick, Inv, TypeOK
<1>2. \A c \in DOMAIN claims : Held(c)' => Held(c)
  <2>1. \A c \in DOMAIN claims : claims[c].expires_at \in Nat
    BY DEF Inv, TypeOK, IsTable, Claim
  <2> QED
    BY <1>1, <2>1 DEF Held
<1>3. LiveClaimIntact'
  BY <1>1, <1>2 DEF Inv, LiveClaimIntact
<1>4. TypeOK'
  BY <1>1 DEF Inv, TypeOK, RunTablesOK
<1> QED
  BY <1>1, <1>3, <1>4, TablesKept

\* The invariant is inductive.
LEMMA NextInv == Inv /\ [Next]_vars => Inv'
<1> SUFFICES ASSUME Inv, [Next]_vars PROVE Inv'
  OBVIOUS
<1>1. ASSUME NEW w \in Workflow, NEW specification \in Specification, Create(w, specification)
      PROVE  Inv'
  BY <1>1, CreateInv
<1>2. ASSUME NEW w \in Workflow, NEW mode \in Mode, Submit(w, mode)
      PROVE  Inv'
  BY <1>2, SubmitInv
<1>3. ASSUME NEW w \in Workflow, NEW scheduler \in Scheduler, NEW ttl \in ClaimTtl,
             TakeClaim(w, scheduler, ttl)
      PROVE  Inv'
  BY <1>3, TakeClaimInv
<1>4. ASSUME NEW c \in DOMAIN claims, NEW ttl \in ClaimTtl, Heartbeat(c[1], c[2], ttl)
      PROVE  Inv'
  BY <1>4, HeartbeatInv
<1>5. ASSUME NEW c \in DOMAIN claims, GiveUpClaim(c[1], c[2])
      PROVE  Inv'
  BY <1>5, GiveUpClaimInv
<1>6. ASSUME NEW w \in Workflow, NEW op \in Task, NEW owner \in Owner, NEW token \in ExecutionToken,
             Begin(w, op, owner, token)
      PROVE  Inv'
  BY <1>6, BeginInv
<1>7. ASSUME NEW id \in DOMAIN attempts, Abandon(id)
      PROVE  Inv'
  BY <1>7, AbandonInv
<1>8. ASSUME NEW w \in DOMAIN workflows, NEW status \in Terminal, NEW token \in ExecutionToken,
             End(w, status, token)
      PROVE  Inv'
  BY <1>8, EndInv
<1>9. ASSUME NEW c \in DOMAIN claims, NEW task \in Task, NEW outcome \in Outcome,
             Save(c[1], task, outcome, c[2])
      PROVE  Inv'
  BY <1>9, SaveInv
<1>10. CASE Expire
  BY <1>10, ExpireInv
<1>11. CASE Wait
  BY <1>11, WaitInv
<1>12. CASE UNCHANGED vars
  <2>1. TypeOK' /\ LiveClaimIntact'
    BY <1>12 DEF vars, Inv, TypeOK, RunTablesOK, LiveClaimIntact, Held
  <2> QED
    BY <1>12, <2>1, TablesKept DEF vars
<1> QED
  BY <1>1, <1>2, <1>3, <1>4, <1>5, <1>6, <1>7, <1>8, <1>9, <1>10, <1>11, <1>12 DEF Next

-----------------------------------------------------------------------------
(* What a step never does.                                                   *)

\* A step that changes a run or an attempt creates a run, claims one, begins or
\* abandons an attempt, or ends runs that were open.
LEMMA StepKinds ==
  ASSUME Inv, [Next]_vars
  PROVE  \/ UNCHANGED <<workflows, attempts>>
         \/ \E w \in Workflow, specification \in Specification : Create(w, specification)
         \/ \E w \in Workflow, scheduler \in Scheduler, ttl \in ClaimTtl :
              TakeClaim(w, scheduler, ttl)
         \/ \E w \in Workflow, op \in Task, owner \in Owner, token \in ExecutionToken :
              Begin(w, op, owner, token)
         \/ \E id \in DOMAIN attempts : Abandon(id)
         \/ \E w \in DOMAIN workflows, status \in Terminal, token \in ExecutionToken :
              End(w, status, token) /\ workflows[w].status = "running"
         \/ Expire
<1>1. \A w \in DOMAIN workflows, status \in Terminal, token \in ExecutionToken :
        End(w, status, token) /\ workflows[w].status # "running"
          => UNCHANGED <<workflows, attempts>>
  BY DEF End, Finish, StatusSet
<1> QED
  BY <1>1 DEF Next, Submit, Enqueue, Heartbeat, RenewRun, GiveUpClaim, ReleaseRun,
              Save, SaveOutcome, Wait, vars

\* A step changes neither a closed run nor its attempts, and begins none of it:
\* Inv is needed for the attempts, none of which is pending any more.
LEMMA ClosedRunStep ==
  ASSUME Inv, [Next]_vars, NEW r \in DOMAIN workflows, workflows[r].status # "running"
  PROVE  /\ workflows'[r] = workflows[r]
         /\ \A i \in DOMAIN attempts' : attempts'[i].workflow = r =>
              i \in DOMAIN attempts /\ attempts'[i] = attempts[i]
<1>1. /\ attempts \in Seq(AttemptRow)
      /\ IsTable(workflows, Workflow, WorkflowRow)
      /\ \A i \in DOMAIN attempts : attempts[i].workflow = r => attempts[i].status # "pending"
  BY DEF Inv, TypeOK, RunTablesOK, ClosedRunsQuiet
\* Abandoning the pending attempts of running runs spares those of r.
<1>2. ASSUME NEW W, attempts' = PendingAbandoned(W)
      PROVE  \A i \in DOMAIN attempts' : attempts'[i].workflow = r =>
               i \in DOMAIN attempts /\ attempts'[i] = attempts[i]
  <2>1. /\ DOMAIN attempts' = DOMAIN attempts
        /\ \A i \in DOMAIN attempts : attempts'[i].workflow = attempts[i].workflow
    BY <1>1, <1>2, PendingAbandonedRows
  <2>2. \A i \in DOMAIN attempts : attempts[i].status # "pending" => attempts'[i] = attempts[i]
    BY <1>2 DEF PendingAbandoned
  <2> QED
    BY <1>1, <2>1, <2>2
<1>3. CASE UNCHANGED <<workflows, attempts>>
  BY <1>3
<1>4. ASSUME NEW w \in Workflow, NEW specification \in Specification, Create(w, specification)
      PROVE  UNCHANGED attempts /\ workflows'[r] = workflows[r]
  BY <1>4, <1>1 DEF Create, CreateWorkflow, Insert, Upsert, IsTable
<1>5. ASSUME NEW w \in Workflow, NEW scheduler \in Scheduler, NEW ttl \in ClaimTtl,
             TakeClaim(w, scheduler, ttl)
      PROVE  UNCHANGED workflows /\ attempts' = PendingAbandoned({w})
  BY <1>5 DEF TakeClaim, ClaimRun
<1>6. ASSUME NEW w \in Workflow, NEW op \in Task, NEW owner \in Owner,
             NEW token \in ExecutionToken, Begin(w, op, owner, token)
      PROVE  /\ workflows'[r] = workflows[r]
             /\ \A i \in DOMAIN attempts' : attempts'[i].workflow = r =>
                  i \in DOMAIN attempts /\ attempts'[i] = attempts[i]
  <2> DEFINE row == [workflow |-> w, operation |-> op, owner |-> owner, status |-> "pending",
                     generation |-> IF w \in DOMAIN run_jobs THEN token ELSE 0]
  <2>1. w # r
    BY <1>6 DEF Begin, BeginAttempt, BeginAllowed, Active
  <2>2. row.workflow = w /\ row \in AttemptRow
    BY DEF AttemptRow, ExecutionToken, None
  <2>3. attempts' = Append(attempts, row) /\ workflows'[r] = workflows[r]
    BY <1>6, <2>1, <1>1 DEF Begin, BeginAttempt, IsTable
  <2> HIDE DEF row
  <2>4. \A i \in DOMAIN attempts' : i \in DOMAIN attempts \/ attempts'[i] = row
    BY <2>2, <2>3, <1>1
  <2>5. \A i \in DOMAIN attempts : attempts'[i] = attempts[i]
    BY <2>2, <2>3, <1>1
  <2> QED
    BY <2>1, <2>2, <2>3, <2>4, <2>5
<1>7. ASSUME NEW id \in DOMAIN attempts, Abandon(id)
      PROVE  /\ UNCHANGED workflows
             /\ \A i \in DOMAIN attempts' : attempts'[i].workflow = r =>
                  i \in DOMAIN attempts /\ attempts'[i] = attempts[i]
  <2>1. /\ UNCHANGED workflows
        /\ attempts[id].status = "pending"
        /\ attempts' = [attempts EXCEPT ![id].status = "abandoned"]
    BY <1>7 DEF Abandon, AbandonAttempt
  <2>2. /\ DOMAIN attempts' = DOMAIN attempts
        /\ \A i \in DOMAIN attempts \ {id} : attempts'[i] = attempts[i]
    BY <2>1
  <2>3. attempts'[id] = [attempts[id] EXCEPT !.status = "abandoned"] /\ attempts[id] \in AttemptRow
    BY <1>1, <2>1
  <2>4. attempts'[id].workflow = attempts[id].workflow
    BY <2>3 DEF AttemptRow
  <2> QED
    BY <1>1, <2>1, <2>2, <2>4
<1>8. ASSUME NEW w \in DOMAIN workflows, NEW status \in Terminal, NEW token \in ExecutionToken,
             End(w, status, token), workflows[w].status = "running"
      PROVE  workflows'[r] = workflows[r] /\ attempts' = PendingAbandoned({w})
  BY <1>8, <1>1 DEF End, Finish, StatusSet, IsTable
<1>9. ASSUME Expire
      PROVE  workflows'[r] = workflows[r] /\ attempts' = PendingAbandoned(Overdue)
  BY <1>9 DEF Expire, ExpireRuns, Overdue
<1> QED
  BY StepKinds, <1>2, <1>3, <1>4, <1>5, <1>6, <1>7, <1>8, <1>9

\* A pending attempt that a step abandons was abandoned for its own run's end, for
\* a new claim on its own run, or alone.
LEMMA AbandoningStep ==
  ASSUME Inv, [Next]_vars, NEW i \in DOMAIN attempts,
         attempts[i].status = "pending", attempts'[i].status = "abandoned"
  PROVE  LET w == attempts[i].workflow IN
           \/ workflows'[w].status # "running"
           \/ w \in DOMAIN run_jobs /\ run_jobs'[w].generation > run_jobs[w].generation
           \/ /\ \A j \in DOMAIN attempts \ {i} : attempts'[j] = attempts[j]
              /\ UNCHANGED <<workflows, run_jobs>>
<1> DEFINE w == attempts[i].workflow
<1>1. /\ attempts \in Seq(AttemptRow)
      /\ IsTable(workflows, Workflow, WorkflowRow)
      /\ IsTable(run_jobs, Workflow, JobRow)
      /\ w \in DOMAIN workflows
  BY DEF Inv, TypeOK, RunTablesOK, BudgetExact
<1>2. \A W : attempts' = PendingAbandoned(W) => w \in W
  BY <1>1 DEF PendingAbandoned
<1>3. CASE UNCHANGED <<workflows, attempts>>
  BY <1>3
<1>4. ASSUME NEW x \in Workflow, NEW specification \in Specification, Create(x, specification)
      PROVE  FALSE
  BY <1>4 DEF Create, CreateWorkflow
<1>5. ASSUME NEW x \in Workflow, NEW scheduler \in Scheduler, NEW ttl \in ClaimTtl,
             TakeClaim(x, scheduler, ttl)
      PROVE  w \in DOMAIN run_jobs /\ run_jobs'[w].generation > run_jobs[w].generation
  <2>1. /\ x \in DOMAIN run_jobs
        /\ attempts' = PendingAbandoned({x})
        /\ run_jobs' = [run_jobs EXCEPT ![x].owner = scheduler, ![x].generation = @ + 1,
                                        ![x].expires_at = clock + ttl]
    BY <1>5 DEF TakeClaim, ClaimRun
  <2>2. x = w
    BY <1>2, <2>1
  <2>3. run_jobs[w] \in JobRow
    BY <1>1, <2>1, <2>2 DEF IsTable
  <2>4. run_jobs'[w].generation = run_jobs[w].generation + 1 /\ run_jobs[w].generation \in Nat
    BY <1>1, <2>1, <2>2, <2>3 DEF JobRow, IsTable
  <2> QED
    BY <2>1, <2>2, <2>4
<1>6. ASSUME NEW x \in Workflow, NEW op \in Task, NEW owner \in Owner,
             NEW token \in ExecutionToken, Begin(x, op, owner, token)
      PROVE  FALSE
  <2> DEFINE row == [workflow |-> x, operation |-> op, owner |-> owner, status |-> "pending",
                     generation |-> IF x \in DOMAIN run_jobs THEN token ELSE 0]
  <2>1. attempts' = Append(attempts, row) /\ row \in AttemptRow
    BY <1>6 DEF Begin, BeginAttempt, AttemptRow, ExecutionToken, None
  <2> HIDE DEF row
  <2>2. attempts'[i] = attempts[i]
    BY <1>1, <2>1
  <2> QED
    BY <2>2
<1>7. ASSUME NEW id \in DOMAIN attempts, Abandon(id)
      PROVE  /\ \A j \in DOMAIN attempts \ {i} : attempts'[j] = attempts[j]
             /\ UNCHANGED <<workflows, run_jobs>>
  <2>1. /\ UNCHANGED <<workflows, run_jobs>>
        /\ attempts' = [attempts EXCEPT ![id].status = "abandoned"]
    BY <1>7 DEF Abandon, AbandonAttempt
  <2>2. id = i
    BY <2>1
  <2> QED
    BY <2>1, <2>2
<1>8. ASSUME NEW x \in DOMAIN workflows, NEW status \in Terminal, NEW token \in ExecutionToken,
             End(x, status, token), workflows[x].status = "running"
      PROVE  workflows'[w].status # "running"
  <2>1. attempts' = PendingAbandoned({x}) /\ workflows' = [workflows EXCEPT ![x].status = status]
    BY <1>8 DEF End, Finish, StatusSet
  <2>2. x = w
    BY <1>2, <2>1
  <2>3. workflows[w] \in WorkflowRow
    BY <1>1 DEF IsTable
  <2>4. workflows'[w].status = status
    BY <1>1, <2>1, <2>2, <2>3 DEF IsTable, WorkflowRow
  <2> QED
    BY <2>4 DEF Terminal
<1>9. ASSUME Expire
      PROVE  workflows'[w].status # "running"
  <2>1. w \in Overdue /\ workflows'[w] = Failed(workflows[w])
    BY <1>1, <1>2, <1>9 DEF Expire, ExpireRuns, Overdue
  <2>2. workflows[w] \in WorkflowRow
    BY <1>1 DEF IsTable
  <2> QED
    BY <2>1, <2>2 DEF Failed, WorkflowRow
<1> QED
  BY StepKinds, <1>3, <1>4, <1>5, <1>6, <1>7, <1>8, <1>9

-----------------------------------------------------------------------------
(* The theorems.                                                             *)

\* Inv holds in every reachable state.
LEMMA Invariance == Spec => []Inv
  BY InitInv, NextInv, PTL DEF Spec

\* In every reachable state the tables and the history have their types.
THEOREM TypeCorrect == Spec => []TypeOK
<1>1. Inv => TypeOK
  BY DEF Inv
<1> QED
  BY <1>1, Invariance, PTL

\* The attempt budget is exact and never exceeded, for any limits, through any
\* sequence of crashes, takeovers and retries.
THEOREM BudgetTheorem == Spec => []BudgetExact
<1>1. Inv => BudgetExact
  BY DEF Inv
<1> QED
  BY <1>1, Invariance, PTL

\* A closed run has no pending attempt.
THEOREM ClosedRunsTheorem == Spec => []ClosedRunsQuiet
<1>1. Inv => ClosedRunsQuiet
  BY DEF Inv
<1> QED
  BY <1>1, Invariance, PTL

\* No split brain: a scheduler whose claim is neither released nor expired owns
\* its run, however claims, renewals and releases interleave.
THEOREM ClaimExclusion == Spec => []LiveClaimIntact
<1>1. Inv => LiveClaimIntact
  BY DEF Inv
<1> QED
  BY <1>1, Invariance, PTL

\* Attempts follow the order of the claims on their run.
THEOREM TakeoverFences == Spec => []GenerationsInOrder
<1>1. Inv => GenerationsInOrder
  BY DEF Inv
<1> QED
  BY <1>1, Invariance, PTL

\* A takeover abandons what the scheduler before it left pending.
THEOREM TakeoverAbandons == Spec => []PendingUnderNewestClaim
<1>1. Inv => PendingUnderNewestClaim
  BY DEF Inv
<1> QED
  BY <1>1, Invariance, PTL

\* No generation is issued twice, however runs are released, claimed again or end.
THEOREM GenerationsFresh == Spec => []GenerationsIssued
<1>1. Inv => GenerationsIssued
  BY DEF Inv
<1> QED
  BY <1>1, Invariance, PTL

\* The end of a run is final: no step changes its row or one of its attempts, or
\* begins another, whatever cancellations, takeovers and sweeps race with it.
THEOREM ClosedRunsStay == Spec => ClosedRunFrozen
<1> DEFINE Step ==
      \A w \in DOMAIN workflows : workflows[w].status # "running" =>
        /\ workflows'[w] = workflows[w]
        /\ \A i \in DOMAIN attempts' : attempts'[i].workflow = w =>
             i \in DOMAIN attempts /\ attempts'[i] = attempts[i]
<1>1. Inv /\ [Next]_vars => Step
  BY ClosedRunStep
<1>2. Spec => [][Step]_vars
  BY <1>1, Invariance, PTL DEF Spec
<1> QED
  BY <1>2 DEF ClosedRunFrozen

\* A pending attempt is lost only to the end of its run, to a new claim on its run,
\* or alone.
THEOREM NothingLostInPassing == Spec => AbandonedForCause
<1> DEFINE Step ==
      \A i \in DOMAIN attempts :
        attempts[i].status = "pending" /\ attempts'[i].status = "abandoned" =>
          LET w == attempts[i].workflow IN
            \/ workflows'[w].status # "running"
            \/ w \in DOMAIN run_jobs /\ run_jobs'[w].generation > run_jobs[w].generation
            \/ /\ \A j \in DOMAIN attempts \ {i} : attempts'[j] = attempts[j]
               /\ UNCHANGED <<workflows, run_jobs>>
<1>1. Inv /\ [Next]_vars => Step
  BY AbandoningStep
<1>2. Spec => [][Step]_vars
  BY <1>1, Invariance, PTL DEF Spec
<1> QED
  BY <1>2 DEF AbandonedForCause
=============================================================================
