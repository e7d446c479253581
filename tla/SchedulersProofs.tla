--------------------------- MODULE SchedulersProofs ---------------------------
(***************************************************************************)
(* Proofs about Schedulers, for any schedulers, runs, specifications, plans *)
(* and bounds.  What the engine reports is judged by what it and others did *)
(* in many earlier transactions, so the inductive invariant Inv says what   *)
(* an engine and its coroutines may rely on at each place of their code.    *)
(***************************************************************************)
EXTENDS Schedulers, RunsProofs, MessagingProofs, NaturalsInduction, WellFoundedInduction,
        FiniteSetTheorems

\* Rows refer to runs that were launched and enqueued, and to tasks of their
\* specifications, which the API accepted.
Known ==
  /\ DOMAIN run_jobs \subseteq DOMAIN workflows
  /\ \A j \in DOMAIN jobs : j[2] \in DOMAIN run_jobs
  /\ \A c \in DOMAIN work : c[2] \in DOMAIN run_jobs /\ c[4] \in DOMAIN TasksOf(c[2])
  /\ \A o \in Receipts \union DOMAIN task_outcomes :
       o[1] \in DOMAIN run_jobs /\ o[2] \in DOMAIN TasksOf(o[1])
  /\ \A o \in DOMAIN task_outcomes : task_outcomes[o] \in {"completed", "failed", "skipped"}
  /\ \A w \in DOMAIN workflows : Accepted(workflows[w].specification)

\* The engine, or the coroutine, is of the newest claim on its run.
NewestJob(j) == jobs[j].generation = run_jobs[j[2]].generation
NewestTask(c) == c[3] = run_jobs[c[2]].generation

\* No engine and no coroutine is of a claim the run has not seen, and if the newest
\* claim is still held then by the scheduler of the engines and coroutines under it.
Ownership ==
  /\ \A j \in DOMAIN jobs :
       /\ jobs[j].generation <= run_jobs[j[2]].generation
       /\ jobs[j].phase # "started" => jobs[j].generation > 0
       /\ jobs[j].generation > 0 /\ NewestJob(j) =>
            run_jobs[j[2]].owner \in {j[1], NoOwner}
  /\ \A c \in DOMAIN work :
       /\ c[3] <= run_jobs[c[2]].generation
       /\ NewestTask(c) => run_jobs[c[2]].owner \in {c[1], NoOwner}

Saved(w, t, outcome) == <<w, t>> \in DOMAIN task_outcomes /\ task_outcomes[<<w, t>>] = outcome

\* What an engine remembers is saved, and while it decides by it what to do next, and
\* nobody has taken over, nothing else is.
Remembered ==
  \A j \in DOMAIN jobs :
    /\ \A t \in DOMAIN jobs[j].outcomes : Saved(j[2], t, jobs[j].outcomes[t])
    /\ /\ NewestJob(j)
       /\ jobs[j].phase \in {"provisioning", "gathering", "saving", "skipping", "finishing"}
       => \A t \in Task : <<j[2], t>> \in DOMAIN task_outcomes => t \in DOMAIN jobs[j].outcomes

\* What the phase of an engine says of its coroutines and of the tasks left.
PhasesMean ==
  \A j \in DOMAIN jobs :
    LET phase == jobs[j].phase
        mine == CoroutinesOf(j[1], j[2], jobs[j].generation) IN
      /\ phase \in {"claimed", "provisioning", "skipping", "finishing"} => mine = {}
      /\ phase = "saving" => \A c \in mine : work[c].at = "done"
      /\ phase = "skipping" => Ready(j[2], jobs[j].outcomes) = {}
      /\ phase = "finishing" => DOMAIN TasksOf(j[2]) \subseteq DOMAIN jobs[j].outcomes

\* The dependencies of a task.
Needs(w, t) == TasksOf(w)[t].depends_on

\* What a coroutine has come to is true, and it started after all it depends on.
VerdictsTrue ==
  \A c \in DOMAIN work :
    /\ work[c].verdict = "completed" => <<c[2], c[4]>> \in Receipts
    /\ work[c].verdict # "none" <=> work[c].at \in {"cleaning", "done"}
    /\ work[c].at = "done" => work[c].verdict \in {"completed", "failed"}
    /\ \A d \in Needs(c[2], c[4]) : Saved(c[2], d, "completed")

\* Under the newest claim a task is at work on what is not saved, and knows of its receipt.
NewestKnows ==
  \A c \in DOMAIN work : NewestTask(c) =>
    /\ <<c[2], c[4]>> \notin DOMAIN task_outcomes
    /\ /\ <<c[2], c[4]>> \in Receipts
       /\ work[c].at \notin {"waiting", "raised"}
       => work[c].verdict = "completed" \/ <<c[2], c[4]>> \in lost

\* What has a receipt was begun after all it depends on was saved as completed.
ReceiptsFollow ==
  \A o \in Receipts : \A d \in Needs(o[1], o[2]) : Saved(o[1], d, "completed")

\* A run that ended completed saved all its tasks as completed.
CompletedSaved ==
  \A w \in DOMAIN workflows : workflows[w].status = "completed" =>
    \A t \in DOMAIN TasksOf(w) : Saved(w, t, "completed")

\* The rows of the tables, and what the runs' table of attempts keeps.
TablesRight ==
  /\ clock \in Nat
  /\ CoordinatorTablesOK
  /\ PendingCurrent

Inv ==
  /\ TypeOK
  /\ PendingCurrent
  /\ Known
  /\ Ownership
  /\ Remembered
  /\ PhasesMean
  /\ VerdictsTrue
  /\ NewestKnows
  /\ ReceiptsFollow
  /\ CompletedSaved
  /\ OutcomesMatchReceipts
  /\ SkippedOnlyAfterFailure

-----------------------------------------------------------------------------
(* Steps that decide nothing: no outcome, no receipt and no claim is new.     *)

\* Attempts and lease tokens are only ever added.
Growing == Len(attempts) <= Len(attempts') /\ lease_sequence <= lease_sequence'

\* A row of a coroutine, after the step.
RowTyped(row) ==
  /\ row \in Coroutine(row.reads)
  /\ IsTable(row.reads, Key, [version : Nat \ {0}, schema_version : Nat \ {0}])
  /\ \A m, n \in row.message : m = n
  /\ row.attempt <= Len(attempts')
  /\ row.lease <= lease_sequence'

\* What may become of the row of a coroutine.
RowTrue(c, row) ==
  /\ row.verdict = "completed" => <<c[2], c[4]>> \in Receipts
  /\ row.verdict # "none" <=> row.at \in {"cleaning", "done"}
  /\ row.at = "done" => row.verdict \in {"completed", "failed"}
  /\ NewestTask(c) /\ <<c[2], c[4]>> \in Receipts /\ row.at \notin {"waiting", "raised"} =>
       row.verdict = "completed" \/ <<c[2], c[4]>> \in lost

\* Runs may be new, and old ones keep their specification; none completes but one
\* that saved all its tasks as completed.
RunsQuiet ==
  /\ DOMAIN workflows \subseteq DOMAIN workflows'
  /\ \A w \in DOMAIN workflows :
       /\ workflows'[w].specification = workflows[w].specification
       /\ workflows'[w].status = "completed" =>
            \/ workflows[w].status = "completed"
            \/ \A t \in DOMAIN TasksOf(w) : Saved(w, t, "completed")
  /\ \A w \in DOMAIN workflows' \ DOMAIN workflows :
       Accepted(workflows'[w].specification) /\ workflows'[w].status # "completed"
  /\ DOMAIN run_jobs \subseteq DOMAIN run_jobs'
  /\ DOMAIN run_jobs' \subseteq DOMAIN workflows'
  /\ \A w \in DOMAIN run_jobs :
       /\ run_jobs'[w].generation = run_jobs[w].generation
       /\ run_jobs'[w].owner \in {run_jobs[w].owner, NoOwner}

\* The tasks of a run with a saved outcome, and those outcomes.
SavedOutcomes(w) ==
  [t \in {x \in Task : <<w, x>> \in DOMAIN task_outcomes} |-> task_outcomes[<<w, t>>]]

\* Where an engine may go: it gives up, sees that all its coroutines are done, or
\* reads the outcomes that were saved.
EngineQuiet(j, new) ==
  /\ new.generation = jobs[j].generation
  /\ \/ new.phase = jobs[j].phase /\ new.outcomes = jobs[j].outcomes
     \/ /\ jobs[j].phase # "started" /\ new.phase \in {"failing", "leaving", "cancelled"}
        /\ new.outcomes = jobs[j].outcomes
     \/ /\ jobs[j].phase = "gathering" /\ new.phase = "saving"
        /\ new.outcomes = jobs[j].outcomes
        /\ \A c \in CoroutinesOf(j[1], j[2], jobs[j].generation) : work[c].at = "done"
     \/ /\ jobs[j].phase = "claimed" /\ new.phase = "provisioning"
        /\ new.outcomes = SavedOutcomes(j[2])

\* Engines may end or go on, and new ones start.
JobsQuiet ==
  /\ IsTable(jobs', Scheduler \X Workflow, EngineRow)
  /\ \A j \in DOMAIN jobs' :
       \/ j \in DOMAIN jobs /\ EngineQuiet(j, jobs'[j])
       \/ j[2] \in DOMAIN run_jobs /\ jobs'[j] = Job("started", 0, EmptyTable)

\* Coroutines may end or go on.
WorkQuiet ==
  /\ DOMAIN work' \subseteq DOMAIN work
  /\ \A c \in DOMAIN work' :
       \/ work'[c] = work[c]
       \/ work[c].at # "done" /\ RowTyped(work'[c]) /\ RowTrue(c, work'[c])

\* What else the engine keeps.
RestQuiet ==
  /\ keepers' \union tokens' \subseteq Scheduler \X Workflow \X (1..MaxGeneration)
  /\ orphaned' \subseteq HoldingRow
  /\ faults' \in 0..MaxFaults
  /\ UNCHANGED <<task_outcomes, operations, lost>>

\* The types of the engine follow from those of its rows.
LEMMA EngineTypes ==
  ASSUME TypeOK, TablesRight', Growing,
         IsTable(jobs', Scheduler \X Workflow, EngineRow),
         DOMAIN work' \subseteq Scheduler \X Workflow \X (1..MaxGeneration) \X Task,
         \A c \in DOMAIN work' :
           (c \in DOMAIN work /\ work'[c] = work[c]) \/ RowTyped(work'[c]),
         keepers' \union tokens' \subseteq Scheduler \X Workflow \X (1..MaxGeneration),
         orphaned' \subseteq HoldingRow,
         faults' \in 0..MaxFaults, lost' \subseteq Workflow \X Task
  PROVE  TypeOK'
<1>1. \A c \in DOMAIN work' : RowTyped(work'[c])
  <2> SUFFICES ASSUME NEW c \in DOMAIN work', c \in DOMAIN work, work'[c] = work[c]
               PROVE  RowTyped(work'[c])
    OBVIOUS
  <2>1. /\ work[c] \in Coroutine(work[c].reads)
        /\ IsTable(work[c].reads, Key, [version : Nat \ {0}, schema_version : Nat \ {0}])
        /\ \A m, n \in work[c].message : m = n
        /\ work[c].attempt <= Len(attempts)
        /\ work[c].lease <= lease_sequence
    BY DEF TypeOK, EngineTypeOK
  <2>2. work[c].attempt \in Nat /\ work[c].lease \in Nat
    BY <2>1 DEF Coroutine
  <2>3. /\ Len(attempts) \in Nat /\ Len(attempts') \in Nat
        /\ lease_sequence \in Nat /\ lease_sequence' \in Nat
    BY DEF TypeOK, TablesRight, CoordinatorTablesOK, RunTablesOK, LeaseTablesOK
  <2>4. work[c].attempt <= Len(attempts') /\ work[c].lease <= lease_sequence'
    BY <2>1, <2>2, <2>3 DEF Growing
  <2> QED
    BY <2>1, <2>4 DEF RowTyped
<1>2. EngineTypeOK'
  BY <1>1 DEF EngineTypeOK, RowTyped, Coroutine
<1> QED
  BY <1>2 DEF TypeOK, TablesRight

\* Such a step keeps the invariant.
LEMMA QuietInv ==
  ASSUME Inv, TablesRight', Growing, RunsQuiet, JobsQuiet, WorkQuiet, RestQuiet
  PROVE  Inv'
<1>1. /\ \A w \in DOMAIN workflows : TasksOf(w)' = TasksOf(w)
      /\ \A w, t, o : Saved(w, t, o)' = Saved(w, t, o)
      /\ Receipts' = Receipts
      /\ UNCHANGED <<task_outcomes, operations, lost>>
  BY DEF RunsQuiet, RestQuiet, TasksOf, Saved, Receipts
<1>2. /\ \A w \in DOMAIN workflows : \A t : Needs(w, t)' = Needs(w, t)
      /\ \A w \in DOMAIN workflows : \A o : Ready(w, o)' = Ready(w, o)
  BY <1>1 DEF Needs, Ready
<1>3. /\ \A j \in DOMAIN jobs' : j[2] \in DOMAIN run_jobs /\ j[2] \in DOMAIN workflows
      /\ \A c \in DOMAIN work : c[2] \in DOMAIN run_jobs /\ c[2] \in DOMAIN workflows
      /\ \A o \in Receipts : o[1] \in DOMAIN workflows
      /\ \A o \in DOMAIN task_outcomes : o[1] \in DOMAIN workflows
  BY DEF Inv, Known, JobsQuiet
<1>4. /\ \A j \in DOMAIN jobs' \intersect DOMAIN jobs :
           jobs'[j].generation = jobs[j].generation => NewestJob(j)' = NewestJob(j)
      /\ \A c \in DOMAIN work' : NewestTask(c)' = NewestTask(c)
  BY <1>3 DEF RunsQuiet, WorkQuiet, NewestJob, NewestTask
<1>5. Known'
  BY <1>1, <1>3 DEF Inv, Known, RunsQuiet, JobsQuiet, WorkQuiet
<1>6. Ownership'
  <2>1. \A w \in DOMAIN run_jobs' : run_jobs'[w].generation \in Nat
    BY DEF TablesRight, CoordinatorTablesOK, RunTablesOK, IsTable, JobRow
  <2>2. ASSUME NEW j \in DOMAIN jobs', j \in DOMAIN jobs, EngineQuiet(j, jobs'[j])
        PROVE  /\ jobs'[j].generation <= run_jobs'[j[2]].generation
               /\ jobs'[j].phase # "started" => jobs'[j].generation > 0
               /\ jobs'[j].generation > 0 /\ NewestJob(j)' =>
                    run_jobs'[j[2]].owner \in {j[1], NoOwner}
    BY <1>3, <1>4, <2>2 DEF Inv, Ownership, RunsQuiet, EngineQuiet
  <2>3. ASSUME NEW j \in DOMAIN jobs', j[2] \in DOMAIN run_jobs,
               jobs'[j] = Job("started", 0, EmptyTable)
        PROVE  /\ jobs'[j].generation <= run_jobs'[j[2]].generation
               /\ jobs'[j].phase # "started" => jobs'[j].generation > 0
               /\ ~(jobs'[j].generation > 0)
    BY <2>1, <2>3 DEF Job, RunsQuiet
  <2>4. \A c \in DOMAIN work' :
          /\ c[3] <= run_jobs'[c[2]].generation
          /\ NewestTask(c)' => run_jobs'[c[2]].owner \in {c[1], NoOwner}
    BY <1>3, <1>4 DEF Inv, Ownership, RunsQuiet, WorkQuiet
  <2> QED
    BY <2>2, <2>3, <2>4 DEF Ownership, JobsQuiet
<1>7. Remembered'
  <2> SUFFICES ASSUME NEW j \in DOMAIN jobs'
               PROVE  /\ \A t \in DOMAIN jobs'[j].outcomes : Saved(j[2], t, jobs'[j].outcomes[t])
                      /\ /\ NewestJob(j)'
                         /\ jobs'[j].phase \in {"provisioning", "gathering", "saving", "skipping",
                                                "finishing"}
                         => \A t \in Task : <<j[2], t>> \in DOMAIN task_outcomes =>
                                              t \in DOMAIN jobs'[j].outcomes
    <3>1. \A t : \A j \in DOMAIN jobs' : Saved(j[2], t, jobs[j].outcomes[t])' =
                                                 Saved(j[2], t, jobs'[j].outcomes[t])
      BY <1>1 DEF Saved
    <3> QED
      BY <1>1, <3>1 DEF Remembered
  <2>1. CASE jobs'[j] = Job("started", 0, EmptyTable)
    BY <2>1 DEF Job, EmptyTable
  <2>2. CASE jobs'[j].outcomes = SavedOutcomes(j[2])
    BY <2>2 DEF SavedOutcomes, Saved
  <2>3. CASE j \in DOMAIN jobs /\ EngineQuiet(j, jobs'[j])
               /\ jobs'[j].outcomes # SavedOutcomes(j[2])
    BY <1>4, <2>3 DEF Inv, Remembered, EngineQuiet
  <2> QED
    BY <2>1, <2>2, <2>3 DEF JobsQuiet, EngineQuiet
<1>8. PhasesMean'
  <2> SUFFICES ASSUME NEW j \in DOMAIN jobs'
               PROVE  LET phase == jobs'[j].phase
                          mine == CoroutinesOf(j[1], j[2], jobs[j].generation)' IN
                        /\ phase \in {"claimed", "provisioning", "skipping", "finishing"} => mine = {}
                        /\ phase = "saving" => \A c \in mine : work'[c].at = "done"
                        /\ phase = "skipping" => Ready(j[2], jobs[j].outcomes)' = {}
                        /\ phase = "finishing" =>
                             DOMAIN TasksOf(j[2])' \subseteq DOMAIN jobs'[j].outcomes
    BY DEF PhasesMean
  <2>1. CASE jobs'[j] = Job("started", 0, EmptyTable)
    BY <2>1 DEF Job
  <2>2. CASE j \in DOMAIN jobs /\ EngineQuiet(j, jobs'[j])
    <3>1. \A c \in CoroutinesOf(j[1], j[2], jobs[j].generation)' :
            /\ c \in CoroutinesOf(j[1], j[2], jobs[j].generation)
            /\ work[c].at = "done" => work'[c].at = "done"
      BY <2>2 DEF CoroutinesOf, WorkQuiet, EngineQuiet
    <3>2. jobs'[j].phase \in {"skipping", "finishing"} =>
            /\ jobs'[j].phase = jobs[j].phase
            /\ jobs'[j].outcomes = jobs[j].outcomes
      BY <2>2 DEF EngineQuiet
    <3>3. /\ TasksOf(j[2])' = TasksOf(j[2])
          /\ jobs'[j].outcomes = jobs[j].outcomes =>
               Ready(j[2], jobs[j].outcomes)' = Ready(j[2], jobs[j].outcomes)
      BY <1>1, <1>3 DEF Ready
    <3> QED
      BY <2>2, <3>1, <3>2, <3>3 DEF Inv, PhasesMean, EngineQuiet
  <2> QED
    BY <2>1, <2>2 DEF JobsQuiet
<1>9. VerdictsTrue' /\ NewestKnows'
  BY <1>1, <1>2, <1>3, <1>4 DEF Inv, VerdictsTrue, NewestKnows, WorkQuiet, RowTrue
<1>10. ReceiptsFollow'
  BY <1>1, <1>2, <1>3 DEF Inv, ReceiptsFollow
<1>11. CompletedSaved'
  BY <1>1 DEF Inv, CompletedSaved, RunsQuiet
<1>12. OutcomesMatchReceipts' /\ SkippedOnlyAfterFailure'
  BY <1>1, <1>3 DEF Inv, OutcomesMatchReceipts, SkippedOnlyAfterFailure
<1>13. TypeOK' /\ PendingCurrent'
  <2>1. DOMAIN work' \subseteq Scheduler \X Workflow \X (1..MaxGeneration) \X Task
    BY DEF Inv, TypeOK, EngineTypeOK, WorkQuiet
  <2>2. lost' \subseteq Workflow \X Task
    BY DEF Inv, TypeOK, EngineTypeOK, RestQuiet
  <2> QED
    BY <2>1, <2>2, EngineTypes DEF Inv, JobsQuiet, WorkQuiet, RestQuiet, TablesRight
<1> QED
  BY <1>5, <1>6, <1>7, <1>8, <1>9, <1>10, <1>11, <1>12, <1>13 DEF Inv

-----------------------------------------------------------------------------
(* The tables.                                                               *)

\* A step that leaves the tables alone.
LEMMA TablesKept ==
  ASSUME Inv, UNCHANGED tableVars, clock' \in Nat
  PROVE  /\ TablesRight' /\ Growing /\ RunsQuiet
         /\ UNCHANGED <<task_outcomes, operations>>
<1>1. UNCHANGED <<resources, lease_sequence, leases, workflows, attempts, run_jobs, task_outcomes,
                  channels, deliveries, operations, transitions>>
  BY DEF tableVars, leaseVars, runVars, messagingVars, commitVars
<1>2. RunsOK
  BY DEF Inv, RunsOK, TypeOK, CoordinatorTablesOK
<1>3. PendingCurrent'
  BY <1>1, <1>2, ClaimsKept
<1>4. CoordinatorTablesOK'
  BY <1>1 DEF Inv, TypeOK, CoordinatorTablesOK, LeaseTablesOK, RunTablesOK, MessagingTablesOK,
              CommitTablesOK, Receipt
<1>5. Growing
  <2>1. Len(attempts) \in Nat /\ lease_sequence \in Nat
    BY DEF Inv, TypeOK, CoordinatorTablesOK, LeaseTablesOK, RunTablesOK
  <2> QED
    BY <1>1, <2>1 DEF Growing
<1>6. RunsQuiet
  BY <1>1 DEF Inv, Known, RunsQuiet
<1> QED
  BY <1>1, <1>3, <1>4, <1>5, <1>6 DEF TablesRight

\* A step on the tables of runs alone.
LEMMA RunTablesStep ==
  ASSUME Inv, RunsOK', RunsForward,
         UNCHANGED <<clock, resources, leaseVars, messagingVars, commitVars>>
  PROVE  TablesRight' /\ Growing
<1>1. UNCHANGED <<resources, lease_sequence, leases, channels, deliveries, operations,
                  transitions>>
  BY DEF leaseVars, messagingVars, commitVars
<1>2. CoordinatorTablesOK'
  BY <1>1 DEF RunsOK, Inv, TypeOK, CoordinatorTablesOK, LeaseTablesOK, MessagingTablesOK,
              CommitTablesOK, Receipt
<1>3. Growing
  <2>1. attempts \in Seq(AttemptRow) /\ attempts' \in Seq(AttemptRow)
    BY DEF RunsOK, Inv, TypeOK, CoordinatorTablesOK, RunTablesOK
  <2>2. 1..Len(attempts) \subseteq 1..Len(attempts') /\ Len(attempts) \in Nat /\ Len(attempts') \in Nat
    BY <2>1 DEF RunsForward
  <2>3. lease_sequence \in Nat
    BY DEF Inv, TypeOK, CoordinatorTablesOK, LeaseTablesOK
  <2> QED
    BY <1>1, <2>2, <2>3 DEF Growing
<1> QED
  BY <1>2, <1>3 DEF RunsOK, TablesRight, Inv, TypeOK

\* The outcomes an engine may remember.
Outcomes == UNION {[T -> Outcome] : T \in SUBSET Task}

\* A function from tasks to outcomes is one the rows of engines may hold.
LEMMA OutcomesType ==
  ASSUME NEW f, DOMAIN f \subseteq Task, f = [t \in DOMAIN f |-> f[t]],
         \A t \in DOMAIN f : f[t] \in Outcome
  PROVE  f \in Outcomes
<1>1. f \in [DOMAIN f -> Outcome]
  OBVIOUS
<1>2. DOMAIN f \in SUBSET Task
  OBVIOUS
<1> QED
  BY <1>1, <1>2 DEF Outcomes

\* So is the empty dict an engine starts with.
LEMMA NoOutcomes == EmptyTable \in Outcomes
<1>1. DOMAIN EmptyTable = {} /\ EmptyTable = [t \in DOMAIN EmptyTable |-> EmptyTable[t]]
  BY DEF EmptyTable
<1> QED
  BY <1>1, OutcomesType

\* What the lemmas of RunsProofs ask for.
LEMMA RunsAreOK == Inv => RunsOK /\ clock \in Nat
BY DEF Inv, RunsOK, TypeOK, CoordinatorTablesOK

-----------------------------------------------------------------------------
(* A claim.  All engines and coroutines of the run are of older ones.        *)

\* A takeover leaves the old engine and its coroutines behind the new generation.
LEMMA ClaimInv ==
  ASSUME Inv, NEW s \in Scheduler, NEW w \in Workflow, <<s, w>> \in DOMAIN jobs, ClaimJob(s, w)
  PROVE  Inv'
<1>1. PICK g : g = run_jobs[w].generation + 1
  OBVIOUS
<1>2. /\ ClaimRun(w, s, JobTtl)
      /\ jobs' = [jobs EXCEPT ![<<s, w>>] = Job("claimed", g, EmptyTable)]
      /\ keepers' = keepers \union {<<s, w, g>>} /\ tokens' = tokens \union {<<s, w, g>>}
      /\ UNCHANGED <<clock, resources, leaseVars, messagingVars, commitVars, work, faults,
                     lost, orphaned>>
  BY <1>1 DEF ClaimJob
<1>3. RunsOK' /\ RunsForward
  <2>1. JobTtl \in Nat
    BY EngineAssumption
  <2> QED
    BY <1>2, <2>1, RunsAreOK, ClaimRunForward
<1>4. TablesRight' /\ Growing
  BY <1>2, <1>3, RunTablesStep
<1>5. /\ w \in DOMAIN run_jobs /\ run_jobs[w] \in JobRow /\ g \in 1..MaxGeneration
      /\ DOMAIN run_jobs' = DOMAIN run_jobs
      /\ run_jobs'[w].generation = g /\ run_jobs'[w].owner = s
      /\ \A x \in DOMAIN run_jobs \ {w} : run_jobs'[x] = run_jobs[x]
      /\ UNCHANGED <<workflows, task_outcomes, operations>>
  <2>1. w \in DOMAIN run_jobs /\ run_jobs[w].generation < MaxGeneration
    BY <1>2 DEF ClaimRun
  <2>2. IsTable(run_jobs, Workflow, JobRow)
    BY DEF Inv, TypeOK, CoordinatorTablesOK, RunTablesOK
  <2>3. run_jobs[w] \in JobRow /\ run_jobs[w].generation \in Nat
    BY <2>1, <2>2 DEF IsTable, JobRow
  <2>4. g \in 1..MaxGeneration
    BY <1>1, <2>1, <2>3, RunAssumption
  <2>5. run_jobs' = [run_jobs EXCEPT ![w].owner = s, ![w].generation = g,
                                     ![w].expires_at = clock + JobTtl]
    BY <1>1, <1>2 DEF ClaimRun
  <2>6. /\ DOMAIN run_jobs' = DOMAIN run_jobs
        /\ run_jobs'[w].generation = g /\ run_jobs'[w].owner = s
        /\ \A x \in DOMAIN run_jobs \ {w} : run_jobs'[x] = run_jobs[x]
    BY <2>1, <2>2, <2>3, <2>5 DEF IsTable, JobRow
  <2>7. UNCHANGED <<workflows, task_outcomes>>
    BY <1>2 DEF ClaimRun
  <2>8. UNCHANGED operations
    BY <1>2 DEF commitVars
  <2> QED
    BY <2>1, <2>3, <2>4, <2>6, <2>7, <2>8
<1>6. /\ \A j \in DOMAIN jobs : j[2] \in DOMAIN run_jobs /\ jobs[j].generation \in Nat
                                /\ jobs[j].generation <= run_jobs[j[2]].generation
      /\ \A c \in DOMAIN work : c[2] \in DOMAIN run_jobs /\ c[3] \in Nat
                                /\ c[3] <= run_jobs[c[2]].generation
  BY DEF Inv, Known, Ownership, TypeOK, EngineTypeOK, IsTable, EngineRow
<1>7. /\ \A j \in DOMAIN jobs \ {<<s, w>>} :
           /\ jobs'[j] = jobs[j]
           /\ jobs[j].generation <= run_jobs'[j[2]].generation
           /\ NewestJob(j)' => NewestJob(j) /\ j[2] # w
      /\ \A c \in DOMAIN work :
           /\ c[3] <= run_jobs'[c[2]].generation
           /\ NewestTask(c)' => NewestTask(c) /\ c[2] # w
  <2>1. ASSUME NEW x \in DOMAIN run_jobs, NEW h \in Nat, h <= run_jobs[x].generation
        PROVE  /\ h <= run_jobs'[x].generation
               /\ h = run_jobs'[x].generation => h = run_jobs[x].generation /\ x # w
    <3>1. CASE x = w
      BY <1>1, <1>5, <2>1, <3>1 DEF JobRow
    <3>2. CASE x # w
      BY <1>5, <2>1, <3>2
    <3> QED
      BY <3>1, <3>2
  <2> QED
    BY <1>2, <1>6, <2>1 DEF NewestJob, NewestTask
<1>8. /\ DOMAIN jobs' = DOMAIN jobs
      /\ jobs'[<<s, w>>] = Job("claimed", g, EmptyTable)
      /\ DOMAIN work' = DOMAIN work
  BY <1>2
<1>9. /\ \A x : TasksOf(x)' = TasksOf(x)
      /\ \A x, t, o : Saved(x, t, o)' = Saved(x, t, o)
      /\ Receipts' = Receipts
      /\ \A x, t : Needs(x, t)' = Needs(x, t)
      /\ \A x, o : Ready(x, o)' = Ready(x, o)
  BY <1>5 DEF TasksOf, Saved, Receipts, Needs, Ready
<1>10. Known'
  BY <1>2, <1>5, <1>8, <1>9 DEF Inv, Known
<1>11. Ownership'
  <2>1. /\ jobs'[<<s, w>>].generation <= run_jobs'[w].generation
        /\ jobs'[<<s, w>>].generation > 0
        /\ run_jobs'[w].owner = s
    BY <1>5, <1>8 DEF Job
  <2>2. ASSUME NEW j \in DOMAIN jobs \ {<<s, w>>}, NewestJob(j)'
        PROVE  run_jobs'[j[2]] = run_jobs[j[2]]
    BY <1>5, <1>6, <1>7, <2>2
  <2>3. ASSUME NEW c \in DOMAIN work, NewestTask(c)'
        PROVE  run_jobs'[c[2]] = run_jobs[c[2]]
    BY <1>5, <1>6, <1>7, <2>3
  <2> QED
    BY <1>7, <1>8, <2>1, <2>2, <2>3 DEF Inv, Ownership
<1>12. Remembered'
  <2>1. /\ jobs'[<<s, w>>].outcomes = EmptyTable /\ DOMAIN EmptyTable = {}
        /\ jobs'[<<s, w>>].phase = "claimed"
    BY <1>8 DEF Job, EmptyTable
  <2> QED
    BY <1>5, <1>7, <1>8, <1>9, <2>1 DEF Inv, Remembered
<1>13. PhasesMean'
  <2>1. \A x, y, h : CoroutinesOf(x, y, h)' = CoroutinesOf(x, y, h)
    BY <1>2 DEF CoroutinesOf
  <2>2. CoroutinesOf(s, w, g) = {}
    BY <1>1, <1>5, <1>6 DEF CoroutinesOf, JobRow
  <2>3. jobs'[<<s, w>>].generation = g /\ jobs'[<<s, w>>].phase = "claimed"
    BY <1>8 DEF Job
  <2> SUFFICES ASSUME NEW j \in DOMAIN jobs'
               PROVE  LET phase == jobs'[j].phase
                          mine == CoroutinesOf(j[1], j[2], jobs[j].generation)' IN
                        /\ phase \in {"claimed", "provisioning", "skipping", "finishing"} => mine = {}
                        /\ phase = "saving" => \A c \in mine : work'[c].at = "done"
                        /\ phase = "skipping" => Ready(j[2], jobs[j].outcomes)' = {}
                        /\ phase = "finishing" =>
                             DOMAIN TasksOf(j[2])' \subseteq DOMAIN jobs'[j].outcomes
    BY DEF PhasesMean
  <2>4. /\ j \in DOMAIN jobs /\ TasksOf(j[2])' = TasksOf(j[2]) /\ work' = work
        /\ CoroutinesOf(j[1], j[2], jobs[j].generation)' =
             CoroutinesOf(j[1], j[2], jobs'[j].generation)
        /\ Ready(j[2], jobs[j].outcomes)' = Ready(j[2], jobs'[j].outcomes)
    BY <1>2, <1>8, <1>9 DEF CoroutinesOf, Ready
  <2>5. CASE j = <<s, w>>
    BY <2>2, <2>3, <2>4, <2>5
  <2>6. CASE j # <<s, w>>
    BY <1>7, <2>4, <2>6 DEF Inv, PhasesMean
  <2> QED
    BY <2>5, <2>6
<1>14. VerdictsTrue' /\ NewestKnows' /\ ReceiptsFollow' /\ CompletedSaved'
  BY <1>2, <1>5, <1>7, <1>9
  DEF Inv, VerdictsTrue, NewestKnows, ReceiptsFollow, CompletedSaved
<1>15. OutcomesMatchReceipts' /\ SkippedOnlyAfterFailure'
  BY <1>2, <1>5, <1>9 DEF Inv, OutcomesMatchReceipts, SkippedOnlyAfterFailure
<1>16. TypeOK'
  <2>1. IsTable(jobs', Scheduler \X Workflow, EngineRow)
    <3>1. Job("claimed", g, EmptyTable) \in EngineRow
      BY <1>5, NoOutcomes, RunAssumption DEF Job, EngineRow, Outcomes, Phases
    <3> QED
      BY <1>2, <3>1 DEF Inv, TypeOK, EngineTypeOK, IsTable
  <2> QED
    BY <1>2, <1>4, <1>5, <2>1, EngineTypes DEF Inv, TypeOK, EngineTypeOK
<1> QED
  BY <1>3, <1>10, <1>11, <1>12, <1>13, <1>14, <1>15, <1>16 DEF Inv, RunsOK

-----------------------------------------------------------------------------
(* Waves.                                                                    *)

\* Every set of naturals that is not empty has a least one.
LEMMA LeastNatural ==
  ASSUME NEW S \in SUBSET Nat, S # {}
  PROVE  \E m \in S : \A k \in S : m <= k
<1> DEFINE R == OpToRel(<, Nat)
<1>1. IsWellFoundedOn(R, Nat)
  BY NatLessThanWellFounded
<1>2. \A x, y \in Nat : <<y, x>> \in R <=> y < x
  BY DEF OpToRel
<1> HIDE DEF R
<1>3. PICK m \in S : \A k \in S : ~(<<k, m>> \in R)
  BY <1>1, WFMin
<1>4. ASSUME NEW k \in S PROVE m <= k
  <2>1. k \in Nat /\ m \in Nat /\ ~(k < m)
    BY <1>2, <1>3
  <2> QED
    BY <2>1
<1> QED
  BY <1>4

\* The tasks whose dependencies are all in X, and what CompletedIn computes by them.
NextOf(tasks, X) == {t \in DOMAIN tasks : tasks[t].depends_on \subseteq X}

Rounds(tasks, n, f) ==
  f = [i \in 0..n |-> IF i = 0 THEN {} ELSE NextOf(tasks, f[i - 1])]

\* The recursion of CompletedIn has a solution.
LEMMA RoundsExist ==
  ASSUME NEW tasks, NEW n \in Nat
  PROVE  \E f : Rounds(tasks, n, f)
<1> SUFFICES ASSUME ~ \E f : Rounds(tasks, n, f) PROVE FALSE
  OBVIOUS
<1> DEFINE B == {m \in Nat : ~ \E f : Rounds(tasks, m, f)}
<1>1. PICK m \in B : \A k \in B : m <= k
  <2>1. B \in SUBSET Nat /\ B # {}
    OBVIOUS
  <2> QED
    BY <2>1, LeastNatural
<1>2. m # 0
  <2> SUFFICES ASSUME m = 0 PROVE FALSE
    OBVIOUS
  <2> DEFINE f == [i \in 0..0 |-> {}]
  <2>1. Rounds(tasks, 0, f)
    BY DEF Rounds
  <2> QED
    BY <1>1, <2>1
<1>3. PICK g : Rounds(tasks, m - 1, g)
  <2>1. m - 1 \in Nat /\ ~(m <= m - 1)
    BY <1>1, <1>2
  <2> QED
    BY <1>1, <2>1
<1> DEFINE f == [i \in 0..m |-> IF i = m THEN NextOf(tasks, g[m - 1]) ELSE g[i]]
<1>4. \E h : Rounds(tasks, m, h)
  <2>1. \A i \in 0..m - 1 : g[i] = IF i = 0 THEN {} ELSE NextOf(tasks, g[i - 1])
    BY <1>1, <1>3 DEF Rounds
  <2>2. \A i \in 0..m : f[i] = IF i = 0 THEN {} ELSE NextOf(tasks, f[i - 1])
    BY <1>1, <1>2, <2>1
  <2> HIDE DEF f
  <2>3. f = [i \in 0..m |-> f[i]]
    BY DEF f
  <2> QED
    BY <2>2, <2>3 DEF Rounds
<1> QED
  BY <1>1, <1>4

\* CompletedIn is what that solution ends with.
LEMMA CompletedInRounds ==
  ASSUME NEW tasks, NEW n \in Nat
  PROVE  \E f : Rounds(tasks, n, f) /\ CompletedIn(tasks, n) = f[n]
<1>1. Rounds(tasks, n, CHOOSE f : Rounds(tasks, n, f))
  BY RoundsExist, Zenon
<1>2. CompletedIn(tasks, n) = (CHOOSE f : Rounds(tasks, n, f))[n]
  BY DEF CompletedIn, Rounds, NextOf
<1> QED
  BY <1>1, <1>2

\* Of the tasks of an accepted specification that are left, one depends on none of them.
LEMMA WavesNotStuck ==
  ASSUME NEW tasks, IsFiniteSet(DOMAIN tasks), DependenciesResolve(tasks),
         NEW U \in SUBSET DOMAIN tasks, U # {}
  PROVE  \E u \in U : tasks[u].depends_on \subseteq DOMAIN tasks \ U
<1>1. PICK n \in Nat : n = Cardinality(DOMAIN tasks)
  BY FS_CardinalityType
<1>2. PICK f : Rounds(tasks, n, f) /\ f[n] = DOMAIN tasks
  BY <1>1, CompletedInRounds DEF DependenciesResolve
<1>3. \A i \in 0..n : /\ f[i] = IF i = 0 THEN {} ELSE NextOf(tasks, f[i - 1])
                      /\ f[i] \subseteq DOMAIN tasks
  BY <1>2 DEF Rounds, NextOf
<1> DEFINE S == {i \in 0..n : f[i] \intersect U # {}}
<1>4. PICK m \in S : \A k \in S : m <= k
  <2>1. n \in S /\ S \in SUBSET Nat
    BY <1>2
  <2> QED
    BY <2>1, LeastNatural
<1>5. m # 0 /\ m - 1 \in 0..n /\ m - 1 \notin S
  BY <1>3, <1>4
<1>6. PICK u \in U : u \in NextOf(tasks, f[m - 1])
  BY <1>3, <1>4, <1>5
<1> QED
  BY <1>3, <1>5, <1>6 DEF NextOf
-----------------------------------------------------------------------------
(* A decision: a result or a skipped task is saved, or the next wave starts.  *)

\* The locals of a new iteration are well typed.
LEMMA FreshTyped ==
  ASSUME TablesRight', NEW at \in Places, NEW verdict \in Verdict
  PROVE  /\ RowTyped(Fresh(at))
         /\ RowTyped([Fresh(at) EXCEPT !.verdict = verdict])
<1>1. Len(attempts') \in Nat /\ lease_sequence' \in Nat
  BY DEF TablesRight, CoordinatorTablesOK, RunTablesOK, LeaseTablesOK
<1>2. IsTable(EmptyTable, Key, [version : Nat \ {0}, schema_version : Nat \ {0}])
  BY DEF EmptyTable, IsTable
<1>3. "none" \in Verdict
  BY DEF Verdict
<1>4. /\ Fresh(at) \in Coroutine(EmptyTable) /\ Fresh(at).reads = EmptyTable
      /\ Fresh(at).message = {} /\ Fresh(at).attempt = 0 /\ Fresh(at).lease = 0
  BY <1>3 DEF Fresh, Coroutine
<1>5. RowTyped(Fresh(at))
  BY <1>1, <1>2, <1>4 DEF RowTyped
<1>6. ASSUME NEW row, row = [Fresh(at) EXCEPT !.verdict = verdict]
      PROVE  RowTyped(row)
  <2>1. /\ row \in Coroutine(EmptyTable) /\ row.reads = EmptyTable
        /\ row.message = {} /\ row.attempt = 0 /\ row.lease = 0
    BY <1>4, <1>6 DEF Coroutine
  <2> QED
    BY <1>1, <1>2, <2>1 DEF RowTyped
<1> QED
  BY <1>5, <1>6

\* The tasks of a known run.
LEMMA TasksTyped ==
  ASSUME Inv, NEW w \in DOMAIN workflows
  PROVE  /\ workflows[w].specification \in Specification
         /\ DOMAIN TasksOf(w) \subseteq Task
BY RunAssumption
DEF Inv, TypeOK, CoordinatorTablesOK, RunTablesOK, IsTable, WorkflowRow, TasksOf

\* What is newly saved of run w by its owner s under the newest claim g, and what the
\* engine remembers then.
OutcomesGrow(s, w, g, outcomes) ==
  /\ outcomes \in Outcomes
  /\ DOMAIN jobs[<<s, w>>].outcomes \subseteq DOMAIN outcomes
  /\ \A t \in DOMAIN outcomes :
       <<w, t>> \in DOMAIN task_outcomes' /\ task_outcomes'[<<w, t>>] = outcomes[t]
  /\ DOMAIN task_outcomes \subseteq DOMAIN task_outcomes'
  /\ \A o \in DOMAIN task_outcomes : task_outcomes'[o] = task_outcomes[o]
  /\ \A o \in DOMAIN task_outcomes' \ DOMAIN task_outcomes :
       /\ o[1] = w /\ o[2] \in DOMAIN TasksOf(w) /\ o[2] \in DOMAIN outcomes
       /\ run_jobs[w].owner = s /\ run_jobs[w].generation = g
       /\ <<s, w, g, o[2]>> \notin DOMAIN work'
       /\ task_outcomes'[o] \in {"completed", "failed", "skipped"}
       /\ task_outcomes'[o] = "completed" => o \in Receipts
       /\ task_outcomes'[o] # "completed" /\ o \in Receipts => o \in lost
       /\ task_outcomes'[o] = "skipped" => \E t \in DOMAIN TasksOf(w) : Saved(w, t, "failed")

\* Where the engine goes from there, and what it starts.  One that fails has not heard
\* that the last outcome was saved.
GoesOn(s, w, g, phase, outcomes) ==
  LET mine == {c \in DOMAIN work' : c[1] = s /\ c[2] = w /\ c[3] = g} IN
  /\ \E known : /\ \/ known = outcomes
                   \/ phase = "failing" /\ known = jobs[<<s, w>>].outcomes
                /\ jobs' = [jobs EXCEPT ![<<s, w>>] = Job(phase, g, known)]
  /\ phase \in {"gathering", "saving", "skipping", "finishing", "failing"}
  /\ \A c \in DOMAIN work' :
       \/ c \in DOMAIN work /\ work'[c] = work[c]
       \/ \E t \in Ready(w, outcomes) : c = <<s, w, g, t>> /\ work'[c] = Fresh("waiting")
  /\ phase \in {"skipping", "finishing"} => mine = {}
  /\ phase = "saving" => \A c \in mine : work'[c].at = "done"
  /\ phase = "skipping" => Ready(w, outcomes) = {}
  /\ phase = "finishing" => DOMAIN TasksOf(w) \subseteq DOMAIN outcomes
  /\ faults' = faults \/ (faults < MaxFaults /\ faults' = faults + 1)
  /\ UNCHANGED <<keepers, tokens, lost, orphaned>>

\* What the engine decides by is all that is saved, so new outcomes and a new wave
\* agree with the receipts, with the dependencies and with what coroutines still do.
LEMMA DecideInv ==
  ASSUME Inv, NEW s \in Scheduler, NEW w \in Workflow, NEW g, <<s, w>> \in DOMAIN jobs,
         jobs[<<s, w>>].generation = g,
         jobs[<<s, w>>].phase \in {"provisioning", "saving", "skipping"},
         NEW phase, NEW outcomes,
         OutcomesGrow(s, w, g, outcomes), GoesOn(s, w, g, phase, outcomes),
         TablesRight', Growing, UNCHANGED <<workflows, run_jobs, operations>>
  PROVE  Inv'
<1>1. /\ \A x : TasksOf(x)' = TasksOf(x)
      /\ \A x, t, o : Saved(x, t, o) => Saved(x, t, o)'
      /\ Receipts' = Receipts
      /\ \A x, t : Needs(x, t)' = Needs(x, t)
      /\ \A x, o : Ready(x, o)' = Ready(x, o)
      /\ UNCHANGED <<workflows, run_jobs, lost, orphaned>>
  BY DEF TasksOf, Saved, Receipts, Needs, Ready, OutcomesGrow, GoesOn
<1>0. PICK known : /\ known = outcomes \/ (phase = "failing" /\ known = jobs[<<s, w>>].outcomes)
                   /\ jobs' = [jobs EXCEPT ![<<s, w>>] = Job(phase, g, known)]
  BY DEF GoesOn
<1>2. /\ DOMAIN jobs' = DOMAIN jobs
      /\ jobs'[<<s, w>>].generation = g /\ jobs'[<<s, w>>].phase = phase
      /\ jobs'[<<s, w>>].outcomes = known /\ jobs'[<<s, w>>] = Job(phase, g, known)
      /\ \A j \in DOMAIN jobs \ {<<s, w>>} : jobs'[j] = jobs[j]
  BY <1>0 DEF Job
<1>3. /\ \A j : jobs'[j].generation = jobs[j].generation => NewestJob(j)' = NewestJob(j)
      /\ \A c : NewestTask(c)' = NewestTask(c)
  BY <1>1 DEF NewestJob, NewestTask
<1>4. w \in DOMAIN run_jobs /\ w \in DOMAIN workflows
  BY DEF Inv, Known
<1>5. g \in 1..MaxGeneration
  <2>1. jobs[<<s, w>>] \in EngineRow
    BY DEF Inv, TypeOK, EngineTypeOK, IsTable
  <2>2. g > 0
    BY DEF Inv, Ownership
  <2> QED
    BY <2>1, <2>2, RunAssumption DEF EngineRow
<1>6. \A t \in Ready(w, outcomes) :
        /\ t \in DOMAIN TasksOf(w) /\ t \in Task /\ t \notin DOMAIN outcomes
        /\ \A d \in Needs(w, t) : Saved(w, d, "completed")'
  BY <1>4, TasksTyped DEF Ready, Needs, Saved, OutcomesGrow
<1>7. \A c \in DOMAIN work' :
        \/ c \in DOMAIN work /\ work'[c] = work[c]
        \/ \E t \in Ready(w, outcomes) : c = <<s, w, g, t>> /\ work'[c] = Fresh("waiting")
  BY DEF GoesOn
<1>8. ASSUME NEW x, NEW t, <<x, t>> \in DOMAIN task_outcomes', <<x, t>> \notin DOMAIN task_outcomes
      PROVE  /\ x = w /\ t \in DOMAIN outcomes
             /\ run_jobs[w].owner = s /\ run_jobs[w].generation = g
             /\ <<s, w, g, t>> \notin DOMAIN work'
  <2>1. PICK o : o = <<x, t>>
    OBVIOUS
  <2>2. o[1] = x /\ o[2] = t /\ o \in DOMAIN task_outcomes' \ DOMAIN task_outcomes
    BY <1>8, <2>1
  <2> QED
    BY <2>2 DEF OutcomesGrow
<1>9. Known'
  <2>1. ASSUME NEW o \in DOMAIN task_outcomes'
        PROVE  /\ o[1] \in DOMAIN run_jobs /\ o[2] \in DOMAIN TasksOf(o[1])
               /\ task_outcomes'[o] \in {"completed", "failed", "skipped"}
    BY <1>4, <2>1 DEF Inv, Known, OutcomesGrow
  <2>2. ASSUME NEW c \in DOMAIN work'
        PROVE  c[2] \in DOMAIN run_jobs /\ c[4] \in DOMAIN TasksOf(c[2])
    BY <1>4, <1>6, <1>7 DEF Inv, Known
  <2> QED
    BY <1>1, <1>2, <2>1, <2>2 DEF Inv, Known
<1>10. Ownership'
  <2>1. ASSUME NEW j \in DOMAIN jobs'
        PROVE  /\ jobs'[j].generation <= run_jobs'[j[2]].generation
               /\ jobs'[j].phase # "started" => jobs'[j].generation > 0
               /\ jobs'[j].generation > 0 /\ NewestJob(j)' =>
                    run_jobs'[j[2]].owner \in {j[1], NoOwner}
    <3>1. jobs'[j].generation = jobs[j].generation /\ j \in DOMAIN jobs
      BY <1>2
    <3>2. jobs'[j].phase # "started" => jobs[j].phase # "started"
      BY <1>2
    <3> QED
      BY <1>1, <1>3, <3>1, <3>2 DEF Inv, Ownership
  <2>2. ASSUME NEW c \in DOMAIN work'
        PROVE  /\ c[3] <= run_jobs'[c[2]].generation
               /\ NewestTask(c)' => run_jobs'[c[2]].owner \in {c[1], NoOwner}
    <3>1. CASE c \in DOMAIN work
      BY <1>1, <1>3, <3>1 DEF Inv, Ownership
    <3>2. CASE c[1] = s /\ c[2] = w /\ c[3] = g
      <4>1. /\ g <= run_jobs[w].generation
            /\ g = run_jobs[w].generation => run_jobs[w].owner \in {s, NoOwner}
        BY <1>5 DEF Inv, Ownership, NewestJob
      <4> QED
        BY <1>1, <1>3, <3>2, <4>1 DEF NewestTask
    <3> QED
      BY <1>7, <3>1, <3>2
  <2> QED
    BY <2>1, <2>2 DEF Ownership
<1>11. Remembered'
  <2> SUFFICES ASSUME NEW j \in DOMAIN jobs'
               PROVE  /\ \A t \in DOMAIN jobs'[j].outcomes : Saved(j[2], t, jobs[j].outcomes[t])'
                      /\ /\ NewestJob(j)'
                         /\ jobs'[j].phase \in {"provisioning", "gathering", "saving", "skipping",
                                                "finishing"}
                         => \A t \in Task : <<j[2], t>> \in DOMAIN task_outcomes' =>
                                              t \in DOMAIN jobs'[j].outcomes
    BY DEF Remembered
  <2>0. NewestJob(j)' = NewestJob(j) /\ j \in DOMAIN jobs
    BY <1>2, <1>3
  <2>1. CASE j = <<s, w>>
    <3>1. /\ jobs'[j].outcomes = known /\ jobs'[j].phase = phase /\ j[2] = w
          /\ phase # "failing" => known = outcomes
      BY <1>0, <1>2, <2>1
    <3>2. ASSUME NewestJob(j), NEW t \in Task, <<w, t>> \in DOMAIN task_outcomes'
          PROVE  t \in DOMAIN outcomes
      <4>1. CASE <<w, t>> \in DOMAIN task_outcomes
        <5>1. t \in DOMAIN jobs[j].outcomes
          BY <2>1, <3>2, <4>1 DEF Inv, Remembered
        <5> QED
          BY <2>1, <5>1 DEF OutcomesGrow
      <4>2. CASE <<w, t>> \notin DOMAIN task_outcomes
        BY <1>8, <3>2, <4>2
      <4> QED
        BY <4>1, <4>2
    <3>3. \A t \in DOMAIN known : Saved(w, t, known[t])'
      <4>1. CASE known = outcomes
        BY <4>1 DEF OutcomesGrow, Saved
      <4>2. CASE known = jobs[j].outcomes
        BY <1>1, <2>1, <4>2 DEF Inv, Remembered
      <4> QED
        BY <1>0, <2>1, <4>1, <4>2
    <3>4. \A t \in DOMAIN known : Saved(j[2], t, jobs[j].outcomes[t])'
      BY <3>1, <3>3 DEF Saved
    <3> QED
      BY <2>0, <3>1, <3>2, <3>4
  <2>2. CASE j # <<s, w>>
    <3>1. jobs'[j] = jobs[j]
      BY <1>2, <2>2
    <3>2. ASSUME NewestJob(j), jobs[j].phase # "started", NEW t \in Task,
                 <<j[2], t>> \in DOMAIN task_outcomes'
          PROVE  <<j[2], t>> \in DOMAIN task_outcomes
      <4> SUFFICES ASSUME <<j[2], t>> \notin DOMAIN task_outcomes PROVE FALSE
        OBVIOUS
      <4>1. j[2] = w /\ run_jobs[w].owner = s
        BY <1>8, <3>2
      <4>2. run_jobs[w].owner \in {j[1], NoOwner}
        BY <2>0, <3>2, <4>1 DEF Inv, Ownership
      <4>3. j = <<j[1], j[2]>>
        BY <2>0 DEF Inv, TypeOK, EngineTypeOK, IsTable
      <4> QED
        BY <2>2, <4>1, <4>2, <4>3, RunAssumption
    <3>3. \A t \in DOMAIN jobs[j].outcomes : Saved(j[2], t, jobs[j].outcomes[t])'
      BY <2>0, <3>1 DEF Inv, Remembered, Saved, OutcomesGrow
    <3> QED
      BY <2>0, <3>1, <3>2, <3>3 DEF Inv, Remembered
  <2> QED
    BY <2>1, <2>2
<1>12. PhasesMean'
  <2> SUFFICES ASSUME NEW j \in DOMAIN jobs'
               PROVE  LET now == jobs'[j].phase
                          mine == CoroutinesOf(j[1], j[2], jobs[j].generation)' IN
                        /\ now \in {"claimed", "provisioning", "skipping", "finishing"} => mine = {}
                        /\ now = "saving" => \A c \in mine : work'[c].at = "done"
                        /\ now = "skipping" => Ready(j[2], jobs[j].outcomes)' = {}
                        /\ now = "finishing" =>
                             DOMAIN TasksOf(j[2])' \subseteq DOMAIN jobs'[j].outcomes
    BY DEF PhasesMean
  <2>0. /\ j \in DOMAIN jobs /\ TasksOf(j[2])' = TasksOf(j[2])
        /\ CoroutinesOf(j[1], j[2], jobs[j].generation)' =
             {c \in DOMAIN work' : c[1] = j[1] /\ c[2] = j[2] /\ c[3] = jobs'[j].generation}
        /\ Ready(j[2], jobs[j].outcomes)' = Ready(j[2], jobs'[j].outcomes)
    BY <1>1, <1>2 DEF CoroutinesOf, Ready
  <2>1. CASE j = <<s, w>>
    BY <1>0, <1>2, <2>0, <2>1 DEF GoesOn
  <2>2. CASE j # <<s, w>>
    <3>1. jobs'[j] = jobs[j] /\ j = <<j[1], j[2]>>
      BY <1>2, <2>0, <2>2 DEF Inv, TypeOK, EngineTypeOK, IsTable
    <3>2. \A c \in DOMAIN work' : c[1] = j[1] /\ c[2] = j[2] =>
            c \in DOMAIN work /\ work'[c] = work[c]
      BY <1>7, <2>2, <3>1
    <3>3. CoroutinesOf(j[1], j[2], jobs[j].generation)' \subseteq
            CoroutinesOf(j[1], j[2], jobs[j].generation)
      BY <2>0, <3>1, <3>2 DEF CoroutinesOf
    <3> QED
      BY <2>0, <3>1, <3>2, <3>3 DEF Inv, PhasesMean, CoroutinesOf
  <2> QED
    BY <2>1, <2>2
<1>13. VerdictsTrue'
  <2> SUFFICES ASSUME NEW c \in DOMAIN work'
               PROVE  /\ work'[c].verdict = "completed" => <<c[2], c[4]>> \in Receipts
                      /\ work'[c].verdict # "none" <=> work'[c].at \in {"cleaning", "done"}
                      /\ work'[c].at = "done" => work'[c].verdict \in {"completed", "failed"}
                      /\ \A d \in Needs(c[2], c[4]) : Saved(c[2], d, "completed")'
    BY <1>1 DEF VerdictsTrue
  <2>1. CASE c \in DOMAIN work /\ work'[c] = work[c]
    BY <1>1, <2>1 DEF Inv, VerdictsTrue
  <2>2. CASE \E t \in Ready(w, outcomes) : c = <<s, w, g, t>> /\ work'[c] = Fresh("waiting")
    BY <1>6, <2>2 DEF Fresh
  <2> QED
    BY <1>7, <2>1, <2>2
<1>14. NewestKnows'
  <2> SUFFICES ASSUME NEW c \in DOMAIN work', NewestTask(c)
               PROVE  /\ <<c[2], c[4]>> \notin DOMAIN task_outcomes'
                      /\ /\ <<c[2], c[4]>> \in Receipts
                         /\ work'[c].at \notin {"waiting", "raised"}
                         => work'[c].verdict = "completed" \/ <<c[2], c[4]>> \in lost
    BY <1>1, <1>3 DEF NewestKnows
  <2>1. CASE c \in DOMAIN work /\ work'[c] = work[c]
    <3>1. ASSUME <<c[2], c[4]>> \in DOMAIN task_outcomes' PROVE FALSE
      <4>1. <<c[2], c[4]>> \in DOMAIN task_outcomes' \ DOMAIN task_outcomes
        BY <2>1, <3>1 DEF Inv, NewestKnows
      <4>2. /\ c[2] = w /\ run_jobs[w].owner = s /\ run_jobs[w].generation = g
            /\ <<s, w, g, c[4]>> \notin DOMAIN work'
        BY <4>1 DEF OutcomesGrow
      <4>3. c[3] = g /\ run_jobs[w].owner \in {c[1], NoOwner}
        BY <2>1, <4>2 DEF Inv, Ownership, NewestTask
      <4>4. c = <<c[1], c[2], c[3], c[4]>>
        BY <2>1 DEF Inv, TypeOK, EngineTypeOK
      <4> QED
        BY <4>2, <4>3, <4>4, RunAssumption
    <3> QED
      BY <2>1, <3>1 DEF Inv, NewestKnows
  <2>2. CASE \E t \in Ready(w, outcomes) : c = <<s, w, g, t>> /\ work'[c] = Fresh("waiting")
    <3>1. /\ c[2] = w /\ c[4] \in Ready(w, outcomes) /\ work'[c].at = "waiting"
          /\ NewestJob(<<s, w>>)
      BY <2>2 DEF Fresh, NewestTask, NewestJob
    <3>2. <<w, c[4]>> \notin DOMAIN task_outcomes'
      <4>1. c[4] \in Task /\ c[4] \notin DOMAIN outcomes
        BY <1>6, <3>1
      <4>2. <<w, c[4]>> \notin DOMAIN task_outcomes
        BY <3>1, <4>1 DEF Inv, Remembered, OutcomesGrow
      <4> QED
        BY <1>8, <4>1, <4>2
    <3> QED
      BY <3>1, <3>2
  <2> QED
    BY <1>7, <2>1, <2>2
<1>15. ReceiptsFollow' /\ CompletedSaved'
  BY <1>1 DEF Inv, ReceiptsFollow, CompletedSaved
<1>16. OutcomesMatchReceipts'
  BY <1>1 DEF Inv, OutcomesMatchReceipts, OutcomesGrow
<1>17. SkippedOnlyAfterFailure'
  <2> SUFFICES ASSUME NEW o \in DOMAIN task_outcomes', task_outcomes'[o] = "skipped"
               PROVE  \E t \in DOMAIN TasksOf(o[1]) : Saved(o[1], t, "failed")'
    BY <1>1 DEF SkippedOnlyAfterFailure, Saved
  <2>1. \E t \in DOMAIN TasksOf(o[1]) : Saved(o[1], t, "failed")
    <3>1. CASE o \in DOMAIN task_outcomes
      BY <3>1 DEF Inv, SkippedOnlyAfterFailure, Saved, OutcomesGrow
    <3>2. CASE o \notin DOMAIN task_outcomes
      BY <3>2 DEF OutcomesGrow
    <3> QED
      BY <3>1, <3>2
  <2> QED
    BY <1>1, <2>1
<1>18. TypeOK'
  <2>1. IsTable(jobs', Scheduler \X Workflow, EngineRow)
    <3>1. known \in Outcomes
      BY <1>0 DEF OutcomesGrow, Inv, TypeOK, EngineTypeOK, IsTable, EngineRow, Outcomes
    <3>2. Job(phase, g, known) \in EngineRow
      BY <1>5, <3>1 DEF Job, EngineRow, Outcomes, Phases, AwaitingPhases, GoesOn
    <3> QED
      BY <1>0, <3>2 DEF Inv, TypeOK, EngineTypeOK, IsTable
  <2>2. /\ DOMAIN work' \subseteq Scheduler \X Workflow \X (1..MaxGeneration) \X Task
        /\ \A c \in DOMAIN work' : (c \in DOMAIN work /\ work'[c] = work[c]) \/ RowTyped(work'[c])
    <3>1. RowTyped(Fresh("waiting"))
      <4>1. "waiting" \in Places /\ "none" \in Verdict
        BY DEF Places, AwaitingPlaces, Verdict
      <4> QED
        BY <4>1, FreshTyped
    <3>2. \A t \in Ready(w, outcomes) :
            <<s, w, g, t>> \in Scheduler \X Workflow \X (1..MaxGeneration) \X Task
      BY <1>5, <1>6
    <3>3. DOMAIN work \subseteq Scheduler \X Workflow \X (1..MaxGeneration) \X Task
      BY DEF Inv, TypeOK, EngineTypeOK
    <3> QED
      BY <1>7, <3>1, <3>2, <3>3
  <2>3. /\ keepers' \union tokens' \subseteq Scheduler \X Workflow \X (1..MaxGeneration)
        /\ orphaned' \subseteq HoldingRow
        /\ faults' \in 0..MaxFaults /\ lost' \subseteq Workflow \X Task
    BY EngineAssumption DEF GoesOn, Inv, TypeOK, EngineTypeOK
  <2> QED
    BY <2>1, <2>2, <2>3, EngineTypes DEF Inv
<1> QED
  BY <1>9, <1>10, <1>11, <1>12, <1>13, <1>14, <1>15, <1>16, <1>17, <1>18 DEF Inv, TablesRight

-----------------------------------------------------------------------------
(* The decisions of Engine.run.                                              *)

\* The next wave.
LEMMA OnwardGoes ==
  ASSUME NEW s, NEW w, NEW g, <<s, w>> \in DOMAIN jobs, jobs[<<s, w>>].generation = g,
         NEW outcomes, NEW rest, DOMAIN rest \subseteq DOMAIN work,
         \A c \in DOMAIN rest : rest[c] = work[c] /\ ~(c[1] = s /\ c[2] = w /\ c[3] = g),
         Onward(s, w, outcomes, rest), UNCHANGED <<keepers, tokens, faults, lost, orphaned>>
  PROVE  \E phase : GoesOn(s, w, g, phase, outcomes)
<1>1. PICK wave : wave = Ready(w, outcomes)
  OBVIOUS
<1>2. PICK phase : phase = IF DOMAIN TasksOf(w) \subseteq DOMAIN outcomes THEN "finishing"
                           ELSE IF wave = {} THEN "skipping" ELSE "gathering"
  OBVIOUS
<1>3. PICK new : new = [c \in {<<s, w, g, t>> : t \in wave} |-> Fresh("waiting")]
  OBVIOUS
<1>4. jobs' = [jobs EXCEPT ![<<s, w>>] = Job(phase, g, outcomes)] /\ work' = Upsert(rest, new)
  BY <1>1, <1>2, <1>3 DEF Onward
<1>5. /\ DOMAIN new = {<<s, w, g, t>> : t \in wave}
      /\ \A c \in DOMAIN new : new[c] = Fresh("waiting")
  BY <1>3
<1>6. /\ DOMAIN work' = DOMAIN rest \union DOMAIN new
      /\ \A c \in DOMAIN work' : work'[c] = IF c \in DOMAIN new THEN new[c] ELSE rest[c]
  BY <1>4 DEF Upsert
<1>7. \A c \in DOMAIN work' :
        \/ c \in DOMAIN work /\ work'[c] = work[c]
        \/ \E t \in Ready(w, outcomes) : c = <<s, w, g, t>> /\ work'[c] = Fresh("waiting")
  BY <1>1, <1>5, <1>6
<1>8. phase \in {"skipping", "finishing"} => DOMAIN new = {}
  <2>1. phase = "finishing" => wave = {}
    BY <1>1, <1>2 DEF Ready
  <2>2. phase = "skipping" => wave = {}
    BY <1>2
  <2> QED
    BY <1>5, <2>1, <2>2
<1>9. phase \in {"skipping", "finishing"} =>
        {c \in DOMAIN work' : c[1] = s /\ c[2] = w /\ c[3] = g} = {}
  BY <1>6, <1>8
<1>10. /\ phase \in {"gathering", "saving", "skipping", "finishing"} /\ phase # "saving"
       /\ phase = "skipping" => Ready(w, outcomes) = {}
       /\ phase = "finishing" => DOMAIN TasksOf(w) \subseteq DOMAIN outcomes
  BY <1>1, <1>2
<1>11. GoesOn(s, w, g, phase, outcomes)
  BY <1>4, <1>7, <1>9, <1>10 DEF GoesOn
<1> QED
  BY <1>11

\* What an engine remembers is what is saved.
LEMMA RememberedTyped ==
  ASSUME Inv, NEW j \in DOMAIN jobs
  PROVE  /\ jobs[j].outcomes \in Outcomes /\ j[2] \in DOMAIN workflows /\ j[2] \in DOMAIN run_jobs
         /\ \A t \in DOMAIN jobs[j].outcomes :
              /\ <<j[2], t>> \in DOMAIN task_outcomes
              /\ task_outcomes[<<j[2], t>>] = jobs[j].outcomes[t]
BY DEF Inv, Known, Remembered, Saved, TypeOK, EngineTypeOK, IsTable, EngineRow, Outcomes

\* The engine that saves an outcome is the owner under the newest claim.
LEMMA SaverOwns ==
  ASSUME Inv, NEW s \in Scheduler, NEW w \in Workflow, <<s, w>> \in DOMAIN jobs,
         jobs[<<s, w>>].phase # "started",
         ExecutionAllowed(w, jobs[<<s, w>>].generation)
  PROVE  /\ run_jobs[w].owner = s /\ run_jobs[w].generation = jobs[<<s, w>>].generation
         /\ NewestJob(<<s, w>>)
<1>1. w \in DOMAIN run_jobs
  BY DEF Inv, Known
<1>2. run_jobs[w].generation = jobs[<<s, w>>].generation /\ run_jobs[w].owner # NoOwner
  BY <1>1 DEF ExecutionAllowed
<1> QED
  BY <1>2 DEF Inv, Ownership, NewestJob

\* Saving one outcome, of a task that is not at work, is such a growth.
LEMMA SaveGrows ==
  ASSUME Inv, NEW s \in Scheduler, NEW w \in Workflow, <<s, w>> \in DOMAIN jobs,
         NEW g, g = jobs[<<s, w>>].generation, jobs[<<s, w>>].phase \in {"saving", "skipping"},
         NEW t \in DOMAIN TasksOf(w), NEW outcome \in {"completed", "failed", "skipped"},
         SaveOutcome(w, t, outcome, g),
         <<s, w, g, t>> \notin DOMAIN work',
         outcome = "completed" => <<w, t>> \in Receipts,
         outcome # "completed" /\ <<w, t>> \in Receipts => <<w, t>> \in lost,
         outcome = "skipped" => \E u \in DOMAIN TasksOf(w) : Saved(w, u, "failed"),
         NEW outcomes, outcomes = Insert(jobs[<<s, w>>].outcomes, t, outcome)
  PROVE  OutcomesGrow(s, w, g, outcomes)
<1>1. /\ DOMAIN task_outcomes' = DOMAIN task_outcomes \union {<<w, t>>}
      /\ <<w, t>> \notin DOMAIN task_outcomes
      /\ task_outcomes'[<<w, t>>] = outcome
      /\ \A o \in DOMAIN task_outcomes : task_outcomes'[o] = task_outcomes[o]
  BY DEF SaveOutcome, Insert, Upsert
<1>2. PICK old : old = jobs[<<s, w>>].outcomes
  OBVIOUS
<1>3. /\ old \in Outcomes /\ w \in DOMAIN workflows
      /\ \A u \in DOMAIN old :
           <<w, u>> \in DOMAIN task_outcomes /\ task_outcomes[<<w, u>>] = old[u]
  <2>1. PICK j \in DOMAIN jobs : j = <<s, w>>
    OBVIOUS
  <2> QED
    BY <1>2, <2>1, RememberedTyped
<1>4. /\ DOMAIN outcomes = DOMAIN old \union {t}
      /\ outcomes = [u \in DOMAIN outcomes |-> outcomes[u]]
      /\ \A u \in DOMAIN old : u # t => outcomes[u] = old[u]
      /\ outcomes[t] = outcome
  BY <1>2 DEF Insert, Upsert
<1>5. outcomes \in Outcomes
  <2>1. DOMAIN old \subseteq Task /\ \A u \in DOMAIN old : old[u] \in Outcome
    BY <1>3 DEF Outcomes
  <2>2. t \in Task
    BY <1>3, TasksTyped
  <2>3. DOMAIN outcomes \subseteq Task /\ \A u \in DOMAIN outcomes : outcomes[u] \in Outcome
    BY <1>4, <2>1, <2>2, EngineAssumption
  <2> QED
    BY <1>4, <2>3, OutcomesType
<1>6. \A u \in DOMAIN outcomes :
        <<w, u>> \in DOMAIN task_outcomes' /\ task_outcomes'[<<w, u>>] = outcomes[u]
  <2>1. t \notin DOMAIN old
    BY <1>1, <1>3
  <2> QED
    BY <1>1, <1>3, <1>4, <2>1
<1>7. run_jobs[w].owner = s /\ run_jobs[w].generation = g
  BY SaverOwns DEF SaveOutcome
<1>8. ASSUME NEW o \in DOMAIN task_outcomes' \ DOMAIN task_outcomes
      PROVE  o = <<w, t>> /\ o[1] = w /\ o[2] = t /\ task_outcomes'[o] = outcome
  BY <1>1
<1> QED
  BY <1>1, <1>2, <1>4, <1>5, <1>6, <1>7, <1>8 DEF OutcomesGrow

-----------------------------------------------------------------------------
(* What makes a step of an engine a quiet one.                               *)

\* The engines stay where they are.
LEMMA JobsKept ==
  ASSUME Inv, UNCHANGED jobs
  PROVE  JobsQuiet
BY DEF Inv, TypeOK, EngineTypeOK, JobsQuiet, EngineQuiet

\* Engines end.
LEMMA JobsDeleted ==
  ASSUME Inv, NEW gone, jobs' = Delete(jobs, gone)
  PROVE  JobsQuiet
<1>1. IsTable(jobs', Scheduler \X Workflow, EngineRow)
  BY DEF Inv, TypeOK, EngineTypeOK, IsTable, Delete
<1>2. \A j \in DOMAIN jobs' : j \in DOMAIN jobs /\ jobs'[j] = jobs[j]
  BY DEF Delete
<1> QED
  BY <1>1, <1>2 DEF JobsQuiet, EngineQuiet

\* An engine gives up, or sees that its wave has ended.
LEMMA JobMoves ==
  ASSUME Inv, NEW j \in DOMAIN jobs, NEW phase, jobs' = [jobs EXCEPT ![j].phase = phase],
         \/ jobs[j].phase # "started" /\ phase \in {"failing", "leaving", "cancelled"}
         \/ /\ jobs[j].phase = "gathering" /\ phase = "saving"
            /\ \A c \in CoroutinesOf(j[1], j[2], jobs[j].generation) : work[c].at = "done"
  PROVE  JobsQuiet
<1>1. IsTable(jobs, Scheduler \X Workflow, EngineRow) /\ jobs[j] \in EngineRow
  BY DEF Inv, TypeOK, EngineTypeOK, IsTable
<1>2. phase \in Phases
  BY DEF Phases, AwaitingPhases
<1>3. PICK new : new = [jobs[j] EXCEPT !.phase = phase]
  OBVIOUS
<1>4. /\ new \in EngineRow /\ new.phase = phase /\ new.generation = jobs[j].generation
      /\ new.outcomes = jobs[j].outcomes
  BY <1>1, <1>2, <1>3 DEF EngineRow
<1>5. jobs' = [jobs EXCEPT ![j] = new]
  BY <1>3
<1>6. IsTable(jobs', Scheduler \X Workflow, EngineRow)
  BY <1>1, <1>4, <1>5 DEF IsTable
<1>7. EngineQuiet(j, new)
  BY <1>4 DEF EngineQuiet
<1>8. \A i \in DOMAIN jobs' : i \in DOMAIN jobs /\ EngineQuiet(i, jobs'[i])
  BY <1>5, <1>7 DEF EngineQuiet
<1> QED
  BY <1>6, <1>8 DEF JobsQuiet

\* The coroutines stay where they are.
LEMMA WorkKept ==
  ASSUME UNCHANGED work
  PROVE  WorkQuiet
BY DEF WorkQuiet

\* Coroutines end.
LEMMA WorkDeleted ==
  ASSUME NEW gone, work' = Delete(work, gone)
  PROVE  WorkQuiet
BY DEF WorkQuiet, Delete

\* A coroutine goes on, to a row that is true of it.
LEMMA CoroutineGoes ==
  ASSUME NEW c \in DOMAIN work, NEW row, work' = [work EXCEPT ![c] = row],
         work[c].at # "done", RowTyped(row), RowTrue(c, row)
  PROVE  WorkQuiet
BY DEF WorkQuiet

\* What was orphaned before, and what coroutines held.
Orphans == \A h \in orphaned' : h \in orphaned \/ \E c \in DOMAIN work : h = Holding(c)

\* What a coroutine holds is well typed.
LEMMA HoldingTyped ==
  ASSUME Inv, NEW c \in DOMAIN work
  PROVE  Holding(c) \in HoldingRow
<1>1. PICK reads : reads = work[c].reads
  OBVIOUS
<1>2. work[c] \in Coroutine(reads) /\ c \in Scheduler \X Workflow \X (1..MaxGeneration) \X Task
  BY <1>1 DEF Inv, TypeOK, EngineTypeOK
<1>3. work[c].message \in SUBSET Claim /\ work[c].attempt \in Nat /\ work[c].lease \in Nat
  BY <1>2 DEF Coroutine
<1>4. NameOf(c) \in Owner
  BY <1>2, EngineAssumption DEF NameOf
<1> QED
  BY <1>3, <1>4 DEF Holding, HoldingRow

\* Heartbeats end, tokens are forgotten, coroutines die and a fault is counted.
LEMMA RestKept ==
  ASSUME Inv, keepers' \subseteq keepers, tokens' \subseteq tokens, Orphans,
         faults' = faults \/ (faults < MaxFaults /\ faults' = faults + 1),
         UNCHANGED <<task_outcomes, operations, lost>>
  PROVE  RestQuiet
<1>1. faults' \in 0..MaxFaults
  BY EngineAssumption DEF Inv, TypeOK, EngineTypeOK
<1>2. orphaned' \subseteq HoldingRow
  BY HoldingTyped DEF Orphans, Inv, TypeOK, EngineTypeOK
<1> QED
  BY <1>1, <1>2 DEF Inv, TypeOK, EngineTypeOK, RestQuiet

\* Tables of runs that move forward, without a claim.
LEMMA RunsMove ==
  ASSUME Inv, RunsOK', RunsForward, UNCHANGED <<task_outcomes, operations>>,
         DOMAIN run_jobs' = DOMAIN run_jobs,
         \A w \in DOMAIN run_jobs :
           /\ run_jobs'[w].generation = run_jobs[w].generation
           /\ run_jobs'[w].owner \in {run_jobs[w].owner, NoOwner},
         DOMAIN workflows' = DOMAIN workflows,
         \A w \in DOMAIN workflows : workflows'[w].status = "completed" =>
           \/ workflows[w].status = "completed"
           \/ \A t \in DOMAIN TasksOf(w) : Saved(w, t, "completed")
  PROVE  RunsQuiet
BY DEF Inv, Known, RunsForward, RunsQuiet

-----------------------------------------------------------------------------
(* What the tables of a step that is no commit become.                       *)

\* create_resource touches no run, lease, message or receipt.
LEMMA CreateResourceStep ==
  ASSUME Inv, NEW k \in Key, NEW v, NEW json_schema, CreateResource(k, v, json_schema),
         UNCHANGED <<clock, leaseVars, runVars, messagingVars, commitVars>>
  PROVE  TablesRight' /\ Growing /\ RunsQuiet /\ UNCHANGED <<task_outcomes, operations>>
<1>1. UNCHANGED <<clock, lease_sequence, leases, workflows, attempts, run_jobs, task_outcomes,
                  channels, deliveries, operations, transitions>>
  BY DEF leaseVars, runVars, messagingVars, commitVars
<1>2. IsTable(resources', Key, Resource)
  <2>1. PICK row : row = [value |-> v, json_schema |-> json_schema, version |-> 1,
                          schema_version |-> 1]
    OBVIOUS
  <2>2. v \in Value /\ json_schema \in Schema
    BY ConformingAssumption DEF CreateResource, Validates
  <2>3. row \in Resource
    BY <2>1, <2>2 DEF Resource
  <2>4. resources' = Insert(resources, k, row)
    BY <2>1 DEF CreateResource
  <2> QED
    BY <2>3, <2>4 DEF Inv, TypeOK, CoordinatorTablesOK, IsTable, Insert, Upsert
<1>3. PendingCurrent'
  BY <1>1, RunsAreOK, ClaimsKept
<1>4. CoordinatorTablesOK'
  BY <1>1, <1>2 DEF Inv, TypeOK, CoordinatorTablesOK, LeaseTablesOK, RunTablesOK,
                    MessagingTablesOK, CommitTablesOK, Receipt
<1>5. Growing
  BY <1>1 DEF Inv, TypeOK, CoordinatorTablesOK, LeaseTablesOK, RunTablesOK, Growing
<1>6. RunsQuiet
  BY <1>1 DEF Inv, Known, RunsQuiet
<1> QED
  BY <1>1, <1>3, <1>4, <1>5, <1>6 DEF TablesRight, Inv, TypeOK

\* The steps of messaging touch no run, lease or receipt.
LEMMA MessagingStep ==
  ASSUME Inv, MessagingTablesOK',
         UNCHANGED <<clock, resources, leaseVars, runVars, commitVars>>
  PROVE  TablesRight' /\ Growing /\ RunsQuiet /\ UNCHANGED <<task_outcomes, operations>>
<1>1. UNCHANGED <<clock, resources, lease_sequence, leases, workflows, attempts, run_jobs,
                  task_outcomes, operations, transitions>>
  BY DEF leaseVars, runVars, commitVars
<1>2. PendingCurrent'
  BY <1>1, RunsAreOK, ClaimsKept
<1>3. CoordinatorTablesOK'
  BY <1>1 DEF Inv, TypeOK, CoordinatorTablesOK, LeaseTablesOK, RunTablesOK, CommitTablesOK, Receipt
<1>4. Growing
  BY <1>1 DEF Inv, TypeOK, CoordinatorTablesOK, LeaseTablesOK, RunTablesOK, Growing
<1>5. RunsQuiet
  BY <1>1 DEF Inv, Known, RunsQuiet
<1> QED
  BY <1>1, <1>2, <1>3, <1>4, <1>5 DEF TablesRight, Inv, TypeOK

\* The steps of leases touch no run, message or receipt.
LEMMA LeaseStep ==
  ASSUME Inv, LeaseTablesOK', lease_sequence <= lease_sequence',
         UNCHANGED <<clock, resources, runVars, messagingVars, commitVars>>
  PROVE  TablesRight' /\ Growing /\ RunsQuiet /\ UNCHANGED <<task_outcomes, operations>>
<1>1. UNCHANGED <<clock, resources, workflows, attempts, run_jobs, task_outcomes,
                  channels, deliveries, operations, transitions>>
  BY DEF runVars, messagingVars, commitVars
<1>2. PendingCurrent'
  BY <1>1, RunsAreOK, ClaimsKept
<1>3. CoordinatorTablesOK'
  BY <1>1 DEF Inv, TypeOK, CoordinatorTablesOK, RunTablesOK, MessagingTablesOK, CommitTablesOK,
              Receipt
<1>4. Growing
  BY <1>1 DEF Inv, TypeOK, CoordinatorTablesOK, RunTablesOK, Growing
<1>5. RunsQuiet
  BY <1>1 DEF Inv, Known, RunsQuiet
<1> QED
  BY <1>1, <1>2, <1>3, <1>4, <1>5 DEF TablesRight, Inv, TypeOK

-----------------------------------------------------------------------------
(* The steps of Engine.run that decide.                                      *)

\* Engine.run provisions the resources and starts the first wave.
LEMMA ProvisionInv ==
  ASSUME Inv, NEW s \in Scheduler, NEW w \in Workflow, <<s, w>> \in DOMAIN jobs, Provision(s, w)
  PROVE  Inv'
<1>1. PICK j \in DOMAIN jobs : j = <<s, w>>
  OBVIOUS
<1>2. w \in DOMAIN workflows /\ jobs[j].phase = "provisioning"
  BY <1>1 DEF Inv, Known, Provision, In
<1>3. UNCHANGED <<clock, leaseVars, runVars, messagingVars, commitVars, keepers, tokens,
                  faults, lost, orphaned>>
  BY DEF Provision
<1>4. ASSUME NEW k \in DOMAIN workflows[w].specification.resources, NEW v, NEW json_schema,
             CreateResource(k, v, json_schema), UNCHANGED <<jobs, work>>
      PROVE  Inv'
  <2>1. k \in Key
    BY <1>2, TasksTyped, EngineAssumption
  <2>2. TablesRight' /\ Growing /\ RunsQuiet /\ UNCHANGED <<task_outcomes, operations>>
    BY <1>3, <1>4, <2>1, CreateResourceStep
  <2>3. JobsQuiet /\ WorkQuiet /\ RestQuiet
    BY <1>3, <1>4, <2>2, JobsKept, WorkKept, RestKept DEF Orphans
  <2> QED
    BY <2>2, <2>3, QuietInv
<1>5. ASSUME Phase(s, w, "failing"), UNCHANGED <<resources, work>>
      PROVE  Inv'
  <2>1. UNCHANGED tableVars /\ clock' \in Nat
    BY <1>3, <1>5 DEF tableVars, Inv, TypeOK
  <2>2. TablesRight' /\ Growing /\ RunsQuiet /\ UNCHANGED <<task_outcomes, operations>>
    BY <2>1, TablesKept
  <2>3. JobsQuiet
    BY <1>1, <1>2, <1>5, JobMoves DEF Phase
  <2>4. WorkQuiet /\ RestQuiet
    BY <1>3, <1>5, <2>2, WorkKept, RestKept DEF Orphans
  <2> QED
    BY <2>2, <2>3, <2>4, QuietInv
<1>6. ASSUME Onward(s, w, jobs[<<s, w>>].outcomes, work), UNCHANGED resources
      PROVE  Inv'
  <2>1. UNCHANGED tableVars /\ clock' \in Nat
    BY <1>3, <1>6 DEF tableVars, Inv, TypeOK
  <2>2. TablesRight' /\ Growing /\ UNCHANGED <<task_outcomes, operations>>
    BY <2>1, TablesKept
  <2>3. UNCHANGED <<workflows, run_jobs>>
    BY <1>3 DEF runVars
  <2>4. PICK g, outcomes : g = jobs[<<s, w>>].generation /\ outcomes = jobs[<<s, w>>].outcomes
    OBVIOUS
  <2>5. CoroutinesOf(s, w, g) = {}
    BY <1>1, <1>2, <2>4 DEF Inv, PhasesMean
  <2>6. \A c \in DOMAIN work : work[c] = work[c] /\ ~(c[1] = s /\ c[2] = w /\ c[3] = g)
    BY <2>5 DEF CoroutinesOf
  <2>7. PICK phase : GoesOn(s, w, g, phase, outcomes)
    BY <1>3, <1>6, <2>4, <2>6, OnwardGoes
  <2>8. OutcomesGrow(s, w, g, outcomes)
    <3>1. /\ outcomes \in Outcomes
          /\ \A t \in DOMAIN outcomes :
               <<w, t>> \in DOMAIN task_outcomes /\ task_outcomes[<<w, t>>] = outcomes[t]
      BY <1>1, <2>4, RememberedTyped
    <3> QED
      BY <2>2, <2>4, <3>1 DEF OutcomesGrow
  <2> QED
    BY <1>1, <1>2, <2>2, <2>3, <2>4, <2>7, <2>8, DecideInv
<1> QED
  BY <1>4, <1>5, <1>6 DEF Provision

\* A step that saves an outcome.
LEMMA SaveTables ==
  ASSUME Inv, NEW w \in Workflow, NEW t \in Task, NEW outcome \in {"completed", "failed", "skipped"},
         NEW g, SaveOutcome(w, t, outcome, g),
         UNCHANGED <<clock, resources, leaseVars, messagingVars, commitVars>>
  PROVE  TablesRight' /\ Growing /\ UNCHANGED <<workflows, run_jobs, operations>>
<1>1. outcome \in Outcome
  BY EngineAssumption
<1>2. RunsOK' /\ RunsForward
  BY <1>1, RunsAreOK, SaveOutcomeForward
<1>3. UNCHANGED <<workflows, run_jobs, operations>>
  BY DEF SaveOutcome, commitVars
<1> QED
  BY <1>2, <1>3, RunTablesStep

\* What a saved result adds, if the coroutine it came from is gone then.
LEMMA ResultGrows ==
  ASSUME Inv, NEW s \in Scheduler, NEW w \in Workflow, <<s, w>> \in DOMAIN jobs,
         NEW t \in Task, NEW g, g = jobs[<<s, w>>].generation,
         NEW c \in DOMAIN work, c = <<s, w, g, t>>,
         jobs[<<s, w>>].phase = "saving", SaveOutcome(w, t, work[c].verdict, g),
         c \notin DOMAIN work',
         NEW outcomes, outcomes = Insert(jobs[<<s, w>>].outcomes, t, work[c].verdict),
         UNCHANGED <<clock, resources, leaseVars, messagingVars, commitVars>>
  PROVE  /\ OutcomesGrow(s, w, g, outcomes)
         /\ TablesRight' /\ Growing /\ UNCHANGED <<workflows, run_jobs, operations>>
<1>1. /\ \A x \in CoroutinesOf(s, w, g) : work[x].at = "done"
      /\ c \in CoroutinesOf(s, w, g)
  <2>1. PICK j \in DOMAIN jobs : j = <<s, w>>
    OBVIOUS
  <2> QED
    BY <2>1 DEF Inv, PhasesMean, CoroutinesOf
<1>2. PICK outcome : outcome = work[c].verdict
  OBVIOUS
<1>3. /\ t \in DOMAIN TasksOf(w)
      /\ outcome \in {"completed", "failed"} /\ work[c].at = "done"
      /\ outcome = "completed" => <<w, t>> \in Receipts
  BY <1>1, <1>2 DEF Inv, Known, VerdictsTrue
<1>4. TablesRight' /\ Growing /\ UNCHANGED <<workflows, run_jobs, operations>>
  BY <1>2, <1>3, SaveTables
<1>5. outcome # "completed" /\ <<w, t>> \in Receipts => <<w, t>> \in lost
  <2>1. NewestTask(c)
    BY SaverOwns DEF SaveOutcome, NewestTask
  <2> QED
    BY <1>2, <1>3, <2>1 DEF Inv, NewestKnows
<1>6. /\ outcome \in {"completed", "failed", "skipped"} /\ outcome # "skipped"
      /\ SaveOutcome(w, t, outcome, g)
      /\ outcomes = Insert(jobs[<<s, w>>].outcomes, t, outcome)
      /\ <<s, w, g, t>> \notin DOMAIN work'
  BY <1>2, <1>3
<1>7. OutcomesGrow(s, w, g, outcomes)
  BY <1>3, <1>5, <1>6, SaveGrows
<1> QED
  BY <1>4, <1>7

\* Engine.run saves the result of a task that is done.
LEMMA SaveResultInv ==
  ASSUME Inv, NEW s \in Scheduler, NEW w \in Workflow, <<s, w>> \in DOMAIN jobs,
         NEW t \in Task, SaveResult(s, w, t)
  PROVE  Inv'
<1>1. PICK g, c, outcomes :
        /\ g = jobs[<<s, w>>].generation /\ c = <<s, w, g, t>>
        /\ outcomes = Insert(jobs[<<s, w>>].outcomes, t, work[c].verdict)
  OBVIOUS
<1>2. /\ jobs[<<s, w>>].phase = "saving" /\ c \in DOMAIN work
      /\ SaveOutcome(w, t, work[c].verdict, g)
      /\ IF CoroutinesOf(s, w, g) = {c} THEN Onward(s, w, outcomes, Delete(work, {c}))
         ELSE /\ jobs' = [jobs EXCEPT ![<<s, w>>].outcomes = outcomes]
              /\ work' = Delete(work, {c})
      /\ UNCHANGED <<clock, resources, leaseVars, messagingVars, commitVars, keepers,
                     tokens, faults, lost, orphaned>>
  BY <1>1 DEF SaveResult, In
<1>3. /\ \A x \in CoroutinesOf(s, w, g) : work[x].at = "done"
      /\ c \in CoroutinesOf(s, w, g)
      /\ \A x \in DOMAIN work : x[1] = s /\ x[2] = w /\ x[3] = g => x \in CoroutinesOf(s, w, g)
  <2>1. PICK j \in DOMAIN jobs : j = <<s, w>>
    OBVIOUS
  <2> QED
    BY <1>1, <1>2, <2>1 DEF Inv, PhasesMean, CoroutinesOf
<1>7. \E phase : GoesOn(s, w, g, phase, outcomes)
  <2>1. CASE CoroutinesOf(s, w, g) = {c}
    <3>1. PICK rest : rest = Delete(work, {c})
      OBVIOUS
    <3>2. /\ DOMAIN rest \subseteq DOMAIN work
          /\ \A x \in DOMAIN rest : rest[x] = work[x] /\ ~(x[1] = s /\ x[2] = w /\ x[3] = g)
      BY <1>3, <2>1, <3>1 DEF Delete
    <3>3. Onward(s, w, outcomes, rest)
      BY <1>2, <2>1, <3>1
    <3>4. UNCHANGED <<keepers, tokens, faults, lost, orphaned>>
      BY <1>2
    <3> QED
      BY <1>1, <3>2, <3>3, <3>4, OnwardGoes
  <2>2. CASE CoroutinesOf(s, w, g) # {c}
    <3>1. /\ jobs' = [jobs EXCEPT ![<<s, w>>].outcomes = outcomes]
          /\ work' = Delete(work, {c})
      BY <1>2, <2>2
    <3>2. [jobs[<<s, w>>] EXCEPT !.outcomes = outcomes] = Job("saving", g, outcomes)
      <4>1. jobs[<<s, w>>] \in EngineRow
        BY DEF Inv, TypeOK, EngineTypeOK, IsTable
      <4> QED
        BY <1>1, <1>2, <4>1 DEF EngineRow, Job
    <3>3. jobs' = [jobs EXCEPT ![<<s, w>>] = Job("saving", g, outcomes)]
      BY <3>1, <3>2
    <3>4. \A x \in DOMAIN work' : x \in DOMAIN work /\ work'[x] = work[x]
      BY <3>1 DEF Delete
    <3>5. \A x \in {y \in DOMAIN work' : y[1] = s /\ y[2] = w /\ y[3] = g} : work'[x].at = "done"
      BY <1>3, <3>4
    <3>6. GoesOn(s, w, g, "saving", outcomes)
      BY <1>2, <3>3, <3>4, <3>5 DEF GoesOn
    <3> QED
      BY <3>6
  <2> QED
    BY <2>1, <2>2
<1>8. c \notin DOMAIN work'
  <2>1. CASE CoroutinesOf(s, w, g) = {c}
    <3>1. PICK wave : wave = Ready(w, outcomes)
      OBVIOUS
    <3>2. t \notin wave
      BY <3>1, <1>1 DEF Ready, Insert, Upsert
    <3>3. DOMAIN work' = (DOMAIN work \ {c}) \union {<<s, w, g, u>> : u \in wave}
      BY <1>1, <1>2, <2>1, <3>1 DEF Onward, Upsert, Delete
    <3> QED
      BY <1>1, <3>2, <3>3
  <2>2. CASE CoroutinesOf(s, w, g) # {c}
    BY <1>2, <2>2 DEF Delete
  <2> QED
    BY <2>1, <2>2
<1>9. /\ OutcomesGrow(s, w, g, outcomes)
      /\ TablesRight' /\ Growing /\ UNCHANGED <<workflows, run_jobs, operations>>
  BY <1>1, <1>2, <1>8, ResultGrows
<1>10. PICK phase : GoesOn(s, w, g, phase, outcomes)
  BY <1>7
<1> QED
  BY <1>1, <1>2, <1>9, <1>10, DecideInv

\* If of the tasks that are left none is ready, one of the others has failed.
LEMMA StuckAfterFailure ==
  ASSUME Inv, NEW w \in DOMAIN workflows, NEW outcomes,
         \A t \in DOMAIN outcomes : Saved(w, t, outcomes[t]),
         Ready(w, outcomes) = {}, NEW left \in DOMAIN TasksOf(w), left \notin DOMAIN outcomes
  PROVE  \E t \in DOMAIN TasksOf(w) : Saved(w, t, "failed")
<1>1. PICK tasks, U : tasks = TasksOf(w) /\ U = DOMAIN tasks \ DOMAIN outcomes
  OBVIOUS
<1>2. IsFiniteSet(DOMAIN tasks) /\ DependenciesResolve(tasks)
  BY <1>1, TasksTyped, EngineAssumption DEF Inv, Known, Accepted, TasksOf
<1>3. PICK u \in U : tasks[u].depends_on \subseteq DOMAIN tasks \ U
  BY <1>1, <1>2, WavesNotStuck
<1>4. PICK d \in DOMAIN tasks : d \in DOMAIN outcomes /\ outcomes[d] # "completed"
  BY <1>1, <1>3 DEF Ready
<1>5. PICK o \in DOMAIN task_outcomes : o = <<w, d>> /\ task_outcomes[o] = outcomes[d]
  BY <1>4 DEF Saved
<1>6. task_outcomes[o] \in {"failed", "skipped"} /\ o[1] = w /\ o[2] = d
  BY <1>4, <1>5 DEF Inv, Known
<1>7. CASE task_outcomes[o] = "failed"
  BY <1>1, <1>4, <1>5, <1>7 DEF Saved
<1>8. CASE task_outcomes[o] = "skipped"
  BY <1>5, <1>6, <1>8 DEF Inv, SkippedOnlyAfterFailure, Saved
<1> QED
  BY <1>6, <1>7, <1>8

\* What saving a task as skipped adds: it has no receipt, and another one has failed.
LEMMA SkipGrows ==
  ASSUME Inv, NEW s \in Scheduler, NEW w \in Workflow, <<s, w>> \in DOMAIN jobs,
         NEW t \in Task, NEW g, g = jobs[<<s, w>>].generation,
         NEW old, old = jobs[<<s, w>>].outcomes, t \in DOMAIN TasksOf(w) \ DOMAIN old,
         jobs[<<s, w>>].phase = "skipping", SaveOutcome(w, t, "skipped", g),
         <<s, w, g, t>> \notin DOMAIN work',
         NEW outcomes, outcomes = Insert(old, t, "skipped"),
         UNCHANGED <<clock, resources, leaseVars, messagingVars, commitVars>>
  PROVE  /\ OutcomesGrow(s, w, g, outcomes)
         /\ TablesRight' /\ Growing /\ UNCHANGED <<workflows, run_jobs, operations>>
<1>1. /\ w \in DOMAIN workflows /\ Ready(w, old) = {}
      /\ \A u \in DOMAIN old : Saved(w, u, old[u])
  <2>1. PICK j \in DOMAIN jobs : j = <<s, w>>
    OBVIOUS
  <2> QED
    BY <2>1 DEF Inv, Known, PhasesMean, Remembered
<1>2. TablesRight' /\ Growing /\ UNCHANGED <<workflows, run_jobs, operations>>
  BY SaveTables
<1>3. \E u \in DOMAIN TasksOf(w) : Saved(w, u, "failed")
  BY <1>1, StuckAfterFailure
<1>4. <<w, t>> \notin Receipts
  <2> SUFFICES ASSUME <<w, t>> \in Receipts PROVE FALSE
    OBVIOUS
  <2>1. \A d \in TasksOf(w)[t].depends_on : Saved(w, d, "completed")
    BY DEF Inv, ReceiptsFollow, Needs
  <2>2. NewestJob(<<s, w>>)
    BY SaverOwns DEF SaveOutcome
  <2>3. \A d \in Task : <<w, d>> \in DOMAIN task_outcomes => d \in DOMAIN old
    <3>1. PICK j \in DOMAIN jobs : j = <<s, w>>
      OBVIOUS
    <3> QED
      BY <2>2, <3>1 DEF Inv, Remembered
  <2>4. \A d : <<w, d>> \in DOMAIN task_outcomes => d \in Task
    BY DEF Inv, TypeOK, CoordinatorTablesOK, RunTablesOK, IsTable
  <2>5. t \in Ready(w, old)
    BY <1>1, <2>1, <2>3, <2>4 DEF Ready, Saved
  <2> QED
    BY <1>1, <2>5
<1>5. OutcomesGrow(s, w, g, outcomes)
  <2>1. PICK outcome \in {"completed", "failed", "skipped"} : outcome = "skipped"
    OBVIOUS
  <2> QED
    BY <1>3, <1>4, <2>1, SaveGrows
<1> QED
  BY <1>2, <1>5

\* Engine.run saves as skipped what no wave will reach.
LEMMA SaveSkippedInv ==
  ASSUME Inv, NEW s \in Scheduler, NEW w \in Workflow, <<s, w>> \in DOMAIN jobs,
         NEW t \in Task, SaveSkipped(s, w, t)
  PROVE  Inv'
<1>1. PICK g, old, outcomes :
        /\ g = jobs[<<s, w>>].generation /\ old = jobs[<<s, w>>].outcomes
        /\ outcomes = Insert(old, t, "skipped")
  OBVIOUS
<1>2. PICK phase :
        phase = IF DOMAIN TasksOf(w) \subseteq DOMAIN outcomes THEN "finishing" ELSE "skipping"
  OBVIOUS
<1>3. /\ jobs[<<s, w>>].phase = "skipping" /\ t \in DOMAIN TasksOf(w) \ DOMAIN old
      /\ SaveOutcome(w, t, "skipped", g)
      /\ jobs' = [jobs EXCEPT ![<<s, w>>] = Job(phase, g, outcomes)]
      /\ UNCHANGED <<clock, resources, leaseVars, messagingVars, commitVars, keepers, tokens, work,
                     faults, lost, orphaned>>
  BY <1>1, <1>2 DEF SaveSkipped, In
<1>4. Ready(w, old) = {} /\ CoroutinesOf(s, w, g) = {}
  <2>1. PICK j \in DOMAIN jobs : j = <<s, w>>
    OBVIOUS
  <2> QED
    BY <1>1, <1>3, <2>1 DEF Inv, PhasesMean
<1>5. /\ DOMAIN outcomes = DOMAIN old \union {t} /\ outcomes[t] = "skipped"
      /\ \A u \in DOMAIN old : u # t => outcomes[u] = old[u]
  BY <1>1 DEF Insert, Upsert
<1>6. Ready(w, outcomes) = {}
  <2>1. Ready(w, outcomes) \subseteq Ready(w, old)
    BY <1>3, <1>5 DEF Ready
  <2> QED
    BY <1>4, <2>1
<1>7. {c \in DOMAIN work' : c[1] = s /\ c[2] = w /\ c[3] = g} = {}
  BY <1>3, <1>4 DEF CoroutinesOf
<1>8. GoesOn(s, w, g, phase, outcomes)
  BY <1>2, <1>3, <1>6, <1>7 DEF GoesOn
<1>9. /\ OutcomesGrow(s, w, g, outcomes)
      /\ TablesRight' /\ Growing /\ UNCHANGED <<workflows, run_jobs, operations>>
  <2>1. <<s, w, g, t>> \notin DOMAIN work'
    BY <1>7
  <2> QED
    BY <1>1, <1>3, <2>1, SkipGrows
<1> QED
  BY <1>1, <1>3, <1>8, <1>9, DecideInv

\* An outcome that the engine does not hear was saved is as true as one it hears of.
LEMMA SaveFailsInv ==
  ASSUME Inv, NEW s \in Scheduler, NEW w \in Workflow, <<s, w>> \in DOMAIN jobs, SaveFails(s, w)
  PROVE  Inv' \/ UNCHANGED runVars
<1>1. PICK g, old : g = jobs[<<s, w>>].generation /\ old = jobs[<<s, w>>].outcomes
  OBVIOUS
<1>2. /\ jobs' = [jobs EXCEPT ![<<s, w>>].phase = "failing"]
      /\ work' = Delete(work, CoroutinesOf(s, w, g))
      /\ faults < MaxFaults /\ faults' = faults + 1
      /\ UNCHANGED <<clock, resources, leaseVars, messagingVars, commitVars, keepers, tokens,
                     lost, orphaned>>
  BY <1>1 DEF SaveFails, Phase, Drops, Fault
<1>3. \A outcomes : GoesOn(s, w, g, "failing", outcomes)
  <2>1. [jobs[<<s, w>>] EXCEPT !.phase = "failing"] = Job("failing", g, old)
    <3>1. jobs[<<s, w>>] \in EngineRow
      BY DEF Inv, TypeOK, EngineTypeOK, IsTable
    <3> QED
      BY <1>1, <3>1 DEF EngineRow, Job
  <2>2. jobs' = [jobs EXCEPT ![<<s, w>>] = Job("failing", g, old)]
    BY <1>2, <2>1
  <2>3. \A x \in DOMAIN work' : x \in DOMAIN work /\ work'[x] = work[x]
    BY <1>2 DEF Delete
  <2> QED
    BY <1>1, <1>2, <2>2, <2>3 DEF GoesOn
<1>4. \A t : <<s, w, g, t>> \notin DOMAIN work'
  BY <1>2 DEF Delete, CoroutinesOf
<1>5. ASSUME jobs[<<s, w>>].phase = "saving", NEW c \in CoroutinesOf(s, w, g),
             SaveOutcome(w, c[4], work[c].verdict, g)
      PROVE  Inv'
  <2>1. PICK t \in Task : c = <<s, w, g, t>> /\ t = c[4] /\ c \in DOMAIN work
    BY <1>5 DEF CoroutinesOf, Inv, TypeOK, EngineTypeOK
  <2>2. PICK outcomes : outcomes = Insert(old, t, work[c].verdict)
    OBVIOUS
  <2>3. /\ OutcomesGrow(s, w, g, outcomes)
        /\ TablesRight' /\ Growing /\ UNCHANGED <<workflows, run_jobs, operations>>
    BY <1>1, <1>2, <1>4, <1>5, <2>1, <2>2, ResultGrows
  <2> QED
    BY <1>1, <1>3, <1>5, <2>3, DecideInv
<1>6. ASSUME jobs[<<s, w>>].phase = "skipping", NEW t \in DOMAIN TasksOf(w) \ DOMAIN old,
             SaveOutcome(w, t, "skipped", g)
      PROVE  Inv'
  <2>1. PICK j \in DOMAIN jobs : j = <<s, w>>
    OBVIOUS
  <2>2. t \in Task
    BY <2>1, <1>6, TasksTyped DEF Inv, Known
  <2>3. PICK outcomes : outcomes = Insert(old, t, "skipped")
    OBVIOUS
  <2>4. /\ OutcomesGrow(s, w, g, outcomes)
        /\ TablesRight' /\ Growing /\ UNCHANGED <<workflows, run_jobs, operations>>
    BY <1>1, <1>2, <1>4, <1>6, <2>2, <2>3, SkipGrows
  <2> QED
    BY <1>1, <1>3, <1>6, <2>4, DecideInv
<1> QED
  BY <1>1, <1>5, <1>6 DEF SaveFails, In

-----------------------------------------------------------------------------
(* A commit.                                                                 *)

\* What writes make of existing resources.
LEMMA PreparedRows ==
  ASSUME IsTable(resources, Key, Resource), NEW writes, DOMAIN writes \subseteq DOMAIN resources,
         WritesValid(Prepared(writes))
  PROVE  IsTable(Prepared(writes), Key, Resource)
<1>1. PICK new : new = Prepared(writes)
  OBVIOUS
<1>2. DOMAIN new = DOMAIN writes /\ new = [k \in DOMAIN new |-> new[k]]
  BY <1>1 DEF Prepared
<1>3. ASSUME NEW k \in DOMAIN writes
      PROVE  k \in Key /\ new[k] \in Resource
  <2>1. PICK json_schema : json_schema = SchemaFor(k, writes[k])
    OBVIOUS
  <2>2. new[k] = [value |-> writes[k].value, json_schema |-> json_schema,
                  version |-> resources[k].version + 1,
                  schema_version |-> IF json_schema = resources[k].json_schema
                                     THEN resources[k].schema_version
                                     ELSE resources[k].schema_version + 1]
    BY <1>1, <1>3, <2>1 DEF Prepared
  <2>3. /\ k \in Key
        /\ resources[k].version + 1 \in Nat \ {0} /\ resources[k].schema_version \in Nat \ {0}
        /\ resources[k].schema_version + 1 \in Nat \ {0}
    BY <1>3 DEF IsTable, Resource
  <2>4. new[k].value \in Value /\ new[k].json_schema \in Schema
    <3>1. <<new[k].value, new[k].json_schema>> \in Conforming
      BY <1>1, <1>2, <1>3 DEF WritesValid, Validates
    <3> QED
      BY <3>1, ConformingAssumption
  <2>5. new[k].value = writes[k].value /\ new[k].json_schema = json_schema
    BY <2>2
  <2> QED
    BY <2>2, <2>3, <2>4, <2>5 DEF Resource
<1> QED
  BY <1>1, <1>2, <1>3 DEF IsTable

\* New deliveries, and acknowledged ones.
LEMMA CommittedDeliveries ==
  ASSUME MessagingTablesOK, clock \in Nat, NEW owner \in Owner, NEW w \in Workflow,
         NEW op \in Task, NEW envelopes \in SUBSET Envelope, NEW acknowledgements,
         deliveries' = Consumed(StageEnvelopes(w, op, envelopes), acknowledgements),
         UNCHANGED channels
  PROVE  MessagingTablesOK'
<1>1. PICK rows, staged : rows = StagedRows(w, op, envelopes) /\ staged = Upsert(deliveries, rows)
  OBVIOUS
<1>2. IsTable(deliveries, DeliveryId, DeliveryRow) /\ IsTable(rows, DeliveryId, DeliveryRow)
  BY <1>1, StagedRowsTypes DEF MessagingTablesOK
<1>3. DOMAIN staged \subseteq DeliveryId /\ \A d \in DOMAIN staged : staged[d] \in DeliveryRow
  BY <1>1, <1>2 DEF IsTable, Upsert
<1>4. /\ DOMAIN deliveries' = DOMAIN staged
      /\ deliveries' = [d \in DOMAIN deliveries' |-> deliveries'[d]]
      /\ \A d \in DOMAIN staged : deliveries'[d] \in {Delivered(staged[d]), staged[d]}
  BY <1>1 DEF Consumed, StageEnvelopes
<1>5. PICK zero \in Nat : zero = 0
  OBVIOUS
<1>6. \A row \in DeliveryRow : Delivered(row) \in DeliveryRow
  BY <1>5, RowUpdates
<1>7. IsTable(deliveries', DeliveryId, DeliveryRow)
  BY <1>3, <1>4, <1>6 DEF IsTable
<1> QED
  BY <1>7 DEF MessagingTablesOK

\* The tables after a commit.
LEMMA CommitTables ==
  ASSUME Inv, NEW r, NEW owner \in Owner, r.workflow \in Workflow, r.operation \in Task,
         r.envelopes \subseteq Envelope, DOMAIN r.reads \subseteq Key, Commit(r), UNCHANGED clock
  PROVE  /\ TablesRight' /\ Growing /\ UNCHANGED <<workflows, run_jobs, task_outcomes>>
         /\ Receipts' = Receipts \union {<<r.workflow, r.operation>>}
<1>1. PICK w, op, new, current, f, id :
        /\ w = r.workflow /\ op = r.operation /\ id = r.attempt
        /\ new = ProposedBy(r) /\ current = CurrentOf(r) /\ f = Transition(current, new)
  OBVIOUS
<1>2. /\ CommitAllowed(r)
      /\ resources' = Upsert(resources, new)
      /\ transitions' = Counted(w, f)
      /\ deliveries' = Consumed(StageEnvelopes(w, op, r.envelopes), r.acknowledgements)
      /\ operations' = Insert(operations, <<w, op>>,
           [fingerprint |-> Fingerprint(r), resources |-> new,
            envelope_ids |-> {<<w, op, e.id>> : e \in r.envelopes}])
      /\ attempts' = [attempts EXCEPT ![id].status = "committed"]
      /\ UNCHANGED <<lease_sequence, leases, workflows, run_jobs, task_outcomes, channels>>
  BY <1>1 DEF Commit, leaseVars
<1>3. /\ IsTable(resources, Key, Resource) /\ attempts \in Seq(AttemptRow)
      /\ MessagingTablesOK /\ LeaseTablesOK /\ RunTablesOK /\ CommitTablesOK /\ clock \in Nat
      /\ w \in Workflow /\ op \in Task
  BY <1>1 DEF Inv, TypeOK, CoordinatorTablesOK, RunTablesOK
<1>4. /\ DOMAIN r.writes \subseteq DOMAIN r.reads /\ DOMAIN r.reads \subseteq DOMAIN resources
      /\ WritesValid(new)
      /\ id \in DOMAIN attempts /\ attempts[id].status = "pending"
      /\ \A a \in r.acknowledgements : a.id \in DOMAIN deliveries
  BY <1>1, <1>2
  DEF CommitAllowed, CommitAuthorised, Budgeted, ReadsFenced, Current, ContentAllowed,
      AcknowledgeAllowed, Held
<1>5. IsTable(new, Key, Resource)
  BY <1>1, <1>3, <1>4, PreparedRows DEF ProposedBy
<1>6. IsTable(resources', Key, Resource)
  BY <1>2, <1>3, <1>5 DEF IsTable, Upsert
<1>7. MessagingTablesOK'
  <2>1. r.envelopes \in SUBSET Envelope /\ UNCHANGED channels
    BY <1>2
  <2> QED
    BY <1>2, <1>3, <2>1, CommittedDeliveries
<1>8. /\ attempts' \in Seq(AttemptRow) /\ DOMAIN attempts' = DOMAIN attempts
      /\ Len(attempts') = Len(attempts) /\ Len(attempts) \in Nat
      /\ \A i \in DOMAIN attempts' :
           /\ attempts'[i].workflow = attempts[i].workflow
           /\ attempts'[i].generation = attempts[i].generation
           /\ attempts'[i].status = "pending" => attempts[i].status = "pending"
  <2>1. PICK row : row = [attempts[id] EXCEPT !.status = "committed"]
    OBVIOUS
  <2>2. attempts[id] \in AttemptRow
    BY <1>3, <1>4
  <2>3. /\ row \in AttemptRow /\ row.workflow = attempts[id].workflow
        /\ row.generation = attempts[id].generation /\ row.status # "pending"
    BY <2>1, <2>2 DEF AttemptRow
  <2>4. attempts' = [attempts EXCEPT ![id] = row]
    BY <1>2, <2>1
  <2> QED
    BY <1>3, <1>4, <2>3, <2>4
<1>9. RunTablesOK' /\ PendingCurrent'
  <2>1. \A x : Generation(x)' = Generation(x)
    BY <1>2 DEF Generation
  <2> QED
    BY <1>2, <1>3, <1>8, <2>1 DEF Inv, RunTablesOK, PendingCurrent
<1>10. LeaseTablesOK'
  BY <1>2, <1>3 DEF LeaseTablesOK
<1>11. \A t \in DOMAIN transitions' :
         /\ t[1] \in Workflow
         /\ IsTable(t[2].reads, Key, Content)
         /\ IsTable(t[2].writes, Key, Content)
         /\ transitions'[t] \in Nat \ {0}
  <2>1. IsTable(current, Key, Resource)
    BY <1>1, <1>3, <1>4 DEF CurrentOf, Snapshot, IsTable
  <2>2. \A t : IsTable(t, Key, Resource) => IsTable(ContentOf(t), Key, Content)
    BY DEF IsTable, ContentOf, Content, Resource
  <2>3. IsTable(f.reads, Key, Content) /\ IsTable(f.writes, Key, Content)
    BY <1>1, <1>5, <2>1, <2>2 DEF Transition
  <2>4. PICK key : key = <<w, f>>
    OBVIOUS
  <2>5. key[1] \in Workflow /\ key[2] = f
    BY <1>3, <2>4
  <2>6. transitions' = Insert(transitions, key,
          IF key \in DOMAIN transitions THEN transitions[key] + 1 ELSE 1)
    BY <1>2, <2>4 DEF Counted
  <2>7. \A t \in DOMAIN transitions : transitions[t] + 1 \in Nat \ {0}
    BY <1>3 DEF CommitTablesOK
  <2> QED
    BY <1>3, <2>3, <2>5, <2>6, <2>7 DEF CommitTablesOK, Insert, Upsert
<1>12. PICK receipt :
         /\ operations' = Insert(operations, <<w, op>>, receipt)
         /\ receipt = [fingerprint |-> Fingerprint(r), resources |-> new,
                       envelope_ids |-> {<<w, op, e.id>> : e \in r.envelopes}]
  BY <1>2
<1>13. Receipt(receipt)
  <2>1. /\ receipt.resources = new
        /\ receipt.envelope_ids = {<<w, op, e.id>> : e \in r.envelopes}
        /\ receipt.fingerprint.reads = r.reads
        /\ receipt.fingerprint.acknowledged = {a.id : a \in r.acknowledgements}
    BY <1>12 DEF Fingerprint
  <2>2. receipt.envelope_ids \subseteq DeliveryId
    BY <1>3, <2>1 DEF DeliveryId, Envelope
  <2>3. receipt.fingerprint.acknowledged \subseteq DeliveryId
    BY <1>3, <1>4, <2>1 DEF MessagingTablesOK, IsTable
  <2> QED
    BY <1>5, <2>1, <2>2, <2>3 DEF Receipt
<1>14. /\ DOMAIN operations' = DOMAIN operations \union {<<w, op>>}
       /\ \A o \in DOMAIN operations' : operations'[o] = receipt \/ (o \in DOMAIN operations
                                                       /\ operations'[o] = operations[o])
  BY <1>12 DEF Insert, Upsert
<1>15. CommitTablesOK'
  <2>1. DOMAIN operations' \subseteq Workflow \X Task
    BY <1>3, <1>14 DEF CommitTablesOK
  <2>2. \A o \in DOMAIN operations' : Receipt(operations'[o])
    BY <1>3, <1>13, <1>14 DEF CommitTablesOK
  <2> QED
    BY <1>11, <2>1, <2>2 DEF CommitTablesOK, Receipt
<1>16. TablesRight'
  BY <1>3, <1>6, <1>7, <1>9, <1>10, <1>15 DEF TablesRight, CoordinatorTablesOK
<1>17. Growing
  BY <1>2, <1>3, <1>8 DEF Growing, LeaseTablesOK
<1> QED
  BY <1>1, <1>2, <1>14, <1>16, <1>17 DEF Receipts

\* The row of a coroutine fits the tables after a step that only adds to them.
LEMMA RowFields ==
  ASSUME Inv, TablesRight', Growing, NEW c \in DOMAIN work
  PROVE  /\ work[c] \in Coroutine(work[c].reads)
         /\ IsTable(work[c].reads, Key, [version : Nat \ {0}, schema_version : Nat \ {0}])
         /\ \A m, n \in work[c].message : m = n
         /\ work[c].attempt \in Nat /\ work[c].attempt <= Len(attempts')
         /\ work[c].lease \in Nat /\ work[c].lease <= lease_sequence'
<1>1. /\ work[c] \in Coroutine(work[c].reads)
      /\ IsTable(work[c].reads, Key, [version : Nat \ {0}, schema_version : Nat \ {0}])
      /\ \A m, n \in work[c].message : m = n
      /\ work[c].attempt <= Len(attempts)
      /\ work[c].lease <= lease_sequence
  BY DEF Inv, TypeOK, EngineTypeOK
<1>2. work[c].attempt \in Nat /\ work[c].lease \in Nat
  BY <1>1 DEF Coroutine
<1>3. /\ Len(attempts) \in Nat /\ Len(attempts') \in Nat
      /\ lease_sequence \in Nat /\ lease_sequence' \in Nat
  BY DEF Inv, TypeOK, TablesRight, CoordinatorTablesOK, RunTablesOK, LeaseTablesOK
<1> QED
  BY <1>1, <1>2, <1>3 DEF Growing

\* A coroutine that goes to another place with another verdict keeps what it holds.
Going(c, at, verdict) == [work[c] EXCEPT !.at = at, !.verdict = verdict]

\* A coroutine that keeps its locals keeps their types.
LEMMA RowMoves ==
  ASSUME Inv, TablesRight', Growing, NEW c \in DOMAIN work, NEW at \in Places,
         NEW verdict \in Verdict, NEW row, row = Going(c, at, verdict)
  PROVE  RowTyped(row) /\ row.at = at /\ row.verdict = verdict
<1>1. PICK reads : reads = work[c].reads
  OBVIOUS
<1>2. work[c] \in Coroutine(reads)
  BY <1>1, RowFields
<1>3. /\ row \in Coroutine(reads) /\ row.at = at /\ row.verdict = verdict
      /\ row.reads = reads /\ row.message = work[c].message
      /\ row.attempt = work[c].attempt /\ row.lease = work[c].lease
  BY <1>2 DEF Coroutine, Going
<1> QED
  BY <1>1, <1>3, RowFields DEF RowTyped

\* A coroutine, its run and its task.
LEMMA CoroutineTyped ==
  ASSUME Inv, NEW c \in DOMAIN work
  PROVE  /\ c[1] \in Scheduler /\ c[2] \in Workflow /\ c[3] \in 1..MaxGeneration /\ c[4] \in Task
         /\ c = <<c[1], c[2], c[3], c[4]>>
         /\ c[2] \in DOMAIN run_jobs /\ c[2] \in DOMAIN workflows /\ c[4] \in DOMAIN TasksOf(c[2])
         /\ workflows[c[2]].specification \in Specification
         /\ NameOf(c) \in Owner
<1>1. /\ c \in Scheduler \X Workflow \X (1..MaxGeneration) \X Task
      /\ c[2] \in DOMAIN run_jobs /\ c[2] \in DOMAIN workflows /\ c[4] \in DOMAIN TasksOf(c[2])
  BY DEF Inv, Known, TypeOK, EngineTypeOK
<1>2. NameOf(c) \in Owner
  BY <1>1, EngineAssumption DEF NameOf
<1> QED
  BY <1>1, <1>2, TasksTyped

\* Whose request is admitted is the one coroutine of its task under the newest claim.
LEMMA CommitterOwns ==
  ASSUME Inv, NEW c \in DOMAIN work, ExecutionAllowed(c[2], TokenOf(c))
  PROVE  /\ NewestTask(c)
         /\ \A x \in DOMAIN work : NewestTask(x) /\ x[2] = c[2] /\ x[4] = c[4] => x = c
<1>1. /\ TokenOf(c) = run_jobs[c[2]].generation /\ run_jobs[c[2]].owner # NoOwner
      /\ run_jobs[c[2]].generation \in Nat
  BY CoroutineTyped
  DEF ExecutionAllowed, Inv, TypeOK, CoordinatorTablesOK, RunTablesOK, IsTable, JobRow
<1>2. TokenOf(c) = c[3] \/ TokenOf(c) = -1
  BY DEF TokenOf, None
<1>3. NewestTask(c) /\ run_jobs[c[2]].owner = c[1]
  BY <1>1, <1>2 DEF NewestTask, Inv, Ownership
<1>4. ASSUME NEW x \in DOMAIN work, NewestTask(x), x[2] = c[2], x[4] = c[4]
      PROVE  x = c
  <2>1. x[1] = c[1] /\ x[3] = c[3]
    BY <1>1, <1>3, <1>4 DEF NewestTask, Inv, Ownership
  <2> QED
    BY <1>4, <2>1, CoroutineTyped
<1> QED
  BY <1>3, <1>4

\* A commit adds the receipt of the task, whether or not its answer arrives.
LEMMA CommitInv ==
  ASSUME Inv, NEW c \in DOMAIN work, work[c].at = "committing", Commit(Request(c)),
         NEW verdict, Ends(c, verdict),
         \/ verdict = "completed" /\ UNCHANGED <<faults, lost>>
         \/ verdict = "failed" /\ Fault("commit") /\ lost' = lost \union {<<c[2], c[4]>>},
         UNCHANGED <<clock, jobs, keepers, tokens, orphaned>>
  PROVE  Inv'
<1>1. PICK w, t, r : w = c[2] /\ t = c[4] /\ r = Request(c)
  OBVIOUS
<1>2. /\ r.workflow = w /\ r.operation = t /\ r.execution_token = TokenOf(c)
      /\ r.reads = work[c].reads /\ r.envelopes = work[c].plan.envelopes
  BY <1>1 DEF Request
<1>3. w \in Workflow /\ t \in Task /\ NameOf(c) \in Owner
  BY <1>1, CoroutineTyped
<1>4. r.envelopes \subseteq Envelope /\ DOMAIN r.reads \subseteq Key
  <2>1. /\ work[c].plan \in {NoPlan} \union UNION {Plans[x] : x \in Task}
        /\ DOMAIN work[c].reads \subseteq Key
    BY DEF Inv, TypeOK, EngineTypeOK, Coroutine, IsTable
  <2>2. NoPlan.envelopes = {}
    BY DEF NoPlan
  <2> QED
    BY <1>2, <2>1, <2>2, EngineAssumption
<1>5. /\ TablesRight' /\ Growing /\ UNCHANGED <<workflows, run_jobs, task_outcomes>>
      /\ Receipts' = Receipts \union {<<w, t>>}
  BY <1>1, <1>2, <1>3, <1>4, CommitTables
<1>6. ExecutionAllowed(w, TokenOf(c))
  BY <1>1, <1>2 DEF Commit, CommitAllowed, CommitAuthorised
<1>7. /\ NewestTask(c) /\ <<w, t>> \notin DOMAIN task_outcomes
      /\ \A x \in DOMAIN work : NewestTask(x) /\ x[2] = w /\ x[4] = t => x = c
  BY <1>1, <1>6, CommitterOwns DEF Inv, NewestKnows
<1>8. PICK row : row = Going(c, "cleaning", verdict)
  OBVIOUS
<1>9. RowTyped(row) /\ row.at = "cleaning" /\ row.verdict = verdict
  <2>1. PICK at \in Places, v \in Verdict : at = "cleaning" /\ v = verdict
    BY DEF Places, Verdict
  <2>2. row = Going(c, at, v)
    BY <1>8, <2>1
  <2>3. TablesRight' /\ Growing
    BY <1>5
  <2>4. RowTyped(row) /\ row.at = at /\ row.verdict = v
    BY <2>2, <2>3, RowMoves
  <2> QED
    BY <2>1, <2>4
<1>10. work' = [work EXCEPT ![c] = row]
  BY <1>8 DEF Ends, Goes, Going
<1>11. /\ \A x : TasksOf(x)' = TasksOf(x)
       /\ \A x, u, o : Saved(x, u, o)' = Saved(x, u, o)
       /\ \A x, u : Needs(x, u)' = Needs(x, u)
       /\ \A x, o : Ready(x, o)' = Ready(x, o)
       /\ \A j : NewestJob(j)' = NewestJob(j)
       /\ \A x : NewestTask(x)' = NewestTask(x)
       /\ lost \subseteq lost'
  BY <1>5 DEF TasksOf, Saved, Needs, Ready, NewestJob, NewestTask
<1>12. Known'
  <2>1. ASSUME NEW o \in Receipts' \union DOMAIN task_outcomes'
        PROVE  o[1] \in DOMAIN run_jobs /\ o[2] \in DOMAIN TasksOf(o[1])
    <3>1. CASE o = <<w, t>>
      BY <1>1, <3>1, CoroutineTyped
    <3>2. CASE o # <<w, t>>
      BY <1>5, <3>2 DEF Inv, Known
    <3> QED
      BY <3>1, <3>2
  <2> QED
    BY <1>5, <1>10, <1>11, <2>1 DEF Inv, Known
<1>13. Ownership' /\ Remembered'
  BY <1>5, <1>10, <1>11 DEF Inv, Ownership, Remembered
<1>14. PhasesMean'
  <2> SUFFICES ASSUME NEW j \in DOMAIN jobs'
               PROVE  LET phase == jobs'[j].phase
                          mine == CoroutinesOf(j[1], j[2], jobs[j].generation)' IN
                        /\ phase \in {"claimed", "provisioning", "skipping", "finishing"} => mine = {}
                        /\ phase = "saving" => \A x \in mine : work'[x].at = "done"
                        /\ phase = "skipping" => Ready(j[2], jobs[j].outcomes)' = {}
                        /\ phase = "finishing" =>
                             DOMAIN TasksOf(j[2])' \subseteq DOMAIN jobs'[j].outcomes
    BY DEF PhasesMean
  <2>1. /\ j \in DOMAIN jobs /\ jobs'[j] = jobs[j] /\ TasksOf(j[2])' = TasksOf(j[2])
        /\ CoroutinesOf(j[1], j[2], jobs[j].generation)' =
             CoroutinesOf(j[1], j[2], jobs[j].generation)
        /\ Ready(j[2], jobs[j].outcomes)' = Ready(j[2], jobs[j].outcomes)
    BY <1>10, <1>11 DEF CoroutinesOf, Ready
  <2>2. \A x \in DOMAIN work : work[x].at = "done" => work'[x].at = "done"
    BY <1>10
  <2> QED
    BY <2>1, <2>2 DEF Inv, PhasesMean, CoroutinesOf
<1>15. VerdictsTrue'
  <2> SUFFICES ASSUME NEW x \in DOMAIN work'
               PROVE  /\ work'[x].verdict = "completed" => <<x[2], x[4]>> \in Receipts'
                      /\ work'[x].verdict # "none" <=> work'[x].at \in {"cleaning", "done"}
                      /\ work'[x].at = "done" => work'[x].verdict \in {"completed", "failed"}
                      /\ \A d \in Needs(x[2], x[4]) : Saved(x[2], d, "completed")
    BY <1>11 DEF VerdictsTrue
  <2>1. x \in DOMAIN work
    BY <1>10
  <2>2. CASE x = c
    BY <1>1, <1>5, <1>9, <1>10, <2>1, <2>2 DEF Inv, VerdictsTrue
  <2>3. CASE x # c
    BY <1>5, <1>10, <2>1, <2>3 DEF Inv, VerdictsTrue
  <2> QED
    BY <2>2, <2>3
<1>16. NewestKnows'
  <2> SUFFICES ASSUME NEW x \in DOMAIN work', NewestTask(x)
               PROVE  /\ <<x[2], x[4]>> \notin DOMAIN task_outcomes
                      /\ /\ <<x[2], x[4]>> \in Receipts'
                         /\ work'[x].at \notin {"waiting", "raised"}
                         => work'[x].verdict = "completed" \/ <<x[2], x[4]>> \in lost'
    BY <1>5, <1>11 DEF NewestKnows
  <2>1. x \in DOMAIN work
    BY <1>10
  <2>2. CASE x = c
    BY <1>1, <1>7, <1>9, <1>10, <2>1, <2>2
  <2>3. CASE x # c
    <3>1. ~(x[2] = w /\ x[4] = t)
      BY <1>7, <2>1, <2>3
    <3>2. <<x[2], x[4]>> \in Receipts' => <<x[2], x[4]>> \in Receipts
      BY <1>5, <3>1
    <3> QED
      BY <1>10, <1>11, <2>1, <2>3, <3>2 DEF Inv, NewestKnows
  <2> QED
    BY <2>2, <2>3
<1>17. ReceiptsFollow'
  <2> SUFFICES ASSUME NEW o \in Receipts', NEW d \in Needs(o[1], o[2])
               PROVE  Saved(o[1], d, "completed")
    BY <1>11 DEF ReceiptsFollow
  <2>1. CASE o = <<w, t>>
    BY <1>1, <2>1 DEF Inv, VerdictsTrue
  <2>2. CASE o # <<w, t>>
    BY <1>5, <2>2 DEF Inv, ReceiptsFollow
  <2> QED
    BY <2>1, <2>2
<1>18. CompletedSaved' /\ SkippedOnlyAfterFailure'
  BY <1>5, <1>11 DEF Inv, CompletedSaved, SkippedOnlyAfterFailure
<1>19. OutcomesMatchReceipts'
  BY <1>5, <1>7, <1>11 DEF Inv, OutcomesMatchReceipts
<1>20. TypeOK'
  <2>1. IsTable(jobs', Scheduler \X Workflow, EngineRow)
    BY DEF Inv, TypeOK, EngineTypeOK
  <2>2. DOMAIN work' \subseteq Scheduler \X Workflow \X (1..MaxGeneration) \X Task
    BY <1>10 DEF Inv, TypeOK, EngineTypeOK
  <2>3. \A x \in DOMAIN work' : (x \in DOMAIN work /\ work'[x] = work[x]) \/ RowTyped(work'[x])
    BY <1>9, <1>10
  <2>4. /\ keepers' \union tokens' \subseteq Scheduler \X Workflow \X (1..MaxGeneration)
        /\ orphaned' \subseteq HoldingRow
        /\ faults' \in 0..MaxFaults
    BY EngineAssumption DEF Inv, TypeOK, EngineTypeOK, Fault
  <2>5. lost' \subseteq Workflow \X Task
    BY <1>1, <1>3 DEF Inv, TypeOK, EngineTypeOK
  <2> QED
    BY <1>5, <2>1, <2>2, <2>3, <2>4, <2>5, EngineTypes DEF Inv
<1> QED
  BY <1>5, <1>12, <1>13, <1>14, <1>15, <1>16, <1>17, <1>18, <1>19, <1>20 DEF Inv, TablesRight

-----------------------------------------------------------------------------
(* What makes a step of a coroutine a quiet one.                             *)

\* The coroutine has the receipt of its task in its verdict, or the answer was lost.
Answers(c, verdict) ==
  NewestTask(c) /\ <<c[2], c[4]>> \in Receipts => verdict = "completed" \/ <<c[2], c[4]>> \in lost

\* A coroutine that is past its start has done all that its task has a receipt for.
LEMMA UnderWay ==
  ASSUME Inv, NEW c \in DOMAIN work, work[c].at \notin {"waiting", "raised"}
  PROVE  Answers(c, work[c].verdict)
BY DEF Answers, Inv, NewestKnows

\* A coroutine that settles has a verdict the tables agree with.
LEMMA SettlesQuiet ==
  ASSUME TablesRight', NEW c \in DOMAIN work, NEW verdict \in {"completed", "failed"},
         Settles(c, verdict), work[c].at # "done",
         verdict = "completed" => <<c[2], c[4]>> \in Receipts, Answers(c, verdict)
  PROVE  WorkQuiet
<1>1. CASE Gathering(c)
  <2>1. PICK at \in Places, v \in Verdict : at = "done" /\ v = verdict
    BY DEF Places, AwaitingPlaces, Verdict
  <2>2. PICK row : row = [Fresh(at) EXCEPT !.verdict = v]
    OBVIOUS
  <2>3. RowTyped(row)
    BY <2>2, FreshTyped
  <2>4. row.at = "done" /\ row.verdict = verdict
    BY <2>1, <2>2 DEF Fresh
  <2>5. RowTrue(c, row)
    BY <2>4 DEF RowTrue, Answers
  <2>6. work' = [work EXCEPT ![c] = row]
    BY <1>1, <2>1, <2>2 DEF Settles
  <2> QED
    BY <2>3, <2>5, <2>6, CoroutineGoes
<1>2. CASE ~Gathering(c)
  BY <1>2, WorkDeleted DEF Settles
<1> QED
  BY <1>1, <1>2

\* A new iteration, or the place after one that failed.
LEMMA FreshQuiet ==
  ASSUME TablesRight', NEW c \in DOMAIN work, NEW at \in Places \ {"cleaning", "done"},
         work' = [work EXCEPT ![c] = Fresh(at)], work[c].at # "done",
         at = "raised" \/ Answers(c, "none")
  PROVE  WorkQuiet
<1>1. RowTyped(Fresh(at))
  BY FreshTyped DEF Verdict
<1>2. Fresh(at).at = at /\ Fresh(at).verdict = "none"
  BY DEF Fresh
<1>3. RowTrue(c, Fresh(at))
  BY <1>2 DEF RowTrue, Answers
<1> QED
  BY <1>1, <1>3, CoroutineGoes

\* The iteration has come to something.
LEMMA EndsQuiet ==
  ASSUME Inv, TablesRight', Growing, NEW c \in DOMAIN work, NEW verdict \in Verdict \ {"none"},
         Ends(c, verdict), work[c].at \notin {"waiting", "raised", "done", "cleaning"},
         verdict = "completed" => <<c[2], c[4]>> \in Receipts
  PROVE  WorkQuiet
<1>1. PICK at, row : at = "cleaning" /\ at \in Places /\ row = Going(c, at, verdict)
  BY DEF Places
<1>2. RowTyped(row) /\ row.at = at /\ row.verdict = verdict
  BY <1>1, RowMoves
<1>3. Answers(c, "none")
  BY UnderWay DEF Inv, VerdictsTrue
<1>4. RowTrue(c, row)
  BY <1>1, <1>2, <1>3 DEF RowTrue, Answers
<1>5. work' = [work EXCEPT ![c] = row]
  BY <1>1 DEF Ends, Goes, Going
<1> QED
  BY <1>2, <1>4, <1>5, CoroutineGoes

\* The iteration goes on with more in its row than before.
LEMMA GoesOnQuiet ==
  ASSUME Inv, NEW c \in DOMAIN work, NEW row, Goes(c, row), RowTyped(row),
         work[c].at \notin {"waiting", "raised", "done", "cleaning"},
         row.at \notin {"done", "cleaning"}, row.verdict = work[c].verdict
  PROVE  WorkQuiet
<1>1. work[c].verdict = "none" /\ Answers(c, "none")
  BY UnderWay DEF Inv, VerdictsTrue
<1>2. RowTrue(c, row)
  BY <1>1 DEF RowTrue, Answers
<1>3. work' = [work EXCEPT ![c] = row]
  BY DEF Goes
<1> QED
  BY <1>2, <1>3, CoroutineGoes

\* Steps of coroutines that leave the engine and its history alone.
LEMMA TaskInv ==
  ASSUME Inv, TablesRight', Growing, RunsQuiet, WorkQuiet,
         UNCHANGED <<task_outcomes, operations, jobs, keepers, tokens, faults, lost,
                     orphaned>>
  PROVE  Inv'
<1>1. JobsQuiet /\ RestQuiet
  BY JobsKept, RestKept DEF Orphans
<1> QED
  BY <1>1, QuietInv

\* And those that leave the tables alone as well.
LEMMA TablesStay ==
  ASSUME Inv, UNCHANGED <<clock, tableVars>>
  PROVE  /\ TablesRight' /\ Growing /\ RunsQuiet
         /\ UNCHANGED <<task_outcomes, operations>>
<1>1. UNCHANGED tableVars /\ clock' \in Nat
  BY DEF Inv, TypeOK
<1> QED
  BY <1>1, TablesKept

-----------------------------------------------------------------------------
(* The steps of Engine._execute.                                             *)

\* A coroutine that tries again starts its next iteration.
LEMMA TriesQuiet ==
  ASSUME TablesRight', NEW c \in DOMAIN work, Tries(c), work[c].at # "done", Answers(c, "none")
  PROVE  WorkQuiet
<1>1. CASE Cardinality(AttemptsOf(c[2], c[4])) < TaskOf(c).max_attempts
  <2>1. PICK at \in Places \ {"cleaning", "done"} :
          at = IF TaskOf(c).inbox = NoInbox THEN "beginning" ELSE "listening"
    BY DEF Places, AwaitingPlaces
  <2>2. work' = [work EXCEPT ![c] = Fresh(at)]
    BY <1>1, <2>1 DEF Tries, Goes
  <2> QED
    BY <2>2, FreshQuiet
<1>2. CASE ~(Cardinality(AttemptsOf(c[2], c[4])) < TaskOf(c).max_attempts)
  <2>1. Settles(c, "failed") /\ Answers(c, "failed")
    BY <1>2 DEF Tries, Answers
  <2> QED
    BY <2>1, SettlesQuiet
<1> QED
  BY <1>1, <1>2

\* A coroutine gets a slot of the semaphore.
LEMMA StartsInv ==
  ASSUME Inv, NEW c \in DOMAIN work, Starts(c)
  PROVE  Inv'
<1>1. work[c].at = "waiting" /\ UNCHANGED <<clock, tableVars, jobs, keepers, tokens,
                                            faults, lost, orphaned>>
  BY DEF Starts, At
<1>2. TablesRight' /\ Growing /\ RunsQuiet /\ UNCHANGED <<task_outcomes, operations>>
  BY <1>1, TablesStay
<1>3. WorkQuiet
  <2>1. CASE Cached(c[2], c[4])
    <3>1. /\ Settles(c, "completed") /\ Answers(c, "completed")
          /\ <<c[2], c[4]>> \in Receipts
      BY <2>1 DEF Starts, Cached, Answers, Receipts
    <3> QED
      BY <1>1, <1>2, <3>1, SettlesQuiet
  <2>2. CASE ~Cached(c[2], c[4])
    <3>1. Tries(c) /\ Answers(c, "none")
      BY <2>2 DEF Starts, Cached, Answers, Receipts
    <3> QED
      BY <1>1, <1>2, <3>1, TriesQuiet
  <2> QED
    BY <2>1, <2>2
<1> QED
  BY <1>1, <1>2, <1>3, TaskInv

\* A coroutine wakes from the pause between two attempts.
LEMMA RetriesInv ==
  ASSUME Inv, NEW c \in DOMAIN work, Retries(c)
  PROVE  Inv'
<1>1. /\ work[c].at = "sleeping" /\ Tries(c)
      /\ UNCHANGED <<clock, tableVars, jobs, keepers, tokens, faults, lost, orphaned>>
  BY DEF Retries, At
<1>2. TablesRight' /\ Growing /\ RunsQuiet /\ UNCHANGED <<task_outcomes, operations>>
  BY <1>1, TablesStay
<1>3. Answers(c, "none")
  BY <1>1, UnderWay DEF Inv, VerdictsTrue
<1>4. WorkQuiet
  BY <1>1, <1>2, <1>3, TriesQuiet
<1> QED
  BY <1>1, <1>2, <1>4, TaskInv

\* A coroutine stops polling its inbox.
LEMMA StopsListeningInv ==
  ASSUME Inv, NEW c \in DOMAIN work, StopsListening(c)
  PROVE  Inv'
<1>1. /\ work[c].at = "listening" /\ Settles(c, "failed")
      /\ UNCHANGED <<clock, tableVars, jobs, keepers, tokens, faults, lost, orphaned>>
  BY DEF StopsListening, At
<1>2. TablesRight' /\ Growing /\ RunsQuiet /\ UNCHANGED <<task_outcomes, operations>>
  BY <1>1, TablesStay
<1>3. Answers(c, "failed")
  BY <1>1, UnderWay DEF Inv, VerdictsTrue, Answers
<1>4. WorkQuiet
  BY <1>1, <1>2, <1>3, SettlesQuiet
<1> QED
  BY <1>1, <1>2, <1>4, TaskInv

\* Messages are received, or buried.
LEMMA ReceivesInv ==
  ASSUME Inv, NEW c \in DOMAIN work, Receives(c)
  PROVE  Inv'
<1>1. PICK inbox, me, w : inbox = TaskOf(c).inbox /\ me = NameOf(c) /\ w = c[2]
  OBVIOUS
<1>2. /\ work[c].at = "listening"
      /\ \/ \E id \in DOMAIN deliveries :
              /\ ClaimDelivery(id, "message", inbox, me, InboxTtl, {w})
              /\ Goes(c, [work[c] EXCEPT !.at = "beginning",
                   !.message = {[id |-> id, owner |-> me, token |-> deliveries[id].token + 1]}])
         \/ ClaimNothing("message", inbox, {w}) /\ UNCHANGED work
      /\ UNCHANGED <<clock, resources, leaseVars, runVars, commitVars, jobs, keepers,
                     tokens, faults, lost, orphaned>>
  BY <1>1 DEF Receives, At
<1>3. /\ MessagingTablesOK /\ clock \in Nat /\ InboxTtl \in Nat /\ me \in Owner
      /\ IsTable(deliveries, DeliveryId, DeliveryRow)
  BY <1>1, CoroutineTyped, EngineAssumption
  DEF Inv, TypeOK, CoordinatorTablesOK, MessagingTablesOK
<1>4. ASSUME NEW id \in DOMAIN deliveries, ClaimDelivery(id, "message", inbox, me, InboxTtl, {w}),
             Goes(c, [work[c] EXCEPT !.at = "beginning",
                   !.message = {[id |-> id, owner |-> me, token |-> deliveries[id].token + 1]}])
      PROVE  Inv'
  <2>1. MessagingTablesOK'
    BY <1>3, <1>4, ClaimDeliveryTypes
  <2>2. TablesRight' /\ Growing /\ RunsQuiet /\ UNCHANGED <<task_outcomes, operations>>
    BY <1>2, <2>1, MessagingStep
  <2>3. PICK m : m = [id |-> id, owner |-> me, token |-> deliveries[id].token + 1]
    OBVIOUS
  <2>4. m \in [id : DeliveryId, owner : Owner, token : Nat \ {0}]
    <3>1. id \in DeliveryId /\ deliveries[id].token + 1 \in Nat \ {0}
      BY <1>3 DEF IsTable, DeliveryRow
    <3> QED
      BY <1>3, <2>3, <3>1
  <2>5. PICK reads, row :
          reads = work[c].reads /\ row = [work[c] EXCEPT !.at = "beginning", !.message = {m}]
    OBVIOUS
  <2>6. work[c] \in Coroutine(reads)
    BY <2>2, <2>5, RowFields
  <2>7. /\ row \in Coroutine(reads) /\ row.at = "beginning" /\ row.verdict = work[c].verdict
        /\ row.reads = reads /\ row.message = {m}
        /\ row.attempt = work[c].attempt /\ row.lease = work[c].lease
    BY <2>4, <2>5, <2>6 DEF Coroutine, Claim, Places
  <2>8. RowTyped(row)
    BY <2>2, <2>5, <2>7, RowFields DEF RowTyped
  <2>9. Goes(c, row)
    BY <1>4, <2>3, <2>5
  <2>10. WorkQuiet
    BY <1>2, <2>7, <2>8, <2>9, GoesOnQuiet
  <2> QED
    BY <1>2, <2>2, <2>10, TaskInv
<1>5. ASSUME ClaimNothing("message", inbox, {w}), UNCHANGED work
      PROVE  Inv'
  <2>1. MessagingTablesOK'
    BY <1>3, <1>5, ClaimNothingTypes
  <2>2. TablesRight' /\ Growing /\ RunsQuiet /\ UNCHANGED <<task_outcomes, operations>>
    BY <1>2, <2>1, MessagingStep
  <2> QED
    BY <1>2, <1>5, <2>2, WorkKept, TaskInv
<1> QED
  BY <1>2, <1>4, <1>5

\* A coroutine begins an attempt, or is refused one.
LEMMA BeginsInv ==
  ASSUME Inv, NEW c \in DOMAIN work, Begins(c)
  PROVE  Inv'
<1>1. PICK w, t, me, token : w = c[2] /\ t = c[4] /\ me = NameOf(c) /\ token = TokenOf(c)
  OBVIOUS
<1>2. /\ work[c].at = "beginning"
      /\ \/ /\ BeginAttempt(w, t, me, token)
            /\ Goes(c, [work[c] EXCEPT !.at = "reading", !.attempt = Len(attempts) + 1])
         \/ Ends(c, "failed") /\ UNCHANGED runVars
      /\ UNCHANGED <<clock, resources, leaseVars, messagingVars, commitVars, jobs, keepers, tokens,
                     faults, lost, orphaned>>
  BY <1>1 DEF Begins, At
<1>3. w \in Workflow /\ t \in Task /\ me \in Owner /\ token \in ExecutionToken
  BY <1>1, CoroutineTyped DEF TokenOf, ExecutionToken
<1>4. ASSUME BeginAttempt(w, t, me, token),
             Goes(c, [work[c] EXCEPT !.at = "reading", !.attempt = Len(attempts) + 1])
      PROVE  Inv'
  <2>1. RunsOK' /\ RunsForward
    BY <1>3, <1>4, RunsAreOK, BeginAttemptForward
  <2>2. TablesRight' /\ Growing
    BY <1>2, <2>1, RunTablesStep
  <2>3. RunsQuiet /\ UNCHANGED <<task_outcomes, operations>>
    <3>1. /\ UNCHANGED <<run_jobs, task_outcomes, operations>>
          /\ DOMAIN workflows' = DOMAIN workflows
      BY <1>2, <1>4 DEF BeginAttempt, commitVars
    <3>2. \A x \in DOMAIN workflows : workflows'[x].status = workflows[x].status
      <4>1. PICK steps, run :
              steps = workflows[w].steps + 1 /\ run = [workflows[w] EXCEPT !.steps = steps]
        OBVIOUS
      <4>2. workflows' = [workflows EXCEPT ![w] = run]
        BY <1>4, <4>1 DEF BeginAttempt
      <4>3. w \in DOMAIN workflows => workflows[w] \in WorkflowRow
        BY DEF Inv, TypeOK, CoordinatorTablesOK, RunTablesOK, IsTable
      <4>4. w \in DOMAIN workflows => run.status = workflows[w].status
        BY <4>1, <4>3 DEF WorkflowRow
      <4> QED
        BY <4>2, <4>4
    <3> QED
      BY <2>1, <3>1, <3>2, RunsMove
  <2>4. Len(attempts') = Len(attempts) + 1 /\ Len(attempts) + 1 \in Nat
    BY <1>4 DEF BeginAttempt, Inv, TypeOK, CoordinatorTablesOK, RunTablesOK
  <2>5. PICK n, reads, row :
          /\ n = Len(attempts) + 1 /\ reads = work[c].reads
          /\ row = [work[c] EXCEPT !.at = "reading", !.attempt = n]
    OBVIOUS
  <2>6. work[c] \in Coroutine(reads)
    BY <2>2, <2>5, RowFields
  <2>7. /\ row \in Coroutine(reads) /\ row.at = "reading" /\ row.verdict = work[c].verdict
        /\ row.reads = reads /\ row.message = work[c].message
        /\ row.attempt = n /\ row.lease = work[c].lease
    BY <2>4, <2>5, <2>6 DEF Coroutine, Places
  <2>8. RowTyped(row)
    BY <2>2, <2>4, <2>5, <2>7, RowFields DEF RowTyped
  <2>9. Goes(c, row)
    BY <1>4, <2>5
  <2>10. WorkQuiet
    BY <1>2, <2>7, <2>8, <2>9, GoesOnQuiet
  <2> QED
    BY <1>2, <2>2, <2>3, <2>10, TaskInv
<1>5. ASSUME Ends(c, "failed"), UNCHANGED runVars
      PROVE  Inv'
  <2>1. UNCHANGED <<clock, tableVars>>
    BY <1>2, <1>5 DEF tableVars
  <2>2. TablesRight' /\ Growing /\ RunsQuiet /\ UNCHANGED <<task_outcomes, operations>>
    BY <2>1, TablesStay
  <2>3. WorkQuiet
    BY <1>2, <1>5, <2>2, EndsQuiet DEF Verdict
  <2> QED
    BY <1>2, <2>2, <2>3, TaskInv
<1> QED
  BY <1>2, <1>4, <1>5

\* A coroutine reads the stamps of what its planner sees.
LEMMA ReadsInv ==
  ASSUME Inv, NEW c \in DOMAIN work, Reads(c)
  PROVE  Inv'
<1>1. PICK keys, stamps : keys = TaskOf(c).reads /\ stamps = [k \in keys |-> Stamp(resources[k])]
  OBVIOUS
<1>2. /\ work[c].at = "reading"
      /\ \/ keys \subseteq DOMAIN resources
            /\ Goes(c, [work[c] EXCEPT !.at = "planning", !.reads = stamps])
         \/ Ends(c, "failed")
      /\ UNCHANGED <<clock, tableVars, jobs, keepers, tokens, faults, lost, orphaned>>
  BY <1>1 DEF Reads, At
<1>3. TablesRight' /\ Growing /\ RunsQuiet /\ UNCHANGED <<task_outcomes, operations>>
  BY <1>2, TablesStay
<1>4. ASSUME keys \subseteq DOMAIN resources,
             Goes(c, [work[c] EXCEPT !.at = "planning", !.reads = stamps])
      PROVE  WorkQuiet
  <2>1. IsTable(stamps, Key, [version : Nat \ {0}, schema_version : Nat \ {0}])
    <3>1. keys \subseteq Key
      BY <1>1, CoroutineTyped, EngineAssumption DEF TaskOf, TasksOf
    <3>2. \A k \in keys : resources[k] \in Resource
      BY <1>4 DEF Inv, TypeOK, CoordinatorTablesOK, IsTable
    <3>3. \A k \in keys : Stamp(resources[k]) \in [version : Nat \ {0}, schema_version : Nat \ {0}]
      BY <3>2 DEF Stamp, Resource
    <3> QED
      BY <1>1, <3>1, <3>3 DEF IsTable
  <2>2. PICK reads, row :
          /\ reads = work[c].reads
          /\ row = [work[c] EXCEPT !.at = "planning", !.reads = stamps]
    OBVIOUS
  <2>3. work[c] \in Coroutine(reads)
    BY <1>3, <2>2, RowFields
  <2>4. /\ row \in Coroutine(stamps) /\ row.at = "planning" /\ row.verdict = work[c].verdict
        /\ row.reads = stamps /\ row.message = work[c].message
        /\ row.attempt = work[c].attempt /\ row.lease = work[c].lease
    BY <2>2, <2>3 DEF Coroutine, Places, AwaitingPlaces
  <2>5. RowTyped(row)
    BY <1>3, <2>1, <2>4, RowFields DEF RowTyped
  <2>6. Goes(c, row)
    BY <1>4, <2>2
  <2> QED
    BY <1>2, <2>4, <2>5, <2>6, GoesOnQuiet
<1>5. ASSUME Ends(c, "failed") PROVE WorkQuiet
  BY <1>2, <1>3, <1>5, EndsQuiet DEF Verdict
<1> QED
  BY <1>2, <1>3, <1>4, <1>5, TaskInv

\* The planner returns, raises or is cut off.
LEMMA PlannedInv ==
  ASSUME Inv, NEW c \in DOMAIN work, Planned(c)
  PROVE  Inv'
<1>1. /\ work[c].at = "planning"
      /\ \/ \E plan \in Plans[c[4]] : Goes(c, [work[c] EXCEPT !.at = "leasing", !.plan = plan])
         \/ Ends(c, "failed")
      /\ UNCHANGED <<clock, tableVars, jobs, keepers, tokens, faults, lost, orphaned>>
  BY DEF Planned, At
<1>2. TablesRight' /\ Growing /\ RunsQuiet /\ UNCHANGED <<task_outcomes, operations>>
  BY <1>1, TablesStay
<1>3. ASSUME NEW plan \in Plans[c[4]], Goes(c, [work[c] EXCEPT !.at = "leasing", !.plan = plan])
      PROVE  WorkQuiet
  <2>1. plan \in UNION {Plans[t] : t \in Task}
    BY CoroutineTyped
  <2>2. PICK reads, row :
          reads = work[c].reads /\ row = [work[c] EXCEPT !.at = "leasing", !.plan = plan]
    OBVIOUS
  <2>3. work[c] \in Coroutine(reads)
    BY <1>2, <2>2, RowFields
  <2>4. /\ row \in Coroutine(reads) /\ row.at = "leasing" /\ row.verdict = work[c].verdict
        /\ row.reads = reads /\ row.message = work[c].message
        /\ row.attempt = work[c].attempt /\ row.lease = work[c].lease
    BY <2>1, <2>2, <2>3 DEF Coroutine, Places
  <2>5. RowTyped(row)
    BY <1>2, <2>2, <2>4, RowFields DEF RowTyped
  <2>6. Goes(c, row)
    BY <1>3, <2>2
  <2> QED
    BY <1>1, <2>4, <2>5, <2>6, GoesOnQuiet
<1>4. ASSUME Ends(c, "failed") PROVE WorkQuiet
  BY <1>1, <1>2, <1>4, EndsQuiet DEF Verdict
<1> QED
  BY <1>1, <1>2, <1>3, <1>4, TaskInv

\* A coroutine leases what its plan touches, or is refused.
LEMMA AcquiresInv ==
  ASSUME Inv, NEW c \in DOMAIN work, Acquires(c)
  PROVE  Inv'
<1>1. PICK keys, me : keys = TaskOf(c).reads /\ me = NameOf(c)
  OBVIOUS
<1>2. /\ work[c].at = "leasing"
      /\ \/ /\ Acquire(me, keys, LeaseSeconds)
            /\ Goes(c, [work[c] EXCEPT !.at = "committing", !.lease = NextToken])
         \/ Ends(c, "retry") /\ UNCHANGED leaseVars
      /\ UNCHANGED <<clock, resources, runVars, messagingVars, commitVars, jobs, keepers, tokens,
                     faults, lost, orphaned>>
  BY <1>1 DEF Acquires, At
<1>3. ASSUME Acquire(me, keys, LeaseSeconds),
             Goes(c, [work[c] EXCEPT !.at = "committing", !.lease = NextToken])
      PROVE  Inv'
  <2>1. /\ lease_sequence \in Nat /\ clock \in Nat /\ IsTable(leases, Key, LeaseRow)
        /\ IsTable(resources, Key, Resource) /\ me \in Owner
    BY <1>1, CoroutineTyped DEF Inv, TypeOK, CoordinatorTablesOK, LeaseTablesOK
  <2>2. PICK token, expiry :
          token = lease_sequence + 1 /\ expiry = clock + LeaseSeconds
    OBVIOUS
  <2>3. token \in Nat \ {0} /\ expiry \in Nat /\ token > lease_sequence
    BY <2>1, <2>2, EngineAssumption
  <2>4. PICK granted :
          granted = [k \in keys |-> [owner |-> me, token |-> token, expires_at |-> expiry]]
    OBVIOUS
  <2>5. /\ keys \subseteq DOMAIN resources /\ lease_sequence' = token
        /\ leases' = Upsert(leases, granted)
    BY <1>3, <2>2, <2>4 DEF Acquire, GrantedRows, NextToken
  <2>6. LeaseTablesOK'
    <3>1. [owner |-> me, token |-> token, expires_at |-> expiry] \in LeaseRow
      BY <2>1, <2>3 DEF LeaseRow
    <3>2. DOMAIN granted = keys /\ \A k \in keys : granted[k] \in LeaseRow
      BY <2>4, <3>1
    <3>3. keys \subseteq Key
      BY <2>1, <2>5 DEF IsTable
    <3> QED
      BY <2>1, <2>3, <2>5, <3>2, <3>3 DEF LeaseTablesOK, IsTable, Upsert
  <2>7. TablesRight' /\ Growing /\ RunsQuiet /\ UNCHANGED <<task_outcomes, operations>>
    <3>1. lease_sequence <= lease_sequence'
      BY <2>1, <2>3, <2>5
    <3> QED
      BY <1>2, <2>6, <3>1, LeaseStep
  <2>8. PICK reads, row :
          reads = work[c].reads /\ row = [work[c] EXCEPT !.at = "committing", !.lease = token]
    OBVIOUS
  <2>9. work[c] \in Coroutine(reads)
    BY <2>7, <2>8, RowFields
  <2>10. /\ row \in Coroutine(reads) /\ row.at = "committing" /\ row.verdict = work[c].verdict
         /\ row.reads = reads /\ row.message = work[c].message
         /\ row.attempt = work[c].attempt /\ row.lease = token
    BY <2>3, <2>8, <2>9 DEF Coroutine, Places
  <2>11. RowTyped(row)
    BY <2>3, <2>5, <2>7, <2>8, <2>10, RowFields DEF RowTyped
  <2>12. Goes(c, row)
    BY <1>3, <2>2, <2>8 DEF NextToken
  <2>13. WorkQuiet
    BY <1>2, <2>10, <2>11, <2>12, GoesOnQuiet
  <2> QED
    BY <1>2, <2>7, <2>13, TaskInv
<1>4. ASSUME Ends(c, "retry"), UNCHANGED leaseVars
      PROVE  Inv'
  <2>1. UNCHANGED <<clock, tableVars>>
    BY <1>2, <1>4 DEF tableVars
  <2>2. TablesRight' /\ Growing /\ RunsQuiet /\ UNCHANGED <<task_outcomes, operations>>
    BY <2>1, TablesStay
  <2>3. WorkQuiet
    BY <1>2, <1>4, <2>2, EndsQuiet DEF Verdict
  <2> QED
    BY <1>2, <2>2, <2>3, TaskInv
<1> QED
  BY <1>2, <1>3, <1>4

\* A receipt that answers the request is one.
LEMMA CommitRefusedInv ==
  ASSUME Inv, NEW c \in DOMAIN work, CommitRefused(c)
  PROVE  Inv'
<1>1. PICK verdict \in Verdict \ {"none"} :
        verdict = IF Answered(Request(c)) THEN "completed"
                  ELSE IF /\ Unanswered(Request(c)) /\ CommitAuthorised(Request(c))
                          /\ ~ReadsFenced(Request(c)) THEN "retry"
                  ELSE "failed"
  BY DEF Verdict
<1>2. /\ work[c].at = "committing" /\ Ends(c, verdict)
      /\ UNCHANGED <<clock, tableVars, jobs, keepers, tokens, faults, lost, orphaned>>
  BY <1>1 DEF CommitRefused, At
<1>3. verdict = "completed" => <<c[2], c[4]>> \in Receipts
  BY <1>1 DEF Answered, Unanswered, Request, Receipts
<1>4. TablesRight' /\ Growing /\ RunsQuiet /\ UNCHANGED <<task_outcomes, operations>>
  BY <1>2, TablesStay
<1>5. WorkQuiet
  BY <1>2, <1>3, <1>4, EndsQuiet
<1> QED
  BY <1>2, <1>4, <1>5, TaskInv

\* A cancelled coroutine leaves its iteration.
LEMMA UnwindsInv ==
  ASSUME Inv, NEW c \in DOMAIN work, Unwinds(c)
  PROVE  Inv'
<1>1. /\ work[c].at = "interrupted" /\ Ends(c, "cancelled")
      /\ UNCHANGED <<clock, tableVars, jobs, keepers, tokens, faults, lost, orphaned>>
  BY DEF Unwinds, At
<1>2. TablesRight' /\ Growing /\ RunsQuiet /\ UNCHANGED <<task_outcomes, operations>>
  BY <1>1, TablesStay
<1>3. WorkQuiet
  BY <1>1, <1>2, EndsQuiet DEF Verdict
<1> QED
  BY <1>1, <1>2, <1>3, TaskInv

\* What is given back leaves the place and the verdict.
LEMMA GivenBackQuiet ==
  ASSUME Inv, NEW c \in DOMAIN work, NEW row, Goes(c, row), RowTyped(row),
         work[c].at = "cleaning", row.at = work[c].at, row.verdict = work[c].verdict
  PROVE  WorkQuiet
<1>1. RowTrue(c, row)
  BY DEF Inv, VerdictsTrue, NewestKnows, RowTrue
<1>2. work' = [work EXCEPT ![c] = row]
  BY DEF Goes
<1> QED
  BY <1>1, <1>2, CoroutineGoes

\* release only ends leases.
LEMMA ReleaseStep ==
  ASSUME Inv, NEW owner, NEW token, Release(owner, token),
         UNCHANGED <<clock, resources, runVars, messagingVars, commitVars>>
  PROVE  TablesRight' /\ Growing /\ RunsQuiet /\ UNCHANGED <<task_outcomes, operations>>
<1>1. lease_sequence \in Nat /\ IsTable(leases, Key, LeaseRow)
  BY DEF Inv, TypeOK, CoordinatorTablesOK, LeaseTablesOK
<1>2. LeaseTablesOK' /\ lease_sequence <= lease_sequence'
  BY <1>1 DEF Release, Delete, IsTable, LeaseTablesOK
<1> QED
  BY <1>2, LeaseStep

\* abandon_attempt ends one attempt and keeps its number.
LEMMA AbandonStep ==
  ASSUME Inv, NEW id \in DOMAIN attempts, AbandonAttempt(id),
         UNCHANGED <<clock, resources, leaseVars, messagingVars, commitVars>>
  PROVE  TablesRight' /\ Growing /\ RunsQuiet /\ UNCHANGED <<task_outcomes, operations>>
<1>1. RunsOK' /\ RunsForward
  BY RunsAreOK, AbandonAttemptForward
<1>2. TablesRight' /\ Growing
  BY <1>1, RunTablesStep
<1>3. UNCHANGED <<workflows, run_jobs, task_outcomes, operations>>
  BY DEF AbandonAttempt, commitVars
<1>4. RunsQuiet
  BY <1>1, <1>3, RunsMove
<1> QED
  BY <1>2, <1>3, <1>4

\* A coroutine gives back its lease, its attempt and its message.
LEMMA CleansInv ==
  ASSUME Inv, NEW c \in DOMAIN work, Cleans(c)
  PROVE  Inv'
<1>1. /\ work[c].at = "cleaning"
      /\ UNCHANGED <<clock, resources, commitVars, jobs, keepers, tokens, faults, lost,
                     orphaned>>
  BY DEF Cleans, At
<1>2. PICK reads : reads = work[c].reads
  OBVIOUS
<1>3. /\ MessagingTablesOK /\ clock \in Nat
      /\ \A m \in work[c].message : m.owner \in Owner
      /\ work[c] \in Coroutine(reads)
      /\ work[c].attempt # 0 => work[c].attempt \in DOMAIN attempts
  BY <1>2 DEF Inv, TypeOK, CoordinatorTablesOK, EngineTypeOK, Coroutine, Claim, RunTablesOK
<1>4. CASE \E m \in work[c].message :
             \/ RejectDelivery(m.id, m.owner, m.token, 0) /\ UNCHANGED <<leaseVars, runVars>>
                  /\ Goes(c, [work[c] EXCEPT !.message = {}])
             \/ UNCHANGED <<messagingVars, leaseVars, runVars>>
                  /\ Goes(c, [work[c] EXCEPT !.message = {}])
  <2>1. TablesRight' /\ Growing /\ RunsQuiet /\ UNCHANGED <<task_outcomes, operations>>
    <3>1. PICK m \in work[c].message :
             \/ RejectDelivery(m.id, m.owner, m.token, 0) /\ UNCHANGED <<leaseVars, runVars>>
             \/ UNCHANGED <<messagingVars, leaseVars, runVars>>
      BY <1>4
    <3>2. CASE UNCHANGED <<messagingVars, leaseVars, runVars>>
      <4>1. UNCHANGED <<clock, tableVars>>
        BY <1>1, <3>2 DEF tableVars
      <4> QED
        BY <4>1, TablesStay
    <3>3. CASE RejectDelivery(m.id, m.owner, m.token, 0) /\ UNCHANGED <<leaseVars, runVars>>
      <4>1. PICK delay \in Nat : delay = 0
        OBVIOUS
      <4>2. m.owner \in Owner
        BY <1>3
      <4>3. PICK owner \in Owner : owner = m.owner
        BY <4>2
      <4>4. PICK id, token : id = m.id /\ token = m.token
        OBVIOUS
      <4>5. RejectDelivery(id, owner, token, delay)
        BY <3>3, <4>1, <4>3, <4>4
      <4>6. MessagingTablesOK'
        BY <1>3, <4>5, RejectDeliveryTypes
      <4> QED
        BY <1>1, <3>3, <4>6, MessagingStep
    <3> QED
      BY <3>1, <3>2, <3>3
  <2>2. PICK row : row = [work[c] EXCEPT !.message = {}]
    OBVIOUS
  <2>3. /\ row \in Coroutine(reads) /\ row.at = work[c].at /\ row.verdict = work[c].verdict
        /\ row.reads = reads /\ row.message = {}
        /\ row.attempt = work[c].attempt /\ row.lease = work[c].lease
    BY <1>3, <2>2 DEF Coroutine
  <2>4. RowTyped(row)
    BY <1>2, <2>1, <2>3, RowFields DEF RowTyped
  <2>5. Goes(c, row)
    BY <1>4, <2>2
  <2>6. WorkQuiet
    BY <1>1, <2>3, <2>4, <2>5, GivenBackQuiet
  <2> QED
    BY <1>1, <2>1, <2>6, TaskInv
<1>5. CASE /\ Release(NameOf(c), work[c].lease) /\ UNCHANGED <<messagingVars, runVars>>
           /\ Goes(c, [work[c] EXCEPT !.lease = 0])
  <2>1. TablesRight' /\ Growing /\ RunsQuiet /\ UNCHANGED <<task_outcomes, operations>>
    <3>1. PICK owner, token : owner = NameOf(c) /\ token = work[c].lease
      OBVIOUS
    <3>2. Release(owner, token)
      BY <1>5, <3>1
    <3> QED
      BY <1>1, <1>5, <3>2, ReleaseStep
  <2>2. PICK row : row = [work[c] EXCEPT !.lease = 0]
    OBVIOUS
  <2>3. /\ row \in Coroutine(reads) /\ row.at = work[c].at /\ row.verdict = work[c].verdict
        /\ row.reads = reads /\ row.message = work[c].message
        /\ row.attempt = work[c].attempt /\ row.lease = 0
    BY <1>3, <2>2 DEF Coroutine
  <2>4. lease_sequence' \in Nat
    BY <2>1 DEF TablesRight, CoordinatorTablesOK, LeaseTablesOK
  <2>5. RowTyped(row)
    BY <1>2, <2>1, <2>3, <2>4, RowFields DEF RowTyped
  <2>6. Goes(c, row)
    BY <1>5, <2>2
  <2>7. WorkQuiet
    BY <1>1, <2>3, <2>5, <2>6, GivenBackQuiet
  <2> QED
    BY <1>1, <2>1, <2>7, TaskInv
<1>6. CASE /\ work[c].attempt # 0 /\ UNCHANGED <<messagingVars, leaseVars>>
           /\ AbandonAttempt(work[c].attempt) \/ UNCHANGED runVars
           /\ Goes(c, [work[c] EXCEPT !.attempt = 0])
  <2>1. TablesRight' /\ Growing /\ RunsQuiet /\ UNCHANGED <<task_outcomes, operations>>
    <3>1. CASE UNCHANGED runVars
      <4>1. UNCHANGED <<clock, tableVars>>
        BY <1>1, <1>6, <3>1 DEF tableVars
      <4> QED
        BY <4>1, TablesStay
    <3>2. CASE AbandonAttempt(work[c].attempt)
      <4>1. PICK id \in DOMAIN attempts : id = work[c].attempt
        BY <1>3, <1>6
      <4>2. AbandonAttempt(id)
        BY <3>2, <4>1
      <4> QED
        BY <1>1, <1>6, <4>2, AbandonStep
    <3> QED
      BY <1>6, <3>1, <3>2
  <2>2. PICK row : row = [work[c] EXCEPT !.attempt = 0]
    OBVIOUS
  <2>3. /\ row \in Coroutine(reads) /\ row.at = work[c].at /\ row.verdict = work[c].verdict
        /\ row.reads = reads /\ row.message = work[c].message
        /\ row.attempt = 0 /\ row.lease = work[c].lease
    BY <1>3, <2>2 DEF Coroutine
  <2>4. Len(attempts') \in Nat
    BY <2>1 DEF TablesRight, CoordinatorTablesOK, RunTablesOK
  <2>5. RowTyped(row)
    BY <1>2, <2>1, <2>3, <2>4, RowFields DEF RowTyped
  <2>6. Goes(c, row)
    BY <1>6, <2>2
  <2>7. WorkQuiet
    BY <1>1, <2>3, <2>5, <2>6, GivenBackQuiet
  <2> QED
    BY <1>1, <2>1, <2>7, TaskInv
<1> QED
  BY <1>4, <1>5, <1>6 DEF Cleans

\* A coroutine that has cleaned up retries, or ends with its verdict.
LEMMA ConcludesInv ==
  ASSUME Inv, NEW c \in DOMAIN work, Concludes(c)
  PROVE  Inv'
<1>1. /\ work[c].at = "cleaning"
      /\ UNCHANGED <<clock, tableVars, jobs, keepers, tokens, faults, lost, orphaned>>
  BY DEF Concludes, At
<1>2. TablesRight' /\ Growing /\ RunsQuiet /\ UNCHANGED <<task_outcomes, operations>>
  BY <1>1, TablesStay
<1>3. /\ Answers(c, work[c].verdict)
      /\ work[c].verdict = "completed" => <<c[2], c[4]>> \in Receipts
      /\ work[c].verdict \in Verdict \ {"none"}
  <2>1. work[c].verdict \in Verdict
    BY DEF Inv, TypeOK, EngineTypeOK, Coroutine
  <2> QED
    BY <1>1, <2>1, UnderWay DEF Inv, VerdictsTrue
<1>4. CASE work[c].verdict = "retry"
  <2>1. PICK at \in Places \ {"cleaning", "done"} : at = "sleeping"
    BY DEF Places, AwaitingPlaces
  <2>2. work' = [work EXCEPT ![c] = Fresh(at)] /\ Answers(c, "none")
    BY <1>3, <1>4, <2>1 DEF Concludes, Goes, Answers
  <2>3. WorkQuiet
    BY <1>1, <1>2, <2>2, FreshQuiet
  <2> QED
    BY <1>1, <1>2, <2>3, TaskInv
<1>5. CASE work[c].verdict = "cancelled"
  <2>1. work' = Delete(work, {c})
    BY <1>5 DEF Concludes
  <2> QED
    BY <1>1, <1>2, <2>1, WorkDeleted, TaskInv
<1>6. CASE work[c].verdict \notin {"retry", "cancelled"}
  <2>1. PICK verdict \in {"completed", "failed"} : verdict = work[c].verdict
    BY <1>3, <1>6 DEF Verdict
  <2>2. Settles(c, verdict)
    BY <1>6, <2>1 DEF Concludes
  <2>3. WorkQuiet
    BY <1>1, <1>2, <1>3, <2>1, <2>2, SettlesQuiet
  <2> QED
    BY <1>1, <1>2, <2>3, TaskInv
<1> QED
  BY <1>4, <1>5, <1>6

\* A storage error in the clean up ends the coroutine with an exception.
LEMMA CleaningFailsInv ==
  ASSUME Inv, NEW c \in DOMAIN work, CleaningFails(c)
  PROVE  Inv'
<1>1. /\ work[c].at = "cleaning" /\ Fault("cleanup") /\ Orphans
      /\ UNCHANGED <<clock, tableVars, jobs, keepers, tokens, lost>>
  BY DEF CleaningFails, At, Die, Orphans
<1>2. TablesRight' /\ Growing /\ RunsQuiet /\ UNCHANGED <<task_outcomes, operations>>
  BY <1>1, TablesStay
<1>3. WorkQuiet
  <2>1. CASE Gathering(c)
    <3>1. PICK at \in Places \ {"cleaning", "done"} : at = "raised"
      BY DEF Places, AwaitingPlaces
    <3>2. work' = [work EXCEPT ![c] = Fresh(at)]
      BY <2>1, <3>1 DEF CleaningFails
    <3> QED
      BY <1>1, <1>2, <3>1, <3>2, FreshQuiet
  <2>2. CASE ~Gathering(c)
    BY <2>2, WorkDeleted DEF CleaningFails
  <2> QED
    BY <2>1, <2>2
<1>4. JobsQuiet /\ RestQuiet
  BY <1>1, <1>2, JobsKept, RestKept DEF Fault
<1> QED
  BY <1>2, <1>3, <1>4, QuietInv

\* One step of a coroutine.
LEMMA TaskStepInv ==
  ASSUME Inv, NEW c \in DOMAIN work, TaskStep(c) \/ TaskFault(c)
  PROVE  Inv'
<1>1. CASE Commits(c)
  BY <1>1, CommitInv DEF Commits, At
<1>2. CASE CommitsUnanswered(c)
  BY <1>2, CommitInv DEF CommitsUnanswered, At
<1> QED
  BY <1>1, <1>2, StartsInv, RetriesInv, ReceivesInv, StopsListeningInv, BeginsInv, ReadsInv,
     PlannedInv, AcquiresInv, CommitRefusedInv, UnwindsInv, CleansInv, ConcludesInv,
     CleaningFailsInv
  DEF TaskStep, TaskFault

-----------------------------------------------------------------------------
(* The other steps of Engine.run.                                            *)

\* A quiet step, by what it does to the engine.
LEMMA StepInv ==
  ASSUME Inv, TablesRight', Growing, RunsQuiet, JobsQuiet, WorkQuiet,
         UNCHANGED <<task_outcomes, operations, lost>>, Orphans,
         keepers' \subseteq keepers, tokens' \subseteq tokens,
         faults' = faults \/ (faults < MaxFaults /\ faults' = faults + 1)
  PROVE  Inv'
<1>1. RestQuiet
  BY RestKept
<1> QED
  BY <1>1, QuietInv

\* expire_runs ends runs as timed out, never as completed.
LEMMA SweepStep ==
  ASSUME Inv, ExpireRuns, UNCHANGED <<clock, resources, leaseVars, messagingVars, commitVars>>
  PROVE  TablesRight' /\ Growing /\ RunsQuiet /\ UNCHANGED <<task_outcomes, operations>>
<1>1. RunsOK' /\ RunsForward
  BY RunsAreOK, ExpireRunsForward
<1>2. TablesRight' /\ Growing
  BY <1>1, RunTablesStep
<1>3. /\ UNCHANGED <<run_jobs, task_outcomes, operations>>
      /\ DOMAIN workflows' = DOMAIN workflows
  BY DEF ExpireRuns, commitVars
<1>4. ASSUME NEW w \in DOMAIN workflows, workflows'[w].status = "completed"
      PROVE  workflows[w].status = "completed"
  <2>1. workflows[w] \in WorkflowRow
    BY DEF Inv, TypeOK, CoordinatorTablesOK, RunTablesOK, IsTable
  <2>2. Failed(workflows[w]).status = "failed"
    BY <2>1 DEF Failed, WorkflowRow
  <2>3. workflows'[w] \in {workflows[w], Failed(workflows[w])}
    BY DEF ExpireRuns
  <2> QED
    BY <1>4, <2>2, <2>3
<1>5. RunsQuiet
  BY <1>1, <1>3, <1>4, RunsMove
<1> QED
  BY <1>2, <1>3, <1>5

\* finish ends one run; as completed, only one that saved all its tasks as such.
LEMMA FinishStep ==
  ASSUME Inv, NEW w \in DOMAIN workflows, NEW status \in Terminal, NEW token,
         Finish(w, status, token),
         status = "completed" => \A t \in DOMAIN TasksOf(w) : Saved(w, t, "completed"),
         UNCHANGED <<clock, resources, leaseVars, messagingVars, commitVars>>
  PROVE  TablesRight' /\ Growing /\ RunsQuiet /\ UNCHANGED <<task_outcomes, operations>>
<1>1. RunsOK' /\ RunsForward
  BY RunsAreOK, FinishForward
<1>2. TablesRight' /\ Growing
  BY <1>1, RunTablesStep
<1>3. /\ UNCHANGED <<run_jobs, task_outcomes, operations>>
      /\ DOMAIN workflows' = DOMAIN workflows
  BY DEF Finish, StatusSet, commitVars
<1>4. \A x \in DOMAIN workflows : workflows'[x].status = "completed" =>
        \/ workflows[x].status = "completed"
        \/ \A t \in DOMAIN TasksOf(x) : Saved(x, t, "completed")
  <2>1. PICK run : run = [workflows[w] EXCEPT !.status = status]
    OBVIOUS
  <2>2. workflows[w] \in WorkflowRow
    BY DEF Inv, TypeOK, CoordinatorTablesOK, RunTablesOK, IsTable
  <2>3. run.status = status
    BY <2>1, <2>2 DEF WorkflowRow
  <2>4. workflows' = workflows \/ workflows' = [workflows EXCEPT ![w] = run]
    BY <2>1 DEF Finish, StatusSet
  <2> QED
    BY <2>3, <2>4
<1>5. RunsQuiet
  BY <1>1, <1>3, <1>4, RunsMove
<1> QED
  BY <1>2, <1>3, <1>5

\* An engine that is refused the claim ends.
LEMMA ClaimRefusedInv ==
  ASSUME Inv, NEW s, NEW w, ClaimRefused(s, w)
  PROVE  Inv'
<1>1. /\ ExpireRuns \/ UNCHANGED runVars
      /\ jobs' = Delete(jobs, {<<s, w>>})
      /\ UNCHANGED <<clock, resources, leaseVars, messagingVars, commitVars, keepers, tokens, work,
                     faults, lost, orphaned>>
  BY DEF ClaimRefused, Removed
<1>2. TablesRight' /\ Growing /\ RunsQuiet /\ UNCHANGED <<task_outcomes, operations>>
  <2>1. CASE ExpireRuns
    BY <1>1, <2>1, SweepStep
  <2>2. CASE UNCHANGED runVars
    <3>1. UNCHANGED <<clock, tableVars>>
      BY <1>1, <2>2 DEF tableVars
    <3> QED
      BY <3>1, TablesStay
  <2> QED
    BY <1>1, <2>1, <2>2
<1>3. JobsQuiet /\ WorkQuiet
  BY <1>1, JobsDeleted, WorkKept
<1> QED
  BY <1>1, <1>2, <1>3, StepInv DEF Orphans

\* The saved outcomes of the run are read.
LEMMA ReadOutcomesInv ==
  ASSUME Inv, NEW s, NEW w, <<s, w>> \in DOMAIN jobs,
         ReadOutcomes(s, w) \/ ReadOutcomesFails(s, w)
  PROVE  Inv'
<1>1. PICK j \in DOMAIN jobs : j = <<s, w>>
  OBVIOUS
<1>2. /\ jobs[j].phase = "claimed" /\ jobs[j] \in EngineRow
      /\ UNCHANGED <<clock, tableVars, keepers, tokens, work, lost, orphaned>>
      /\ faults' = faults \/ (faults < MaxFaults /\ faults' = faults + 1)
  BY <1>1 DEF ReadOutcomes, ReadOutcomesFails, In, Fault, Inv, TypeOK, EngineTypeOK, IsTable
<1>3. TablesRight' /\ Growing /\ RunsQuiet /\ UNCHANGED <<task_outcomes, operations>>
  BY <1>2, TablesStay
<1>4. JobsQuiet
  <2>1. CASE ReadOutcomes(s, w)
    <3>1. PICK f, new : f = SavedOutcomes(w) /\ new = Job("provisioning", jobs[j].generation, f)
      OBVIOUS
    <3>2. jobs' = [jobs EXCEPT ![j] = new]
      BY <1>1, <2>1, <3>1 DEF ReadOutcomes, SavedOutcomes
    <3>3. new.phase = "provisioning" /\ new.generation = jobs[j].generation /\ new.outcomes = f
      BY <3>1 DEF Job
    <3>4. f \in Outcomes
      <4>1. DOMAIN f \subseteq Task /\ f = [t \in DOMAIN f |-> f[t]]
        BY <3>1 DEF SavedOutcomes
      <4>2. \A t \in DOMAIN f : f[t] \in Outcome
        BY <3>1 DEF SavedOutcomes, Inv, TypeOK, CoordinatorTablesOK, RunTablesOK, IsTable
      <4> QED
        BY <4>1, <4>2, OutcomesType
    <3>5. new \in EngineRow
      BY <1>2, <3>1, <3>4 DEF EngineRow, Job, Phases, Outcomes
    <3>6. IsTable(jobs', Scheduler \X Workflow, EngineRow)
      BY <3>2, <3>5 DEF Inv, TypeOK, EngineTypeOK, IsTable
    <3>7. EngineQuiet(j, new)
      BY <1>1, <1>2, <3>1, <3>3 DEF EngineQuiet
    <3>8. \A i \in DOMAIN jobs' : i \in DOMAIN jobs /\ EngineQuiet(i, jobs'[i])
      BY <3>2, <3>7 DEF EngineQuiet
    <3> QED
      BY <3>6, <3>8 DEF JobsQuiet
  <2>2. CASE ReadOutcomesFails(s, w)
    <3>1. jobs' = Delete(jobs, {<<s, w>>})
      BY <2>2 DEF ReadOutcomesFails, Removed
    <3> QED
      BY <3>1, JobsDeleted
  <2> QED
    BY <2>1, <2>2
<1>5. WorkQuiet
  BY <1>2, WorkKept
<1> QED
  BY <1>2, <1>3, <1>4, <1>5, StepInv DEF Orphans

\* Engine.run sees that all coroutines of the wave have returned.
LEMMA GatheredInv ==
  ASSUME Inv, NEW s, NEW w, <<s, w>> \in DOMAIN jobs, Gathered(s, w)
  PROVE  Inv'
<1>1. PICK j, phase : j = <<s, w>> /\ j \in DOMAIN jobs /\ phase = "saving"
  OBVIOUS
<1>2. /\ jobs[j].phase = "gathering" /\ jobs' = [jobs EXCEPT ![j].phase = phase]
      /\ \A c \in CoroutinesOf(j[1], j[2], jobs[j].generation) : work[c].at = "done"
      /\ UNCHANGED <<clock, tableVars, keepers, tokens, work, faults, lost, orphaned>>
  BY <1>1 DEF Gathered, In, Phase
<1>3. TablesRight' /\ Growing /\ RunsQuiet /\ UNCHANGED <<task_outcomes, operations>>
  BY <1>2, TablesStay
<1>4. JobsQuiet
  BY <1>1, <1>2, JobMoves
<1>5. WorkQuiet
  BY <1>2, WorkKept
<1> QED
  BY <1>2, <1>3, <1>4, <1>5, StepInv DEF Orphans

\* An engine that gives up drops coroutines, and saves nothing.
LEMMA GivesUpInv ==
  ASSUME Inv, NEW s, NEW w, <<s, w>> \in DOMAIN jobs, NEW phase \in {"failing", "leaving"},
         jobs[<<s, w>>].phase # "started", Phase(s, w, phase),
         NEW gone, work' = Delete(work, gone) \/ UNCHANGED work,
         faults' = faults \/ (faults < MaxFaults /\ faults' = faults + 1),
         UNCHANGED <<clock, tableVars, keepers, tokens, lost, orphaned>>
  PROVE  Inv'
<1>1. PICK j \in DOMAIN jobs : j = <<s, w>>
  OBVIOUS
<1>2. jobs[j].phase # "started" /\ jobs' = [jobs EXCEPT ![j].phase = phase]
  BY <1>1 DEF Phase
<1>3. TablesRight' /\ Growing /\ RunsQuiet /\ UNCHANGED <<task_outcomes, operations>>
  BY TablesStay
<1>4. JobsQuiet
  BY <1>1, <1>2, JobMoves
<1>5. WorkQuiet
  BY WorkDeleted, WorkKept
<1> QED
  BY <1>3, <1>4, <1>5, StepInv DEF Orphans

\* The ways Engine.run fails without saving anything, on its way to the finally block.
LEMMA GivingUpInv ==
  ASSUME Inv, NEW s, NEW w, <<s, w>> \in DOMAIN jobs,
         \/ GatherFails(s, w) \/ GatherCancelled(s, w)
         \/ SaveRefused(s, w) \/ (SaveFails(s, w) /\ UNCHANGED runVars)
  PROVE  Inv'
<1>1. CASE GatherFails(s, w) \/ GatherCancelled(s, w)
  <2>1. /\ jobs[<<s, w>>].phase # "started"
        /\ Abandons(s, w, "failing") \/ Abandons(s, w, "leaving")
    BY <1>1 DEF GatherFails, GatherCancelled, In
  <2>2. PICK gone :
          gone = {c \in CoroutinesOf(s, w, jobs[<<s, w>>].generation) : Ended(c)}
    OBVIOUS
  <2> QED
    BY <2>1, <2>2, GivesUpInv DEF Abandons
<1>2. CASE SaveRefused(s, w) \/ (SaveFails(s, w) /\ UNCHANGED runVars)
  <2>1. PICK gone : gone = CoroutinesOf(s, w, jobs[<<s, w>>].generation)
    OBVIOUS
  <2>2. /\ jobs[<<s, w>>].phase # "started" /\ work' = Delete(work, gone)
        /\ Phase(s, w, "leaving") \/ Phase(s, w, "failing")
        /\ faults' = faults \/ (faults < MaxFaults /\ faults' = faults + 1)
        /\ UNCHANGED <<clock, tableVars, keepers, tokens, lost, orphaned>>
    BY <1>2, <2>1 DEF SaveRefused, SaveFails, In, Drops, Fault, tableVars
  <2> QED
    BY <2>2, GivesUpInv
<1> QED
  BY <1>1, <1>2

\* The run ends as completed only if the engine remembers that of every task, whether or
\* not it hears of the end.
LEMMA FinishJobInv ==
  ASSUME Inv, NEW s, NEW w, <<s, w>> \in DOMAIN jobs, FinishJob(s, w) \/ FinishFails(s, w)
  PROVE  Inv'
<1>1. PICK j, g : j \in DOMAIN jobs /\ j = <<s, w>> /\ g = jobs[j].generation
  OBVIOUS
<1>2. /\ jobs[j].phase \in {"finishing", "failing"}
      /\ Phase(s, w, "leaving") \/ Phase(s, w, "failing")
      /\ faults' = faults \/ (faults < MaxFaults /\ faults' = faults + 1)
      /\ UNCHANGED <<clock, resources, leaseVars, messagingVars, commitVars, keepers, tokens, work,
                     lost, orphaned>>
      /\ \/ jobs[j].phase = "finishing" /\ Finish(w, FinalStatus(w, jobs[j].outcomes), g)
         \/ Finish(w, "failed", g)
         \/ UNCHANGED runVars
  BY <1>1 DEF FinishJob, FinishFails, Fault, In
<1>3. w \in DOMAIN workflows /\ j[2] = w
  BY <1>1 DEF Inv, Known
<1>4. TablesRight' /\ Growing /\ RunsQuiet /\ UNCHANGED <<task_outcomes, operations>>
  <2>1. CASE jobs[j].phase = "finishing" /\ Finish(w, FinalStatus(w, jobs[j].outcomes), g)
    <3>1. PICK status \in Terminal : status = FinalStatus(w, jobs[j].outcomes)
      BY DEF FinalStatus, Terminal
    <3>2. ASSUME status = "completed", NEW t \in DOMAIN TasksOf(w)
          PROVE  Saved(w, t, "completed")
      <4>1. t \in DOMAIN jobs[j].outcomes
        BY <1>1, <1>3, <2>1 DEF Inv, PhasesMean
      <4>2. jobs[j].outcomes[t] = "completed"
        BY <3>1, <3>2, <4>1 DEF FinalStatus
      <4> QED
        BY <1>1, <1>3, <4>1, <4>2 DEF Inv, Remembered
    <3> QED
      BY <1>2, <1>3, <2>1, <3>1, <3>2, FinishStep
  <2>2. CASE Finish(w, "failed", g)
    <3>1. PICK status \in Terminal : status = "failed"
      BY DEF Terminal
    <3> QED
      BY <1>2, <1>3, <2>2, <3>1, FinishStep
  <2>3. CASE UNCHANGED runVars
    <3>1. UNCHANGED <<clock, tableVars>>
      BY <1>2, <2>3 DEF tableVars
    <3> QED
      BY <3>1, TablesStay
  <2> QED
    BY <1>2, <2>1, <2>2, <2>3
<1>5. JobsQuiet
  <2>1. PICK phase \in {"leaving", "failing"} : jobs' = [jobs EXCEPT ![j].phase = phase]
    BY <1>1, <1>2 DEF Phase
  <2> QED
    BY <1>1, <1>2, <2>1, JobMoves
<1>6. WorkQuiet
  BY <1>2, WorkKept
<1> QED
  BY <1>2, <1>4, <1>5, <1>6, StepInv DEF Orphans

\* The claim is given back, if it is still the engine's.
LEMMA LeaveInv ==
  ASSUME Inv, NEW s, NEW w \in Workflow, Leave(s, w)
  PROVE  Inv'
<1>1. PICK g : g = jobs[<<s, w>>].generation
  OBVIOUS
<1>2. /\ ReleaseRun(w, s, g) \/ UNCHANGED runVars
      /\ jobs' = Delete(jobs, {<<s, w>>}) /\ keepers' \subseteq keepers /\ tokens' \subseteq tokens
      /\ UNCHANGED <<clock, resources, leaseVars, messagingVars, commitVars, work, faults,
                     lost, orphaned>>
  BY <1>1 DEF Leave, Removed
<1>3. TablesRight' /\ Growing /\ RunsQuiet /\ UNCHANGED <<task_outcomes, operations>>
  <2>1. CASE ReleaseRun(w, s, g)
    <3>1. RunsOK' /\ RunsForward
      BY <2>1, RunsAreOK, ReleaseRunForward
    <3>2. TablesRight' /\ Growing
      BY <1>2, <3>1, RunTablesStep
    <3>3. UNCHANGED <<workflows, task_outcomes, operations>> /\ DOMAIN run_jobs' = DOMAIN run_jobs
      BY <1>2, <2>1 DEF ReleaseRun, commitVars
    <3>4. \A x \in DOMAIN run_jobs :
            /\ run_jobs'[x].generation = run_jobs[x].generation
            /\ run_jobs'[x].owner \in {run_jobs[x].owner, NoOwner}
      <4>1. PICK job : job = Unowned(run_jobs[w])
        OBVIOUS
      <4>2. w \in DOMAIN run_jobs => run_jobs[w] \in JobRow
        BY DEF Inv, TypeOK, CoordinatorTablesOK, RunTablesOK, IsTable
      <4>3. w \in DOMAIN run_jobs => job.generation = run_jobs[w].generation /\ job.owner = NoOwner
        BY <4>1, <4>2 DEF Unowned, JobRow
      <4>4. run_jobs' = [run_jobs EXCEPT ![w] = job]
        BY <2>1, <4>1 DEF ReleaseRun
      <4> QED
        BY <4>3, <4>4
    <3>5. RunsQuiet
      BY <3>1, <3>3, <3>4, RunsMove
    <3> QED
      BY <3>2, <3>3, <3>5
  <2>2. CASE UNCHANGED runVars
    <3>1. UNCHANGED <<clock, tableVars>>
      BY <1>2, <2>2 DEF tableVars
    <3> QED
      BY <3>1, TablesStay
  <2> QED
    BY <1>2, <2>1, <2>2
<1>4. JobsQuiet /\ WorkQuiet
  BY <1>2, JobsDeleted, WorkKept
<1> QED
  BY <1>2, <1>3, <1>4, StepInv DEF Orphans

\* One step of an engine.
LEMMA JobStepInv ==
  ASSUME Inv, NEW s \in Scheduler, NEW w \in Workflow, <<s, w>> \in DOMAIN jobs,
         JobStep(s, w) \/ StorageFault(s, w)
  PROVE  Inv'
BY ClaimInv, ClaimRefusedInv, ReadOutcomesInv, ProvisionInv, GatheredInv, GivingUpInv,
   SaveResultInv, SaveSkippedInv, SaveFailsInv, FinishJobInv, LeaveInv
DEF JobStep, StorageFault

-----------------------------------------------------------------------------
(* Cancellation, heartbeats and the life of processes.                       *)

\* task.cancel ends engines and coroutines, or has them unwind.
LEMMA CancelQuiet ==
  ASSUME Inv, TablesRight', Growing, NEW J \in SUBSET DOMAIN jobs, NEW kept, Cancel(J, kept)
  PROVE  JobsQuiet /\ WorkQuiet /\ keepers' \subseteq kept /\ UNCHANGED tokens
<1>1. PICK ended, children, planning :
        /\ ended = {j \in J : jobs[j].phase \in {"started", "leaving"}}
        /\ children = {c \in DOMAIN work : /\ EngineOf(c) \in J /\ Attached(c) /\ ~Ended(c)
                                           /\ jobs[EngineOf(c)].phase = "gathering"}
        /\ planning = {c \in children : work[c].at = "planning"}
  OBVIOUS
<1>2. /\ jobs' = [j \in DOMAIN jobs \ ended |->
           IF j \in J THEN [jobs[j] EXCEPT !.phase = "cancelled"] ELSE jobs[j]]
      /\ work' = Upsert(Delete(work, children), [c \in planning |-> Interrupted(c)])
      /\ keepers' = kept \ {<<j[1], j[2], jobs[j].generation>> : j \in ended}
      /\ UNCHANGED tokens
  BY <1>1 DEF Cancel
<1>3. IsTable(jobs, Scheduler \X Workflow, EngineRow)
  BY DEF Inv, TypeOK, EngineTypeOK
<1>4. ASSUME NEW j \in DOMAIN jobs'
      PROVE  j \in DOMAIN jobs /\ jobs'[j] \in EngineRow /\ EngineQuiet(j, jobs'[j])
  <2>1. j \in DOMAIN jobs \ ended /\ jobs[j] \in EngineRow
    BY <1>2, <1>3 DEF IsTable
  <2>2. CASE j \in J
    <3>1. PICK new : new = [jobs[j] EXCEPT !.phase = "cancelled"]
      OBVIOUS
    <3>2. /\ new \in EngineRow /\ new.phase = "cancelled"
          /\ new.generation = jobs[j].generation /\ new.outcomes = jobs[j].outcomes
      BY <2>1, <3>1 DEF EngineRow, Phases, AwaitingPhases
    <3>3. jobs'[j] = new /\ jobs[j].phase # "started"
      BY <1>1, <1>2, <2>1, <2>2, <3>1
    <3> QED
      BY <2>1, <3>2, <3>3 DEF EngineQuiet
  <2>3. CASE j \notin J
    BY <1>2, <2>1, <2>3 DEF EngineQuiet
  <2> QED
    BY <2>2, <2>3
<1>5. JobsQuiet
  <2>1. jobs' = [j \in DOMAIN jobs' |-> jobs'[j]]
    BY <1>2
  <2>2. IsTable(jobs', Scheduler \X Workflow, EngineRow)
    BY <1>3, <1>4, <2>1 DEF IsTable
  <2> QED
    BY <1>4, <2>2 DEF JobsQuiet
<1>6. PICK new : new = [c \in planning |-> Interrupted(c)]
  OBVIOUS
<1>7. /\ DOMAIN new = planning /\ planning \subseteq DOMAIN work
      /\ \A c \in planning : work[c].at = "planning" /\ new[c] = Interrupted(c)
      /\ DOMAIN work' \subseteq DOMAIN work
      /\ \A c \in DOMAIN work' : work'[c] = IF c \in planning THEN new[c] ELSE work[c]
  BY <1>1, <1>2, <1>6 DEF Upsert, Delete
<1>8. ASSUME NEW c \in planning
      PROVE  work[c].at # "done" /\ RowTyped(new[c]) /\ RowTrue(c, new[c])
  <2>1. c \in DOMAIN work /\ work[c].at = "planning" /\ new[c] = Interrupted(c)
    BY <1>7
  <2>2. work[c].verdict = "none" /\ Answers(c, "none")
    BY <2>1, UnderWay DEF Inv, VerdictsTrue
  <2>3. PICK reads, row : reads = work[c].reads /\ row = Interrupted(c)
    OBVIOUS
  <2>4. work[c] \in Coroutine(reads)
    BY <2>1, <2>3, RowFields
  <2>5. /\ row \in Coroutine(reads) /\ row.at = "interrupted" /\ row.verdict = work[c].verdict
        /\ row.reads = reads /\ row.message = work[c].message
        /\ row.attempt = work[c].attempt /\ row.lease = work[c].lease
    BY <2>3, <2>4 DEF Coroutine, Places, AwaitingPlaces, Interrupted
  <2>6. RowTyped(row)
    BY <2>1, <2>3, <2>5, RowFields DEF RowTyped
  <2>7. RowTrue(c, row)
    BY <2>2, <2>5 DEF RowTrue, Answers
  <2> QED
    BY <2>1, <2>3, <2>6, <2>7
<1>9. WorkQuiet
  BY <1>7, <1>8 DEF WorkQuiet
<1> QED
  BY <1>2, <1>5, <1>9

\* Cancelling the job of a run reaches its engine and its coroutines.
LEMMA CancelRunInv ==
  ASSUME Inv, NEW s, NEW w, CancelRun(s, w)
  PROVE  Inv'
<1>1. PICK status \in Terminal, J \in SUBSET DOMAIN jobs :
        status = "cancelled" /\ J = {<<s, w>>} \intersect DOMAIN jobs
  BY DEF Terminal
<1>2. /\ w \in DOMAIN workflows /\ Finish(w, status, None) /\ Cancel(J, keepers)
      /\ UNCHANGED <<clock, resources, leaseVars, messagingVars, commitVars, faults, lost,
                     orphaned>>
  BY <1>1 DEF CancelRun, ApiStep
<1>3. TablesRight' /\ Growing /\ RunsQuiet /\ UNCHANGED <<task_outcomes, operations>>
  BY <1>1, <1>2, FinishStep
<1>4. JobsQuiet /\ WorkQuiet /\ keepers' \subseteq keepers /\ UNCHANGED tokens
  BY <1>2, <1>3, CancelQuiet
<1> QED
  BY <1>2, <1>3, <1>4, StepInv DEF Orphans

\* A heartbeat that fails cancels the engine, and saves nothing.
LEMMA BeatFailsInv ==
  ASSUME Inv, NEW k \in keepers, BeatFails(k)
  PROVE  Inv'
<1>1. PICK J, kept :
        /\ J \subseteq DOMAIN jobs
        /\ J = {j \in {<<k[1], k[2]>>} \intersect DOMAIN jobs : jobs[j].generation = k[3]}
        /\ kept = keepers \ {k}
  OBVIOUS
<1>2. /\ Cancel(J, kept) /\ UNCHANGED <<clock, tableVars, lost, orphaned>>
      /\ faults' = faults \/ (faults < MaxFaults /\ faults' = faults + 1)
  BY <1>1 DEF BeatFails, Fault
<1>3. TablesRight' /\ Growing /\ RunsQuiet /\ UNCHANGED <<task_outcomes, operations>>
  BY <1>2, TablesStay
<1>4. JobsQuiet /\ WorkQuiet /\ keepers' \subseteq keepers /\ UNCHANGED tokens
  BY <1>1, <1>2, <1>3, CancelQuiet
<1> QED
  BY <1>2, <1>3, <1>4, StepInv DEF Orphans

\* A shutdown cancels the engines of a process.
LEMMA ShutdownInv ==
  ASSUME Inv, NEW s, Shutdown(s)
  PROVE  Inv'
<1>1. PICK J \in SUBSET DOMAIN jobs : J = JobsOf(s)
  BY DEF JobsOf
<1>2. /\ Cancel(J, keepers) /\ UNCHANGED <<clock, tableVars, lost, orphaned>>
      /\ faults < MaxFaults /\ faults' = faults + 1
  BY <1>1 DEF Shutdown, Ending
<1>3. TablesRight' /\ Growing /\ RunsQuiet /\ UNCHANGED <<task_outcomes, operations>>
  BY <1>2, TablesStay
<1>4. JobsQuiet /\ WorkQuiet /\ keepers' \subseteq keepers /\ UNCHANGED tokens
  BY <1>2, <1>3, CancelQuiet
<1> QED
  BY <1>2, <1>3, <1>4, StepInv DEF Orphans

\* A crash takes the engines, coroutines and heartbeats of a process.
LEMMA CrashInv ==
  ASSUME Inv, NEW s, Crash(s)
  PROVE  Inv'
<1>1. PICK J, C : J = JobsOf(s) /\ C = {c \in DOMAIN work : c[1] = s}
  OBVIOUS
<1>2. /\ jobs' = Delete(jobs, J) /\ work' = Delete(work, C) /\ keepers' \subseteq keepers
      /\ faults < MaxFaults /\ faults' = faults + 1 /\ tokens' \subseteq tokens
      /\ UNCHANGED <<clock, tableVars, lost>>
  BY <1>1 DEF Crash, Ending
<1>5. Orphans
  BY DEF Crash, Die, Orphans
<1>3. TablesRight' /\ Growing /\ RunsQuiet /\ UNCHANGED <<task_outcomes, operations>>
  BY <1>2, TablesStay
<1>4. JobsQuiet /\ WorkQuiet
  BY <1>2, JobsDeleted, WorkDeleted
<1> QED
  BY <1>2, <1>3, <1>4, <1>5, StepInv

\* Steps after which every engine and coroutine is where it was.
LEMMA EnginesStay ==
  ASSUME Inv, TablesRight', Growing, RunsQuiet,
         UNCHANGED <<task_outcomes, operations, engineVars>>
  PROVE  Inv'
<1>1. UNCHANGED <<jobs, keepers, tokens, work, faults, lost, orphaned>>
  BY DEF engineVars
<1>2. JobsQuiet /\ WorkQuiet
  BY <1>1, JobsKept, WorkKept
<1> QED
  BY <1>1, <1>2, StepInv DEF Orphans

\* A heartbeat moves the expiry of a claim, never its generation.
LEMMA BeatInv ==
  ASSUME Inv, NEW k \in keepers, Beat(k)
  PROVE  Inv'
<1>1. PICK w \in Workflow, s \in Scheduler, g, ttl \in Nat :
        w = k[2] /\ s = k[1] /\ g = k[3] /\ ttl = JobTtl
  <2>1. JobTtl \in Nat
    BY EngineAssumption
  <2>2. k[2] \in Workflow /\ k[1] \in Scheduler /\ k[3] \in Nat
    BY RunAssumption DEF Inv, TypeOK, EngineTypeOK
  <2> QED
    BY <2>1, <2>2
<1>2. /\ RenewRun(w, s, g, ttl)
      /\ UNCHANGED <<clock, resources, leaseVars, messagingVars, commitVars, engineVars>>
  BY <1>1 DEF Beat
<1>3. RunsOK' /\ RunsForward
  BY <1>2, RunsAreOK, RenewRunForward
<1>4. TablesRight' /\ Growing
  BY <1>2, <1>3, RunTablesStep
<1>5. PICK expiry : expiry = clock + ttl
  OBVIOUS
<1>6. /\ run_jobs' = [run_jobs EXCEPT ![w].expires_at = expiry]
      /\ UNCHANGED <<workflows, task_outcomes, operations>>
  BY <1>2, <1>5 DEF RenewRun, commitVars
<1>7. \A x \in DOMAIN run_jobs :
        /\ run_jobs'[x].generation = run_jobs[x].generation
        /\ run_jobs'[x].owner \in {run_jobs[x].owner, NoOwner}
  <2>1. IsTable(run_jobs, Workflow, JobRow)
    BY DEF Inv, TypeOK, CoordinatorTablesOK, RunTablesOK
  <2> QED
    BY <1>6, <2>1 DEF IsTable, JobRow
<1>8. RunsQuiet
  BY <1>3, <1>6, <1>7, RunsMove
<1> QED
  BY <1>2, <1>4, <1>6, <1>8, EnginesStay

\* A new run has an accepted specification and no rows of its own yet.
LEMMA LaunchInv ==
  ASSUME Inv, NEW w \in Workflow, NEW specification \in Specification, Launch(w, specification)
  PROVE  Inv'
<1>1. /\ CreateWorkflow(w, specification) /\ Accepted(specification)
      /\ UNCHANGED <<clock, resources, leaseVars, messagingVars, commitVars, engineVars>>
  BY DEF Launch, ApiStep
<1>2. RunsOK' /\ RunsForward
  BY <1>1, RunsAreOK, CreateWorkflowForward
<1>3. TablesRight' /\ Growing
  BY <1>1, <1>2, RunTablesStep
<1>4. PICK row : row = [status |-> "running", steps |-> 0,
                        deadline |-> clock + specification.timeout_seconds,
                        specification |-> specification]
  OBVIOUS
<1>5. /\ w \notin DOMAIN workflows /\ workflows' = Insert(workflows, w, row)
      /\ UNCHANGED <<run_jobs, task_outcomes, operations>>
  BY <1>1, <1>4 DEF CreateWorkflow, commitVars
<1>6. RunsQuiet
  <2>1. row.status = "running" /\ row.specification = specification
    BY <1>4
  <2>2. /\ DOMAIN workflows' = DOMAIN workflows \union {w} /\ workflows'[w] = row
        /\ \A x \in DOMAIN workflows : workflows'[x] = workflows[x]
    BY <1>5 DEF Insert, Upsert
  <2> QED
    BY <1>1, <1>5, <2>1, <2>2 DEF Inv, Known, RunsQuiet
<1> QED
  BY <1>1, <1>3, <1>5, <1>6, EnginesStay

\* A run is enqueued: its job starts unclaimed.
LEMMA SubmitInv ==
  ASSUME Inv, NEW w \in Workflow, NEW mode \in Mode, Submit(w, mode)
  PROVE  Inv'
<1>1. /\ Enqueue(w, mode)
      /\ UNCHANGED <<clock, resources, leaseVars, messagingVars, commitVars, engineVars>>
  BY DEF Submit, ApiStep
<1>2. RunsOK' /\ RunsForward
  BY <1>1, RunsAreOK, EnqueueForward
<1>3. TablesRight' /\ Growing
  BY <1>1, <1>2, RunTablesStep
<1>4. /\ w \in DOMAIN workflows /\ w \notin DOMAIN run_jobs
      /\ DOMAIN run_jobs' = DOMAIN run_jobs \union {w}
      /\ \A x \in DOMAIN run_jobs : run_jobs'[x] = run_jobs[x]
      /\ UNCHANGED <<workflows, task_outcomes, operations>>
  BY <1>1 DEF Enqueue, Insert, Upsert, commitVars
<1>5. RunsQuiet
  BY <1>4 DEF Inv, Known, RunsQuiet
<1> QED
  BY <1>1, <1>3, <1>4, <1>5, EnginesStay

\* The sweep of overdue runs.
LEMMA SweepInv ==
  ASSUME Inv, Sweep
  PROVE  Inv'
<1>1. TablesRight' /\ Growing /\ RunsQuiet /\ UNCHANGED <<task_outcomes, operations>>
  BY SweepStep DEF Sweep, ApiStep
<1>2. UNCHANGED engineVars
  BY DEF Sweep
<1> QED
  BY <1>1, <1>2, EnginesStay

\* Time passes.
LEMMA WaitInv ==
  ASSUME Inv, Wait \/ UNCHANGED vars
  PROVE  Inv'
<1>1. UNCHANGED <<tableVars, engineVars>> /\ clock' \in Nat
  BY DEF Wait, Tick, vars, Inv, TypeOK
<1>2. TablesRight' /\ Growing /\ RunsQuiet /\ UNCHANGED <<task_outcomes, operations>>
  BY <1>1, TablesKept
<1> QED
  BY <1>1, <1>2, EnginesStay

\* A scheduler starts an engine for a run that is due.
LEMMA PollInv ==
  ASSUME Inv, NEW s \in Scheduler, Poll(s)
  PROVE  Inv'
<1>1. PICK w \in DOMAIN run_jobs : jobs' = Insert(jobs, <<s, w>>, Job("started", 0, EmptyTable))
  BY DEF Poll, Startable, Pending
<1>2. UNCHANGED <<clock, tableVars, keepers, tokens, work, faults, lost, orphaned>>
  BY DEF Poll
<1>3. TablesRight' /\ Growing /\ RunsQuiet /\ UNCHANGED <<task_outcomes, operations>>
  BY <1>2, TablesStay
<1>4. PICK new : new = Job("started", 0, EmptyTable)
  OBVIOUS
<1>5. new \in EngineRow /\ w \in Workflow
  <2>1. 0 \in 0..MaxGeneration
    BY RunAssumption
  <2> QED
    BY <1>4, <2>1, NoOutcomes
    DEF EngineRow, Job, Phases, AwaitingPhases, Outcomes, Inv, TypeOK, CoordinatorTablesOK,
        RunTablesOK, IsTable
<1>6. /\ DOMAIN jobs' = DOMAIN jobs \union {<<s, w>>} /\ jobs'[<<s, w>>] = new
      /\ jobs' = [j \in DOMAIN jobs' |-> jobs'[j]]
      /\ \A j \in DOMAIN jobs' : j = <<s, w>> \/ (j \in DOMAIN jobs /\ jobs'[j] = jobs[j])
  BY <1>1, <1>4 DEF Insert, Upsert
<1>7. JobsQuiet
  <2>1. IsTable(jobs', Scheduler \X Workflow, EngineRow)
    BY <1>5, <1>6 DEF Inv, TypeOK, EngineTypeOK, IsTable
  <2>2. \A j \in DOMAIN jobs' :
          \/ j \in DOMAIN jobs /\ EngineQuiet(j, jobs'[j])
          \/ j[2] \in DOMAIN run_jobs /\ jobs'[j] = Job("started", 0, EmptyTable)
    BY <1>4, <1>6 DEF EngineQuiet
  <2> QED
    BY <2>1, <2>2 DEF JobsQuiet
<1>8. WorkQuiet
  BY <1>2, WorkKept
<1> QED
  BY <1>2, <1>3, <1>7, <1>8, StepInv DEF Orphans

-----------------------------------------------------------------------------
(* The theorems.                                                             *)

\* Every step of the composition keeps the invariant.
LEMMA NextInv == Inv /\ [Next]_vars => Inv'
<1> SUFFICES ASSUME Inv, [Next]_vars PROVE Inv'
  OBVIOUS
<1>1. ASSUME NEW s \in Scheduler, NEW w \in Workflow, Work(s, w) PROVE Inv'
  BY <1>1, JobStepInv, TaskStepInv DEF Work
<1>2. ASSUME NEW j \in DOMAIN jobs, StorageFault(j[1], j[2]) PROVE Inv'
  <2>1. PICK s \in Scheduler, w \in Workflow : j = <<s, w>>
    BY DEF Inv, TypeOK, EngineTypeOK, IsTable
  <2> QED
    BY <1>2, <2>1, JobStepInv
<1> QED
  BY <1>1, <1>2, TaskStepInv, LaunchInv, SubmitInv, CancelRunInv, BeatInv, BeatFailsInv, PollInv,
     CrashInv, ShutdownInv, SweepInv, WaitInv
  DEF Next

\* It holds of the empty database.
LEMMA InitInv == Init => Inv
<1> SUFFICES ASSUME Init PROVE Inv
  OBVIOUS
<1>1. /\ clock = 0 /\ lease_sequence = 0 /\ attempts = <<>> /\ faults = 0
      /\ keepers = {} /\ tokens = {} /\ lost = {} /\ orphaned = {} /\ resources = EmptyTable /\ leases = EmptyTable /\ workflows = EmptyTable
      /\ run_jobs = EmptyTable /\ task_outcomes = EmptyTable /\ deliveries = EmptyTable
      /\ operations = EmptyTable /\ transitions = EmptyTable /\ jobs = EmptyTable
      /\ work = EmptyTable
      /\ channels = [c \in Destination \X {"message"} \X ChannelVersion |->
                      CHOOSE x \in Schema : TRUE]
  BY DEF Init, LeaseTablesInit, RunTablesInit, EngineInit
<1>2. DOMAIN EmptyTable = {} /\ EmptyTable = [k \in {} |-> EmptyTable[k]]
  BY DEF EmptyTable
<1>3. \A K, R : IsTable(EmptyTable, K, R)
  BY <1>2 DEF IsTable
<1>4. IsTable(channels, Destination \X Kind \X ChannelVersion, Schema)
  BY <1>1, SchedulerAssumption DEF IsTable, Kind
<1>5. TypeOK
  <2>1. attempts \in Seq(AttemptRow)
    BY <1>1
  <2>2. faults \in 0..MaxFaults
    BY <1>1, EngineAssumption
  <2> QED
    BY <1>1, <1>2, <1>3, <1>4, <2>1, <2>2
    DEF TypeOK, CoordinatorTablesOK, LeaseTablesOK, RunTablesOK, MessagingTablesOK, CommitTablesOK,
        EngineTypeOK
<1>6. PendingCurrent
  BY <1>1 DEF PendingCurrent
<1>7. Known /\ Ownership /\ Remembered /\ PhasesMean /\ VerdictsTrue /\ NewestKnows
  BY <1>1, <1>2 DEF Known, Ownership, Remembered, PhasesMean, VerdictsTrue, NewestKnows, Receipts
<1>8. ReceiptsFollow /\ CompletedSaved /\ OutcomesMatchReceipts /\ SkippedOnlyAfterFailure
  BY <1>1, <1>2
  DEF ReceiptsFollow, CompletedSaved, OutcomesMatchReceipts, SkippedOnlyAfterFailure, Receipts
<1> QED
  BY <1>5, <1>6, <1>7, <1>8 DEF Inv

\* So it holds always.
LEMMA InvAlways == Spec => []Inv
<1> QED
  BY InitInv, NextInv, PTL DEF Spec

\* Every table of the database and every variable of the processes keeps its type,
\* whatever specifications, plans, faults and cancellations there are.
THEOREM TypeCorrect == Spec => []TypeOK
<1>1. Inv => TypeOK
  BY DEF Inv
<1> QED
  BY <1>1, InvAlways, PTL

\* What a run reports of a task is what the task did: completed only with a receipt,
\* and failed or skipped with one only if the answer of that very commit was lost.
THEOREM ReportsTrue == Spec => []OutcomesMatchReceipts
<1>1. Inv => OutcomesMatchReceipts
  BY DEF Inv
<1> QED
  BY <1>1, InvAlways, PTL

\* finish tells the truth: a run that ended completed has a receipt and a saved
\* outcome of each task of its specification, whoever executed them.
THEOREM CompletedMeansCommitted == Spec => []CompletedRunsCommitted
<1>1. Inv => CompletedRunsCommitted
  BY DEF Inv, CompletedSaved, OutcomesMatchReceipts, CompletedRunsCommitted, Saved
<1> QED
  BY <1>1, InvAlways, PTL

\* Dependencies order commits: no task has a receipt before all it depends on have
\* one, though another engine, in another process, may have committed those.
THEOREM CommitsInOrder == Spec => []DependenciesFirst
<1>1. Inv => DependenciesFirst
  BY DEF Inv, ReceiptsFollow, OutcomesMatchReceipts, DependenciesFirst, Needs, Saved
<1> QED
  BY <1>1, InvAlways, PTL

\* The waves of an accepted specification get stuck on a failure only: a run with a
\* skipped task has a failed one.
THEOREM SkipsExplained == Spec => []SkippedOnlyAfterFailure
<1>1. Inv => SkippedOnlyAfterFailure
  BY DEF Inv
<1> QED
  BY <1>1, InvAlways, PTL

-----------------------------------------------------------------------------
(* What is held, and by whom.                                                *)

HoldsNothing(row) == row.message = {} /\ row.attempt = 0 /\ row.lease = 0

Resting == {"waiting", "listening", "sleeping", "done", "raised"}

\* The phases of an engine that waits for its wave no longer.
Leaving == {"cancelled", "failing", "leaving"}

\* A claim on a message that is still the newest names the coroutine's owner, and a
\* message that was consumed is delivered for good.
MessageTidy(row, m) ==
  /\ m.id \in DOMAIN deliveries /\ m.token <= deliveries[m.id].token
  /\ deliveries[m.id].status = "inflight" /\ m.token = deliveries[m.id].token =>
       deliveries[m.id].owner = m.owner
  /\ row.at = "cleaning" /\ row.verdict = "completed" => deliveries[m.id].status = "delivered"

\* A coroutine holds nothing where it rests, and something new only after it gave back
\* the old.
RowTidy(row) ==
  /\ row.at \in Resting => HoldsNothing(row)
  /\ row.at = "beginning" => row.attempt = 0
  /\ row.at \in {"beginning", "reading", "planning", "leasing", "interrupted"} => row.lease = 0
  /\ \A m \in row.message : MessageTidy(row, m)

RowsTidy == \A c \in DOMAIN work : RowTidy(work[c])

\* The engine that started an interrupted coroutine was cancelled with it.
InterruptedLast ==
  \A c \in DOMAIN work : work[c].at = "interrupted" /\ Attached(c) =>
    jobs[EngineOf(c)].phase \in Leaving

\* What a receipt says was consumed is delivered.
Acknowledged ==
  \A o \in Receipts : \A d \in operations[o].fingerprint.acknowledged :
    d \in DOMAIN deliveries /\ deliveries[d].status = "delivered"

\* Messages come from commits.
Staged == \A d \in DOMAIN deliveries : <<d[1], d[2]>> \in Receipts

HoldsLease(c, k) == NameOf(c) = leases[k].owner /\ work[c].lease = leases[k].token
HoldsMessage(c, d) == \E m \in work[c].message : m.id = d /\ m.token = deliveries[d].token

\* What a coroutine held that died in a fault.
LeaseOrphaned(row) == \E h \in orphaned : h.owner = row.owner /\ h.lease = row.token
AttemptOrphaned(i) == \E h \in orphaned : h.attempt = i
MessageOrphaned(d, row) == \E h \in orphaned : \E m \in h.message : m.id = d /\ m.token = row.token

LeasesHeld ==
  \A k \in DOMAIN leases : Unexpired(leases[k].expires_at) =>
    (\E c \in DOMAIN work : HoldsLease(c, k)) \/ LeaseOrphaned(leases[k])
AttemptsHeld ==
  \A i \in DOMAIN attempts : attempts[i].status = "pending" =>
    (\E c \in DOMAIN work : work[c].attempt = i) \/ AttemptOrphaned(i)
MessagesHeld ==
  \A d \in DOMAIN deliveries : InFlight(d) =>
    (\E c \in DOMAIN work : HoldsMessage(c, d)) \/ MessageOrphaned(d, deliveries[d])

Tidy ==
  /\ RowsTidy
  /\ InterruptedLast
  /\ Acknowledged
  /\ Staged
  /\ LeasesHeld
  /\ AttemptsHeld
  /\ MessagesHeld

-----------------------------------------------------------------------------
(* Steps that hand out nothing.                                              *)

\* Attempts end, and nothing else is handed out or taken back.
TablesTidy ==
  /\ clock <= clock'
  /\ UNCHANGED <<leases, deliveries, operations>>
  /\ \A i \in DOMAIN attempts' : attempts'[i].status = "pending" =>
       i \in DOMAIN attempts /\ attempts[i].status = "pending"

\* Nothing is lost with the row.
LetGo(row) ==
  /\ row.attempt = 0 /\ row.lease = 0
  /\ \A m \in row.message : deliveries[m.id].status = "delivered"

\* Coroutines keep what they hold or die with it, and new and moved ones are where they may be.
WorkTidy ==
  /\ \A c \in DOMAIN work :
       \/ /\ c \in DOMAIN work' /\ work'[c].message = work[c].message
          /\ work'[c].attempt = work[c].attempt /\ work'[c].lease = work[c].lease
       \/ LetGo(work[c])
       \/ Holding(c) \in orphaned'
  /\ \A c \in DOMAIN work' : (c \in DOMAIN work /\ work'[c] = work[c]) \/ RowTidy(work'[c])

\* No engine gets back to a wave it was cancelled in.
JobsTidy ==
  \A c \in DOMAIN work' : work'[c].at = "interrupted" /\ Attached(c)' =>
    jobs'[EngineOf(c)].phase \in Leaving

\* Leases stay held by whom they are, if the step grants none.
LEMMA LeasesStayHeld ==
  ASSUME Inv, LeasesHeld, orphaned \subseteq orphaned', clock' \in Nat, clock <= clock',
         UNCHANGED leases,
         \A c \in DOMAIN work :
           \/ work[c].lease = 0 \/ (c \in DOMAIN work' /\ work'[c].lease = work[c].lease)
           \/ Holding(c) \in orphaned'
  PROVE  LeasesHeld'
<1> SUFFICES ASSUME NEW k \in DOMAIN leases', leases'[k].expires_at > clock',
                    ~LeaseOrphaned(leases[k])'
             PROVE  \E c \in DOMAIN work' :
                      NameOf(c) = leases'[k].owner /\ work'[c].lease = leases'[k].token
  BY DEF LeasesHeld, HoldsLease, Unexpired, NameOf
<1>1. /\ k \in DOMAIN leases /\ leases'[k] = leases[k]
      /\ leases[k].expires_at \in Nat /\ leases[k].token \in Nat \ {0}
  BY DEF Inv, TypeOK, CoordinatorTablesOK, LeaseTablesOK, IsTable, LeaseRow
<1>2. leases[k].expires_at > clock
  BY <1>1 DEF Inv, TypeOK
<1>3. ~LeaseOrphaned(leases[k])
  BY <1>1 DEF LeaseOrphaned
<1>4. PICK c \in DOMAIN work : NameOf(c) = leases[k].owner /\ work[c].lease = leases[k].token
  BY <1>1, <1>2, <1>3 DEF LeasesHeld, HoldsLease, Unexpired
<1>5. Holding(c) \notin orphaned'
  <2>1. Holding(c).owner = NameOf(c) /\ Holding(c).lease = work[c].lease
    BY DEF Holding
  <2> QED
    BY <1>1, <1>4, <2>1 DEF LeaseOrphaned
<1> QED
  BY <1>1, <1>4, <1>5

\* Attempts stay held, if the step begins none.
LEMMA AttemptsStayHeld ==
  ASSUME Inv, AttemptsHeld, orphaned \subseteq orphaned',
         \A i \in DOMAIN attempts' : attempts'[i].status = "pending" =>
           i \in DOMAIN attempts /\ attempts[i].status = "pending",
         \A c \in DOMAIN work :
           \/ work[c].attempt = 0 \/ (c \in DOMAIN work' /\ work'[c].attempt = work[c].attempt)
           \/ Holding(c) \in orphaned'
  PROVE  AttemptsHeld'
<1> SUFFICES ASSUME NEW i \in DOMAIN attempts', attempts'[i].status = "pending",
                    ~AttemptOrphaned(i)'
             PROVE  \E c \in DOMAIN work' : work'[c].attempt = i
  BY DEF AttemptsHeld
<1>1. i \in DOMAIN attempts /\ i # 0 /\ attempts[i].status = "pending"
  BY DEF Inv, TypeOK, CoordinatorTablesOK, RunTablesOK
<1>2. ~AttemptOrphaned(i)
  BY DEF AttemptOrphaned
<1>3. PICK c \in DOMAIN work : work[c].attempt = i
  BY <1>1, <1>2 DEF AttemptsHeld
<1>4. Holding(c) \notin orphaned'
  <2>1. Holding(c).attempt = work[c].attempt
    BY DEF Holding
  <2> QED
    BY <1>3, <2>1 DEF AttemptOrphaned
<1> QED
  BY <1>1, <1>3, <1>4

\* Messages stay held, if the step claims none.
LEMMA MessagesStayHeld ==
  ASSUME Inv, MessagesHeld, orphaned \subseteq orphaned', clock' \in Nat, clock <= clock',
         \A d \in DOMAIN deliveries' : deliveries'[d].status = "inflight" =>
           d \in DOMAIN deliveries /\ deliveries'[d] = deliveries[d],
         \A c \in DOMAIN work :
           \/ c \in DOMAIN work' /\ work'[c].message = work[c].message
           \/ \A m \in work[c].message :
                ~(InFlight(m.id)' /\ m.token = deliveries'[m.id].token)
           \/ Holding(c) \in orphaned'
  PROVE  MessagesHeld'
<1> SUFFICES ASSUME NEW d \in DOMAIN deliveries', deliveries'[d].status = "inflight",
                    deliveries'[d].expires_at > clock', ~MessageOrphaned(d, deliveries[d])'
             PROVE  \E c \in DOMAIN work' :
                      \E m \in work'[c].message : m.id = d /\ m.token = deliveries'[d].token
  BY DEF MessagesHeld, HoldsMessage, InFlight, Unexpired
<1>1. d \in DOMAIN deliveries /\ deliveries'[d] = deliveries[d] /\ deliveries[d].expires_at \in Nat
  BY DEF Inv, TypeOK, CoordinatorTablesOK, MessagingTablesOK, IsTable, DeliveryRow
<1>2. deliveries[d].expires_at > clock
  BY <1>1 DEF Inv, TypeOK
<1>3. ~MessageOrphaned(d, deliveries[d])
  BY <1>1 DEF MessageOrphaned
<1>4. PICK c \in DOMAIN work :
        \E m \in work[c].message : m.id = d /\ m.token = deliveries[d].token
  BY <1>1, <1>2, <1>3 DEF MessagesHeld, HoldsMessage, InFlight, Unexpired
<1>5. Holding(c) \notin orphaned'
  <2>1. Holding(c).message = work[c].message
    BY DEF Holding
  <2> QED
    BY <1>1, <1>4, <2>1 DEF MessageOrphaned
<1> QED
  BY <1>1, <1>4, <1>5 DEF InFlight, Unexpired

\* Such steps keep everything tidy.
LEMMA TidyStep ==
  ASSUME Inv, Tidy, orphaned \subseteq orphaned',
         clock' \in Nat, TablesTidy, WorkTidy, JobsTidy
  PROVE  Tidy'
<1>1. RowsTidy'
  BY DEF Tidy, RowsTidy, TablesTidy, WorkTidy, RowTidy, MessageTidy
<1>2. InterruptedLast'
  BY DEF JobsTidy, InterruptedLast, EngineOf
<1>3. Acknowledged' /\ Staged'
  BY DEF Tidy, Acknowledged, Staged, TablesTidy, Receipts
<1>4. LeasesHeld' /\ AttemptsHeld'
  BY LeasesStayHeld, AttemptsStayHeld DEF Tidy, TablesTidy, WorkTidy, LetGo
<1>5. MessagesHeld'
  BY MessagesStayHeld DEF Tidy, TablesTidy, WorkTidy, LetGo, InFlight
<1> QED
  BY <1>1, <1>2, <1>3, <1>4, <1>5 DEF Tidy

\* An engine that goes on quietly never gets back to a wave it was cancelled in.
LEMMA EngineQuietTidy ==
  ASSUME Inv, Tidy, orphaned \subseteq orphaned', JobsQuiet,
         \A c \in DOMAIN work' : work'[c].at = "interrupted" =>
           \/ c \in DOMAIN work /\ work'[c] = work[c]
           \/ c \in DOMAIN work /\ jobs'[EngineOf(c)].phase \in Leaving
  PROVE  JobsTidy
<1> SUFFICES ASSUME NEW c \in DOMAIN work', work'[c].at = "interrupted", Attached(c)',
                    c \in DOMAIN work, work'[c] = work[c]
             PROVE  jobs'[EngineOf(c)].phase \in Leaving
  BY DEF JobsTidy
<1>1. PICK j : j = EngineOf(c)
  OBVIOUS
<1>2. j \in DOMAIN jobs' /\ jobs'[j].generation = c[3] /\ c[3] # 0
  BY <1>1, CoroutineTyped DEF Attached, EngineOf
<1>3. j \in DOMAIN jobs /\ EngineQuiet(j, jobs'[j])
  BY <1>2 DEF JobsQuiet, Job
<1>4. jobs[j].phase \in Leaving
  BY <1>1, <1>2, <1>3 DEF Tidy, InterruptedLast, EngineQuiet, Attached
<1> QED
  BY <1>1, <1>3, <1>4 DEF EngineQuiet, Leaving

\* Who rests holds nothing that could be lost.
LEMMA RestsLetGo ==
  ASSUME Tidy, NEW c \in DOMAIN work, work[c].at \in Resting
  PROVE  HoldsNothing(work[c]) /\ LetGo(work[c])
BY DEF Tidy, RowsTidy, RowTidy, HoldsNothing, LetGo

\* The locals of a new iteration hold nothing.
LEMMA FreshTidy ==
  ASSUME NEW at, at # "cleaning", NEW verdict
  PROVE  /\ RowTidy(Fresh(at)) /\ Fresh(at).at = at
         /\ RowTidy([Fresh(at) EXCEPT !.verdict = verdict])
         /\ [Fresh(at) EXCEPT !.verdict = verdict].at = at
BY DEF RowTidy, Fresh, HoldsNothing

\* Every engine and every coroutine but one is where it was.
LEMMA OneMoves ==
  ASSUME Inv, Tidy, orphaned \subseteq orphaned', NEW c \in DOMAIN work, UNCHANGED jobs,
         NEW row, work' = [work EXCEPT ![c] = row], RowTidy(row), row.at # "interrupted",
         \/ LetGo(work[c])
         \/ /\ row.message = work[c].message /\ row.attempt = work[c].attempt
            /\ row.lease = work[c].lease
         \/ Holding(c) \in orphaned'
  PROVE  WorkTidy /\ JobsTidy
<1>1. WorkTidy
  BY DEF WorkTidy
<1>2. JobsQuiet
  BY JobsKept
<1> QED
  BY <1>1, <1>2, EngineQuietTidy

\* Coroutines end that hold nothing, or die.
LEMMA SomeEnd ==
  ASSUME Inv, Tidy, orphaned \subseteq orphaned',
         JobsQuiet, NEW gone, work' = Delete(work, gone),
         \A c \in gone \intersect DOMAIN work : LetGo(work[c]) \/ Holding(c) \in orphaned'
  PROVE  WorkTidy /\ JobsTidy
<1>1. WorkTidy /\ \A c \in DOMAIN work' : c \in DOMAIN work /\ work'[c] = work[c]
  BY DEF WorkTidy, Delete
<1> QED
  BY <1>1, EngineQuietTidy

\* The result of a task, which waits for gather or is dropped.
LEMMA SettlesTidy ==
  ASSUME Inv, Tidy, orphaned \subseteq orphaned',
         NEW c \in DOMAIN work, NEW verdict, Settles(c, verdict), LetGo(work[c]),
         UNCHANGED jobs
  PROVE  WorkTidy /\ JobsTidy
<1>1. CASE Gathering(c)
  <2>1. PICK at, row : at = "done" /\ row = [Fresh(at) EXCEPT !.verdict = verdict]
    OBVIOUS
  <2>2. RowTidy(row) /\ row.at = at
    BY <2>1, FreshTidy
  <2> QED
    BY <1>1, <2>1, <2>2, OneMoves DEF Settles
<1>2. CASE ~Gathering(c)
  <2>1. PICK gone : gone = {c}
    OBVIOUS
  <2>2. JobsQuiet
    BY JobsKept
  <2> QED
    BY <1>2, <2>1, <2>2, SomeEnd DEF Settles
<1> QED
  BY <1>1, <1>2

\* A new iteration, or the end of the budget.
LEMMA TriesTidy ==
  ASSUME Inv, Tidy, orphaned \subseteq orphaned',
         NEW c \in DOMAIN work, Tries(c), LetGo(work[c]), UNCHANGED jobs
  PROVE  WorkTidy /\ JobsTidy
<1>1. CASE Cardinality(AttemptsOf(c[2], c[4])) < TaskOf(c).max_attempts
  <2>1. PICK at, row : /\ at = IF TaskOf(c).inbox = NoInbox THEN "beginning" ELSE "listening"
                       /\ row = Fresh(at)
    OBVIOUS
  <2>2. RowTidy(row) /\ row.at = at /\ at # "interrupted"
    BY <2>1, FreshTidy
  <2>3. work' = [work EXCEPT ![c] = row]
    BY <1>1, <2>1 DEF Tries, Goes
  <2> QED
    BY <2>2, <2>3, OneMoves
<1>2. CASE ~(Cardinality(AttemptsOf(c[2], c[4])) < TaskOf(c).max_attempts)
  BY <1>2, SettlesTidy DEF Tries
<1> QED
  BY <1>1, <1>2

\* The tables are as they were.
LEMMA TablesStayTidy ==
  ASSUME Inv, UNCHANGED <<clock, tableVars>>
  PROVE  clock' \in Nat /\ TablesTidy
BY DEF Inv, TypeOK, TablesTidy, tableVars, leaseVars, runVars, messagingVars, commitVars

\* An iteration ends, with all the coroutine holds.
LEMMA EndsTidy ==
  ASSUME Inv, Tidy, orphaned \subseteq orphaned',
         NEW c \in DOMAIN work, work[c].at \notin Resting, NEW verdict,
         Ends(c, verdict), UNCHANGED jobs,
         verdict = "completed" =>
           \A m \in work[c].message : deliveries[m.id].status = "delivered"
  PROVE  WorkTidy /\ JobsTidy
<1>1. PICK at, row : at = "cleaning" /\ row = Going(c, at, verdict)
  OBVIOUS
<1>2. work[c] \in Coroutine(work[c].reads)
  BY DEF Inv, TypeOK, EngineTypeOK
<1>3. /\ row.at = at /\ row.verdict = verdict /\ row.message = work[c].message
      /\ row.attempt = work[c].attempt /\ row.lease = work[c].lease
  BY <1>1, <1>2 DEF Going, Coroutine
<1>4. RowTidy(row)
  <2>1. \A m \in work[c].message : MessageTidy(work[c], m)
    BY DEF Tidy, RowsTidy, RowTidy
  <2> QED
    BY <1>1, <1>3, <2>1 DEF RowTidy, MessageTidy, Resting
<1>5. work' = [work EXCEPT ![c] = row]
  BY <1>1 DEF Ends, Goes, Going
<1> QED
  BY <1>1, <1>3, <1>4, <1>5, OneMoves

-----------------------------------------------------------------------------
(* The coroutines.                                                           *)

\* Steps between two transactions, or whose transaction changes nothing.
LEMMA StartsTidy ==
  ASSUME Inv, Tidy, orphaned \subseteq orphaned', NEW c \in DOMAIN work,
         Starts(c) \/ Retries(c) \/ StopsListening(c)
  PROVE  Tidy'
<1>1. /\ work[c].at \in Resting /\ UNCHANGED <<clock, tableVars, jobs>>
      /\ Tries(c) \/ (\E verdict : Settles(c, verdict))
  BY DEF Starts, Retries, StopsListening, At, Resting
<1>2. LetGo(work[c]) /\ clock' \in Nat /\ TablesTidy
  BY <1>1, RestsLetGo, TablesStayTidy
<1>3. WorkTidy /\ JobsTidy
  BY <1>1, <1>2, TriesTidy, SettlesTidy
<1> QED
  BY <1>2, <1>3, TidyStep

\* Reading, planning and unwinding keep what is held.
LEMMA MovesTidy ==
  ASSUME Inv, Tidy, orphaned \subseteq orphaned',
         NEW c \in DOMAIN work, Reads(c) \/ Planned(c) \/ Unwinds(c)
  PROVE  Tidy'
<1>1. /\ work[c].at \in {"reading", "planning", "interrupted"}
      /\ UNCHANGED <<clock, tableVars, jobs>>
  BY DEF Reads, Planned, Unwinds, At
<1>2. clock' \in Nat /\ TablesTidy
  BY <1>1, TablesStayTidy
<1>3. work[c] \in Coroutine(work[c].reads)
  BY DEF Inv, TypeOK, EngineTypeOK
<1>4. work[c].lease = 0 /\ \A m \in work[c].message : MessageTidy(work[c], m)
  BY <1>1 DEF Tidy, RowsTidy, RowTidy
<1>5. CASE \E verdict : Ends(c, verdict) /\ verdict # "completed"
  BY <1>1, <1>2, <1>5, EndsTidy, TidyStep DEF Resting
<1>6. CASE \E reads : Goes(c, [work[c] EXCEPT !.at = "planning", !.reads = reads])
  <2>1. PICK row, reads : /\ row = [work[c] EXCEPT !.at = "planning", !.reads = reads]
                          /\ Goes(c, row)
    BY <1>6
  <2>2. /\ row.at = "planning" /\ row.message = work[c].message
        /\ row.attempt = work[c].attempt /\ row.lease = work[c].lease
    BY <1>3, <2>1 DEF Coroutine
  <2>3. RowTidy(row)
    BY <1>4, <2>2 DEF RowTidy, MessageTidy, Resting
  <2> QED
    BY <1>1, <1>2, <2>1, <2>2, <2>3, OneMoves, TidyStep DEF Goes
<1>7. CASE \E plan : Goes(c, [work[c] EXCEPT !.at = "leasing", !.plan = plan])
  <2>1. PICK row, plan : /\ row = [work[c] EXCEPT !.at = "leasing", !.plan = plan]
                         /\ Goes(c, row)
    BY <1>7
  <2>2. /\ row.at = "leasing" /\ row.message = work[c].message
        /\ row.attempt = work[c].attempt /\ row.lease = work[c].lease
    BY <1>3, <2>1 DEF Coroutine
  <2>3. RowTidy(row)
    BY <1>4, <2>2 DEF RowTidy, MessageTidy, Resting
  <2> QED
    BY <1>1, <1>2, <2>1, <2>2, <2>3, OneMoves, TidyStep DEF Goes
<1>8. CASE Reads(c)
  <2>1. PICK stamps : stamps = [k \in TaskOf(c).reads |-> Stamp(resources[k])]
    OBVIOUS
  <2>2. \/ Goes(c, [work[c] EXCEPT !.at = "planning", !.reads = stamps])
        \/ Ends(c, "failed")
    BY <1>8, <2>1 DEF Reads
  <2>3. "failed" # "completed"
    OBVIOUS
  <2>4. CASE Ends(c, "failed")
    BY <1>5, <2>3, <2>4
  <2>5. CASE Goes(c, [work[c] EXCEPT !.at = "planning", !.reads = stamps])
    BY <1>6, <2>5
  <2> QED
    BY <2>2, <2>4, <2>5
<1>9. CASE Planned(c)
  <2>1. \/ \E plan : Goes(c, [work[c] EXCEPT !.at = "leasing", !.plan = plan])
        \/ Ends(c, "failed")
    BY <1>9 DEF Planned
  <2>2. "failed" # "completed"
    OBVIOUS
  <2>3. CASE Ends(c, "failed")
    BY <1>5, <2>2, <2>3
  <2> QED
    BY <1>7, <2>1, <2>3
<1>10. CASE Unwinds(c)
  BY <1>5, <1>10 DEF Unwinds
<1> QED
  BY <1>8, <1>9, <1>10

\* The receipt that answers for a message says that it was consumed.
LEMMA RefusedTidy ==
  ASSUME Inv, Tidy, orphaned \subseteq orphaned', NEW c \in DOMAIN work, CommitRefused(c)
  PROVE  Tidy'
<1>1. PICK r : r = Request(c)
  OBVIOUS
<1>2. /\ work[c].at = "committing" /\ UNCHANGED <<clock, tableVars, jobs>>
      /\ Ends(c, IF Answered(r) THEN "completed"
                 ELSE IF Unanswered(r) /\ CommitAuthorised(r) /\ ~ReadsFenced(r) THEN "retry"
                 ELSE "failed")
  BY <1>1 DEF CommitRefused, At
<1>3. PICK verdict : /\ Ends(c, verdict)
                     /\ verdict = "completed" => Answered(r)
  BY <1>2
<1>4. ASSUME Answered(r), NEW m \in work[c].message
      PROVE  deliveries[m.id].status = "delivered"
  <2>1. /\ <<r.workflow, r.operation>> \in Receipts
        /\ Fingerprint(r).acknowledged = operations[<<r.workflow, r.operation>>].fingerprint.acknowledged
    BY <1>4 DEF Answered, Unanswered, Receipts
  <2>2. m.id \in Fingerprint(r).acknowledged
    BY <1>1 DEF Fingerprint, Request
  <2> QED
    BY <2>1, <2>2 DEF Tidy, Acknowledged
<1>5. clock' \in Nat /\ TablesTidy
  BY <1>2, TablesStayTidy
<1>6. WorkTidy /\ JobsTidy
  BY <1>2, <1>3, <1>4, EndsTidy DEF Resting
<1> QED
  BY <1>5, <1>6, TidyStep

\* Only what was given back or consumed is gone with the iteration.
LEMMA ConcludesTidy ==
  ASSUME Inv, Tidy, orphaned \subseteq orphaned', NEW c \in DOMAIN work, Concludes(c)
  PROVE  Tidy'
<1>1. /\ work[c].at = "cleaning" /\ UNCHANGED <<clock, tableVars, jobs>>
      /\ \/ Goes(c, Fresh("sleeping"))
         \/ work' = Delete(work, {c})
         \/ Settles(c, work[c].verdict)
  BY DEF Concludes, At
<1>2. LetGo(work[c])
  BY <1>1 DEF Concludes, LetGo, Tidy, RowsTidy, RowTidy, MessageTidy
<1>3. clock' \in Nat /\ TablesTidy
  BY <1>1, TablesStayTidy
<1>4. CASE Goes(c, Fresh("sleeping"))
  <2>1. PICK at, row : at = "sleeping" /\ row = Fresh(at)
    OBVIOUS
  <2>2. RowTidy(row) /\ row.at = at
    BY <2>1, FreshTidy
  <2> QED
    BY <1>1, <1>2, <1>3, <1>4, <2>1, <2>2, OneMoves, TidyStep DEF Goes
<1>5. CASE work' = Delete(work, {c})
  <2>1. PICK gone : gone = {c}
    OBVIOUS
  <2>2. JobsQuiet
    BY <1>1, JobsKept
  <2> QED
    BY <1>2, <1>3, <1>5, <2>1, <2>2, SomeEnd, TidyStep
<1>6. CASE Settles(c, work[c].verdict)
  <2>1. PICK verdict : verdict = work[c].verdict
    OBVIOUS
  <2> QED
    BY <1>1, <1>2, <1>3, <1>6, <2>1, SettlesTidy, TidyStep
<1> QED
  BY <1>1, <1>4, <1>5, <1>6

\* Deliveries that are delivered stay so, and a claim takes a new token.
DeliveriesForward ==
  \A d \in DOMAIN deliveries :
    /\ d \in DOMAIN deliveries' /\ deliveries[d].token <= deliveries'[d].token
    /\ deliveries[d].status = "delivered" => deliveries'[d].status = "delivered"
    /\ deliveries'[d].status = "inflight" =>
         deliveries'[d] = deliveries[d] \/ deliveries[d].token < deliveries'[d].token

\* A claim on a message stays in order while deliveries move forward.
LEMMA MessageForward ==
  ASSUME MessagingTablesOK, MessagingTablesOK', DeliveriesForward,
         NEW row, NEW m, m.token \in Nat, MessageTidy(row, m)
  PROVE  MessageTidy(row, m)'
<1>1. m.id \in DOMAIN deliveries /\ m.id \in DOMAIN deliveries'
  BY DEF MessageTidy, DeliveriesForward
<1>2. deliveries[m.id].token \in Nat /\ deliveries'[m.id].token \in Nat
  BY <1>1 DEF MessagingTablesOK, IsTable, DeliveryRow
<1> QED
  BY <1>1, <1>2 DEF MessageTidy, DeliveriesForward

\* A coroutine goes on, in a step that may change the tables too.
LEMMA OneMovesForward ==
  ASSUME Inv, Tidy, orphaned \subseteq orphaned', NEW c \in DOMAIN work, UNCHANGED jobs,
         MessagingTablesOK', DeliveriesForward,
         DOMAIN work' = DOMAIN work, \A x \in DOMAIN work : x # c => work'[x] = work[x],
         NEW row, work'[c] = row, RowTidy(row)', row.at # "interrupted"
  PROVE  /\ RowsTidy' /\ InterruptedLast'
         /\ UNCHANGED operations => Acknowledged'
<1>1. RowsTidy'
  <2> SUFFICES ASSUME NEW x \in DOMAIN work, x # c PROVE RowTidy(work[x])'
    BY DEF RowsTidy
  <2>1. PICK old : old = work[x]
    OBVIOUS
  <2>2. RowTidy(old) /\ work'[x] = old
    BY <2>1 DEF Tidy, RowsTidy
  <2>3. \A m \in old.message : m.token \in Nat
    BY <2>1 DEF Inv, TypeOK, EngineTypeOK, Coroutine, Claim
  <2>4. \A m \in old.message : MessageTidy(old, m)'
    BY <2>2, <2>3, MessageForward DEF Inv, TypeOK, CoordinatorTablesOK, RowTidy
  <2> QED
    BY <2>2, <2>4 DEF RowTidy
<1>2. InterruptedLast'
  BY DEF Tidy, InterruptedLast, Attached, EngineOf
<1>3. UNCHANGED operations => Acknowledged'
  BY DEF Tidy, Acknowledged, DeliveriesForward, Receipts
<1> QED
  BY <1>1, <1>2, <1>3

\* The new attempt is held by the coroutine that began it, which had none.
LEMMA BeginsTidy ==
  ASSUME Inv, Tidy, orphaned \subseteq orphaned', NEW c \in DOMAIN work, Begins(c)
  PROVE  Tidy'
<1>1. /\ work[c].at = "beginning"
      /\ UNCHANGED <<clock, resources, leaseVars, messagingVars, commitVars, jobs, keepers, tokens,
                     faults, lost, orphaned>>
  BY DEF Begins, At
<1>2. CASE Ends(c, "failed") /\ UNCHANGED runVars
  <2>1. UNCHANGED <<clock, tableVars>> /\ "failed" # "completed"
    BY <1>1, <1>2 DEF tableVars
  <2>2. clock' \in Nat /\ TablesTidy
    BY <2>1, TablesStayTidy
  <2>3. work[c].at \notin Resting
    BY <1>1 DEF Resting
  <2>4. PICK verdict : verdict = "failed"
    OBVIOUS
  <2>5. WorkTidy /\ JobsTidy
    BY <1>1, <1>2, <2>1, <2>3, <2>4, EndsTidy
  <2> QED
    BY <2>2, <2>5, TidyStep
<1>3. CASE /\ BeginAttempt(c[2], c[4], NameOf(c), TokenOf(c))
           /\ Goes(c, [work[c] EXCEPT !.at = "reading", !.attempt = Len(attempts) + 1])
  <2>1. PICK n, row : /\ n = Len(attempts) + 1
                      /\ row = [work[c] EXCEPT !.at = "reading", !.attempt = n]
    OBVIOUS
  <2>2. /\ attempts \in Seq(AttemptRow) /\ clock \in Nat /\ MessagingTablesOK
        /\ work[c] \in Coroutine(work[c].reads)
    BY DEF Inv, TypeOK, CoordinatorTablesOK, RunTablesOK, EngineTypeOK
  <2>3. /\ row.at = "reading" /\ row.message = work[c].message
        /\ row.attempt = n /\ row.lease = work[c].lease
    BY <2>1, <2>2 DEF Coroutine
  <2>4. /\ work[c].lease = 0 /\ work[c].attempt = 0
        /\ \A m \in work[c].message : MessageTidy(work[c], m)
    BY <1>1 DEF Tidy, RowsTidy, RowTidy
  <2>5. work' = [work EXCEPT ![c] = row]
    BY <1>3, <2>1 DEF Goes
  <2>6. RowTidy(row)'
    BY <1>1, <2>3, <2>4 DEF RowTidy, MessageTidy, Resting, messagingVars
  <2>7. MessagingTablesOK' /\ DeliveriesForward
    <3>1. \A d \in DOMAIN deliveries : deliveries[d].token \in Nat
      BY <2>2 DEF MessagingTablesOK, IsTable, DeliveryRow
    <3> QED
      BY <1>1, <2>2, <3>1 DEF DeliveriesForward, messagingVars, MessagingTablesOK
  <2>8. RowsTidy' /\ InterruptedLast' /\ Acknowledged'
    BY <1>1, <2>3, <2>5, <2>6, <2>7, OneMovesForward DEF commitVars
  <2>9. Staged'
    BY <1>1 DEF Tidy, Staged, Receipts, messagingVars, commitVars
  <2>10. LeasesHeld' /\ MessagesHeld'
    BY <1>1, <2>2, <2>3, <2>5, LeasesStayHeld, MessagesStayHeld
    DEF Tidy, leaseVars, messagingVars
  <2>11. AttemptsHeld'
    <3>1. PICK new : attempts' = Append(attempts, new)
      BY <1>3 DEF BeginAttempt
    <3>2. \A i \in DOMAIN attempts' : i = n \/ (i \in DOMAIN attempts /\ attempts'[i] = attempts[i] /\ i # 0)
      BY <2>1, <2>2, <3>1
    <3>3. ASSUME NEW i \in DOMAIN attempts', attempts'[i].status = "pending"
          PROVE  (\E x \in DOMAIN work' : work'[x].attempt = i) \/ AttemptOrphaned(i)'
      <4>1. CASE i = n
        BY <2>3, <2>5, <4>1
      <4>2. CASE i # n
        <5>1. i \in DOMAIN attempts /\ attempts[i].status = "pending" /\ i # 0
          BY <3>2, <3>3, <4>2
        <5>2. CASE AttemptOrphaned(i)
          BY <5>2 DEF AttemptOrphaned
        <5>3. CASE \E x \in DOMAIN work : work[x].attempt = i
          BY <2>4, <2>5, <5>1, <5>3
        <5> QED
          BY <5>1, <5>2, <5>3 DEF Tidy, AttemptsHeld
      <4> QED
        BY <4>1, <4>2
    <3> QED
      BY <3>3 DEF AttemptsHeld
  <2> QED
    BY <2>8, <2>9, <2>10, <2>11 DEF Tidy
<1> QED
  BY <1>2, <1>3 DEF Begins

\* The new lease is held by the coroutine it was granted, which had none.
LEMMA AcquiresTidy ==
  ASSUME Inv, Tidy, orphaned \subseteq orphaned', NEW c \in DOMAIN work, Acquires(c)
  PROVE  Tidy'
<1>1. PICK keys, me : keys = TaskOf(c).reads /\ me = NameOf(c)
  OBVIOUS
<1>2. /\ work[c].at = "leasing"
      /\ \/ /\ Acquire(me, keys, LeaseSeconds)
            /\ Goes(c, [work[c] EXCEPT !.at = "committing", !.lease = NextToken])
         \/ Ends(c, "retry") /\ UNCHANGED leaseVars
      /\ UNCHANGED <<clock, resources, runVars, messagingVars, commitVars, jobs, keepers, tokens,
                     faults, lost, orphaned>>
  BY <1>1 DEF Acquires, At
<1>3. CASE Ends(c, "retry") /\ UNCHANGED leaseVars
  <2>1. UNCHANGED <<clock, tableVars>> /\ "retry" # "completed"
    BY <1>2, <1>3 DEF tableVars
  <2>2. clock' \in Nat /\ TablesTidy
    BY <2>1, TablesStayTidy
  <2>3. work[c].at \notin Resting
    BY <1>2 DEF Resting
  <2>4. PICK verdict : verdict = "retry"
    OBVIOUS
  <2>5. WorkTidy /\ JobsTidy
    BY <1>2, <1>3, <2>1, <2>3, <2>4, EndsTidy
  <2> QED
    BY <2>2, <2>5, TidyStep
<1>4. CASE /\ Acquire(me, keys, LeaseSeconds)
           /\ Goes(c, [work[c] EXCEPT !.at = "committing", !.lease = NextToken])
  <2>1. PICK token, row : /\ token = lease_sequence + 1
                          /\ row = [work[c] EXCEPT !.at = "committing", !.lease = token]
    OBVIOUS
  <2>2. /\ lease_sequence \in Nat /\ clock \in Nat /\ MessagingTablesOK
        /\ IsTable(leases, Key, LeaseRow) /\ work[c] \in Coroutine(work[c].reads)
    BY DEF Inv, TypeOK, CoordinatorTablesOK, LeaseTablesOK, EngineTypeOK
  <2>3. /\ row.at = "committing" /\ row.message = work[c].message
        /\ row.attempt = work[c].attempt /\ row.lease = token
    BY <2>1, <2>2 DEF Coroutine
  <2>4. work[c].lease = 0 /\ \A m \in work[c].message : MessageTidy(work[c], m)
    BY <1>2 DEF Tidy, RowsTidy, RowTidy
  <2>5. work' = [work EXCEPT ![c] = row]
    BY <1>4, <2>1 DEF Goes, NextToken
  <2>6. RowTidy(row)'
    BY <1>2, <2>3, <2>4 DEF RowTidy, MessageTidy, Resting, messagingVars
  <2>7. MessagingTablesOK' /\ DeliveriesForward
    <3>1. \A d \in DOMAIN deliveries : deliveries[d].token \in Nat
      BY <2>2 DEF MessagingTablesOK, IsTable, DeliveryRow
    <3> QED
      BY <1>2, <2>2, <3>1 DEF DeliveriesForward, messagingVars, MessagingTablesOK
  <2>8. RowsTidy' /\ InterruptedLast' /\ Acknowledged'
    BY <1>2, <2>3, <2>5, <2>6, <2>7, OneMovesForward DEF commitVars
  <2>9. Staged'
    BY <1>2 DEF Tidy, Staged, Receipts, messagingVars, commitVars
  <2>10. AttemptsHeld' /\ MessagesHeld'
    BY <1>2, <2>2, <2>3, <2>5, AttemptsStayHeld, MessagesStayHeld
    DEF Tidy, runVars, messagingVars
  <2>11. LeasesHeld'
    <3>1. PICK granted : /\ DOMAIN granted = keys /\ leases' = Upsert(leases, granted)
                         /\ \A k \in keys : granted[k].owner = me /\ granted[k].token = token
      BY <1>4, <2>1 DEF Acquire, GrantedRows, NextToken
    <3>2. ASSUME NEW k \in DOMAIN leases', Unexpired(leases'[k].expires_at)
          PROVE  \/ \E x \in DOMAIN work' :
                      NameOf(x) = leases'[k].owner /\ work'[x].lease = leases'[k].token
                 \/ LeaseOrphaned(leases[k])'
      <4>1. CASE k \in keys
        <5>1. leases'[k].owner = me /\ leases'[k].token = token
          BY <3>1, <4>1 DEF Upsert
        <5> QED
          BY <1>1, <2>3, <2>5, <5>1
      <4>2. CASE k \notin keys
        <5>1. k \in DOMAIN leases /\ leases'[k] = leases[k] /\ leases[k].token # 0
          BY <2>2, <3>1, <4>2 DEF Upsert, IsTable, LeaseRow
        <5>2. CASE LeaseOrphaned(leases[k])
          BY <5>1, <5>2 DEF LeaseOrphaned
        <5>3. CASE \E x \in DOMAIN work : HoldsLease(x, k)
          BY <2>4, <2>5, <5>1, <5>3 DEF HoldsLease
        <5> QED
          BY <3>2, <5>1, <5>2, <5>3 DEF Tidy, LeasesHeld
      <4> QED
        BY <4>1, <4>2
    <3> QED
      BY <1>2, <3>2 DEF LeasesHeld, HoldsLease, Unexpired, NameOf
  <2> QED
    BY <2>8, <2>9, <2>10, <2>11 DEF Tidy
<1> QED
  BY <1>2, <1>3, <1>4

\* Claiming and burying only move deliveries forward.
LEMMA ClaimForward ==
  ASSUME MessagingTablesOK, clock \in Nat, NEW kind, NEW destination, NEW owner, NEW ttl, NEW D,
         ClaimUpdate(kind, destination, owner, ttl, D),
         D \subseteq WaitingAt(kind, destination)
  PROVE  /\ DeliveriesForward
         /\ DOMAIN deliveries' = DOMAIN deliveries
         /\ \A d \in DOMAIN deliveries : deliveries'[d].status = "inflight" =>
              \/ deliveries'[d] = deliveries[d]
              \/ /\ d \in D /\ deliveries'[d].owner = owner
                 /\ deliveries'[d].token = deliveries[d].token + 1
<1> SUFFICES ASSUME NEW d \in DOMAIN deliveries
    PROVE /\ deliveries[d].token <= deliveries'[d].token
          /\ deliveries[d].status = "delivered" => deliveries'[d].status = "delivered"
          /\ deliveries'[d].status = "inflight" =>
               \/ deliveries'[d] = deliveries[d]
               \/ /\ d \in D /\ deliveries'[d].owner = owner
                  /\ deliveries'[d].token = deliveries[d].token + 1
          /\ deliveries[d].token \in Nat
  BY DEF DeliveriesForward, ClaimUpdate
<1>1. PICK row : row = deliveries[d]
  OBVIOUS
<1>2. row \in DeliveryRow /\ row.token \in Nat
  BY <1>1 DEF MessagingTablesOK, IsTable, DeliveryRow
<1>3. CASE d \in Exhausted(kind, destination)
  <2>1. deliveries'[d] = Buried(row) /\ row.status # "delivered"
    BY <1>1, <1>3 DEF ClaimUpdate, Exhausted, WaitingAt, Waiting
  <2>2. Buried(row).status = "dead" /\ Buried(row).token = row.token
    BY <1>2 DEF Buried, DeliveryRow
  <2> QED
    BY <1>1, <1>2, <2>1, <2>2
<1>4. CASE d \notin Exhausted(kind, destination) /\ d \in D
  <2>1. deliveries'[d] = Claimed(row, owner, ttl) /\ row.status # "delivered"
    BY <1>1, <1>4 DEF ClaimUpdate, WaitingAt, Waiting
  <2>2. PICK token, expiry, tries :
          token = row.token + 1 /\ expiry = clock + ttl /\ tries = row.attempts + 1
    OBVIOUS
  <2>3. Claimed(row, owner, ttl) =
          [row EXCEPT !.status = "inflight", !.owner = owner, !.token = token,
                      !.expires_at = expiry, !.attempts = tries]
    BY <2>2 DEF Claimed
  <2>4. Claimed(row, owner, ttl).token = token /\ Claimed(row, owner, ttl).owner = owner
    BY <1>2, <2>3 DEF DeliveryRow
  <2> QED
    BY <1>1, <1>2, <1>4, <2>1, <2>2, <2>4
<1>5. CASE d \notin Exhausted(kind, destination) /\ d \notin D
  BY <1>1, <1>2, <1>5 DEF ClaimUpdate
<1> QED
  BY <1>3, <1>4, <1>5

\* The claimed message is held by the coroutine that claimed it, which had none; what is
\* buried by the same transaction nobody holds any longer.
LEMMA ReceivesTidy ==
  ASSUME Inv, Tidy, orphaned \subseteq orphaned', NEW c \in DOMAIN work, Receives(c)
  PROVE  Tidy'
<1>1. PICK inbox, me, w : inbox = TaskOf(c).inbox /\ me = NameOf(c) /\ w = c[2]
  OBVIOUS
<1>2. /\ work[c].at = "listening"
      /\ \/ \E id \in DOMAIN deliveries :
              /\ ClaimDelivery(id, "message", inbox, me, InboxTtl, {w})
              /\ Goes(c, [work[c] EXCEPT !.at = "beginning",
                   !.message = {[id |-> id, owner |-> me, token |-> deliveries[id].token + 1]}])
         \/ ClaimNothing("message", inbox, {w}) /\ UNCHANGED work
      /\ UNCHANGED <<clock, resources, leaseVars, runVars, commitVars, jobs, keepers,
                     tokens, faults, lost, orphaned>>
  BY <1>1 DEF Receives, At
<1>3. /\ MessagingTablesOK /\ clock \in Nat /\ InboxTtl \in Nat /\ me \in Owner
      /\ work[c] \in Coroutine(work[c].reads)
  BY <1>1, CoroutineTyped, EngineAssumption
  DEF Inv, TypeOK, CoordinatorTablesOK, EngineTypeOK
<1>4. HoldsNothing(work[c])
  BY <1>2, RestsLetGo DEF Resting
<1>5. UNCHANGED <<clock, leases, attempts, operations, jobs>>
  BY <1>2 DEF leaseVars, runVars, commitVars
<1>6. ASSUME NEW row, DOMAIN work' = DOMAIN work, work'[c] = row,
             \A x \in DOMAIN work : x # c => work'[x] = work[x],
             MessagingTablesOK', DeliveriesForward, DOMAIN deliveries' = DOMAIN deliveries,
             RowTidy(row)', row.at # "interrupted", row.attempt = 0, row.lease = 0, MessagesHeld'
      PROVE  Tidy'
  <2>1. RowsTidy' /\ InterruptedLast' /\ Acknowledged'
    BY <1>2, <1>6, OneMovesForward DEF commitVars
  <2>2. Staged'
    BY <1>2, <1>6 DEF Tidy, Staged, Receipts, commitVars
  <2>3. LeasesHeld' /\ AttemptsHeld'
    <3>1. /\ clock' \in Nat /\ clock <= clock'
          /\ \A x \in DOMAIN work :
               /\ work[x].lease = 0 \/ work'[x].lease = work[x].lease
               /\ work[x].attempt = 0 \/ work'[x].attempt = work[x].attempt
      BY <1>3, <1>4, <1>6, <1>5 DEF HoldsNothing
    <3> QED
      BY <1>6, <1>5, <3>1, LeasesStayHeld, AttemptsStayHeld DEF Tidy
  <2> QED
    BY <1>6, <2>1, <2>2, <2>3 DEF Tidy
<1>7. ASSUME NEW id \in DOMAIN deliveries, ClaimDelivery(id, "message", inbox, me, InboxTtl, {w}),
             Goes(c, [work[c] EXCEPT !.at = "beginning",
                   !.message = {[id |-> id, owner |-> me, token |-> deliveries[id].token + 1]}])
      PROVE  Tidy'
  <2>1. PICK m : m = [id |-> id, owner |-> me, token |-> deliveries[id].token + 1]
    OBVIOUS
  <2>2. PICK row : row = [work[c] EXCEPT !.at = "beginning", !.message = {m}]
    OBVIOUS
  <2>3. /\ row.at = "beginning" /\ row.message = {m}
        /\ row.attempt = 0 /\ row.lease = 0
    BY <1>3, <1>4, <2>2 DEF Coroutine, HoldsNothing
  <2>4. work' = [work EXCEPT ![c] = row]
    BY <1>7, <2>1, <2>2 DEF Goes
  <2>5. MessagingTablesOK'
    BY <1>3, <1>7, ClaimDeliveryTypes
  <2>6. /\ DeliveriesForward /\ DOMAIN deliveries' = DOMAIN deliveries
        /\ \A d \in DOMAIN deliveries : deliveries'[d].status = "inflight" =>
              \/ deliveries'[d] = deliveries[d]
              \/ /\ d = id /\ deliveries'[d].owner = me
                 /\ deliveries'[d].token = deliveries[d].token + 1
        /\ id \notin Exhausted("message", inbox) /\ id \in WaitingAt("message", inbox)
    <3>1. PICK kind, D : kind = "message" /\ D = {id}
      OBVIOUS
    <3>2. /\ ClaimUpdate(kind, inbox, me, InboxTtl, D)
          /\ id \in WaitingAt(kind, inbox) /\ id \notin Exhausted(kind, inbox)
      <4>1. id \in Eligible(kind, inbox, {w}) /\ ClaimUpdate(kind, inbox, me, InboxTtl, D)
        BY <1>7, <3>1 DEF ClaimDelivery, Oldest
      <4>2. deliveries[id].attempts \in Nat
        BY <1>3 DEF MessagingTablesOK, IsTable, DeliveryRow
      <4> QED
        BY <4>1, <4>2, MessagingAssumption DEF Eligible, Exhausted
    <3>3. /\ DeliveriesForward /\ DOMAIN deliveries' = DOMAIN deliveries
          /\ \A d \in DOMAIN deliveries : deliveries'[d].status = "inflight" =>
              \/ deliveries'[d] = deliveries[d]
              \/ /\ d \in D /\ deliveries'[d].owner = me
                 /\ deliveries'[d].token = deliveries[d].token + 1
      BY <1>3, <3>1, <3>2, ClaimForward
    <3> QED
      BY <3>1, <3>2, <3>3
  <2>7. deliveries'[id].owner = me /\ deliveries'[id].token = deliveries[id].token + 1
    <3>1. PICK old : old = deliveries[id] /\ old \in DeliveryRow
      BY <1>3 DEF MessagingTablesOK, IsTable
    <3>2. deliveries'[id] = Claimed(old, me, InboxTtl)
      BY <1>7, <2>6, <3>1 DEF ClaimDelivery, ClaimUpdate
    <3>3. /\ Claimed(old, me, InboxTtl).owner = me
          /\ Claimed(old, me, InboxTtl).token = old.token + 1
      BY <1>3, <3>1, RowUpdates
    <3> QED
      BY <3>1, <3>2, <3>3
  <2>8. RowTidy(row)'
    <3>1. deliveries'[id].token \in Nat /\ m.token = deliveries'[id].token /\ m.id = id /\ m.owner = me
      BY <2>1, <2>5, <2>6, <2>7 DEF MessagingTablesOK, IsTable, DeliveryRow
    <3>2. MessageTidy(row, m)'
      BY <2>3, <2>6, <2>7, <3>1 DEF MessageTidy
    <3> QED
      BY <2>3, <3>2 DEF RowTidy, Resting
  <2>9. MessagesHeld'
    <3>1. ASSUME NEW d \in DOMAIN deliveries, InFlight(d)'
          PROVE  \/ \E x \in DOMAIN work' :
                      \E n \in work'[x].message : n.id = d /\ n.token = deliveries'[d].token
                 \/ MessageOrphaned(d, deliveries[d])'
      <4>1. CASE d = id
        BY <2>1, <2>3, <2>4, <2>7, <4>1
      <4>2. CASE d # id
        <5>1. deliveries'[d] = deliveries[d] /\ InFlight(d)
          BY <1>2, <2>6, <3>1, <4>2 DEF InFlight, Unexpired
        <5>2. CASE MessageOrphaned(d, deliveries[d])
          BY <5>1, <5>2 DEF MessageOrphaned
        <5>3. CASE \E x \in DOMAIN work : HoldsMessage(x, d)
          BY <1>4, <2>4, <5>1, <5>3 DEF HoldsMessage, HoldsNothing
        <5> QED
          BY <5>1, <5>2, <5>3 DEF Tidy, MessagesHeld
      <4> QED
        BY <4>1, <4>2
    <3> QED
      BY <2>6, <3>1 DEF MessagesHeld, HoldsMessage
  <2> QED
    BY <1>6, <2>3, <2>4, <2>5, <2>6, <2>8, <2>9
<1>8. ASSUME ClaimNothing("message", inbox, {w}), UNCHANGED work
      PROVE  Tidy'
  <2>1. MessagingTablesOK'
    BY <1>3, <1>8, ClaimNothingTypes
  <2>2. /\ DeliveriesForward /\ DOMAIN deliveries' = DOMAIN deliveries
        /\ \A d \in DOMAIN deliveries : deliveries'[d].status = "inflight" =>
              deliveries'[d] = deliveries[d]
    <3>1. PICK kind, D, owner, ttl : kind = "message" /\ D = {} /\ owner = NoOwner /\ ttl = 0
      OBVIOUS
    <3>2. ClaimUpdate(kind, inbox, owner, ttl, D) /\ D \subseteq WaitingAt(kind, inbox)
      BY <1>8, <3>1 DEF ClaimNothing
    <3> QED
      BY <1>3, <3>1, <3>2, ClaimForward
  <2>3. PICK row : row = work[c]
    OBVIOUS
  <2>4. RowTidy(row)'
    BY <1>2, <1>4, <2>3 DEF RowTidy, HoldsNothing
  <2>5. MessagesHeld'
    <3>1. clock' \in Nat /\ clock <= clock'
      BY <1>3, <1>5
    <3> QED
      BY <1>8, <2>2, <3>1, MessagesStayHeld DEF Tidy
  <2> QED
    BY <1>2, <1>4, <1>6, <1>8, <2>1, <2>2, <2>3, <2>4, <2>5 DEF HoldsNothing
<1> QED
  BY <1>2, <1>7, <1>8

\* A commit delivers what it acknowledges, and what it stages was never there before.
LEMMA CommitForward ==
  ASSUME MessagingTablesOK, Staged, clock \in Nat, NEW r, Commit(r), r.workflow \in Workflow,
         r.operation \in Task, r.envelopes \subseteq Envelope
  PROVE  /\ DeliveriesForward
         /\ \A a \in r.acknowledgements :
              a.id \in DOMAIN deliveries /\ deliveries'[a.id].status = "delivered"
         /\ \A d \in DOMAIN deliveries' :
              /\ d \in DOMAIN deliveries \/ (d[1] = r.workflow /\ d[2] = r.operation)
              /\ deliveries'[d].status = "inflight" =>
                   d \in DOMAIN deliveries /\ deliveries'[d] = deliveries[d]
<1>1. PICK w, op, envelopes, rows, acks :
        /\ w = r.workflow /\ op = r.operation /\ envelopes = r.envelopes
        /\ rows = StagedRows(w, op, envelopes) /\ acks = r.acknowledgements
  OBVIOUS
<1>2. /\ w \in Workflow /\ op \in Task /\ envelopes \in SUBSET Envelope
      /\ <<w, op>> \notin Receipts
      /\ \A a \in acks : a.id \in DOMAIN deliveries
      /\ deliveries' = Consumed(Upsert(deliveries, rows), acks)
  BY <1>1 DEF Commit, CommitAllowed, ContentAllowed, AcknowledgeAllowed, Held, Unanswered,
              Receipts, StageEnvelopes
<1>3. \A d \in DOMAIN rows : d[1] = w /\ d[2] = op /\ rows[d].status = "pending"
  BY <1>1, <1>2, StagedRowsTypes
<1>4. DOMAIN rows \intersect DOMAIN deliveries = {}
  BY <1>2, <1>3 DEF Staged
<1>5. DOMAIN deliveries' = DOMAIN deliveries \union DOMAIN rows
  BY <1>2 DEF Consumed, Upsert
<1>6. \A d \in DOMAIN deliveries :
        /\ deliveries[d] \in DeliveryRow /\ deliveries[d].token \in Nat
        /\ Delivered(deliveries[d]).status = "delivered"
        /\ Delivered(deliveries[d]).token = deliveries[d].token
  BY DEF MessagingTablesOK, IsTable, DeliveryRow, Delivered
<1>7. \A d \in DOMAIN deliveries :
        deliveries'[d] = IF \E a \in acks : a.id = d THEN Delivered(deliveries[d])
                         ELSE deliveries[d]
  BY <1>2, <1>4 DEF Consumed, Upsert
<1>8. \A d \in DOMAIN rows : deliveries'[d] = rows[d]
  BY <1>2, <1>4 DEF Consumed, Upsert
<1>9. DeliveriesForward
  BY <1>5, <1>6, <1>7 DEF DeliveriesForward
<1>10. \A a \in acks : a.id \in DOMAIN deliveries /\ deliveries'[a.id].status = "delivered"
  BY <1>2, <1>6, <1>7
<1>11. ASSUME NEW d \in DOMAIN deliveries'
       PROVE  /\ d \in DOMAIN deliveries \/ (d[1] = w /\ d[2] = op)
              /\ deliveries'[d].status = "inflight" =>
                   d \in DOMAIN deliveries /\ deliveries'[d] = deliveries[d]
  BY <1>3, <1>5, <1>6, <1>7, <1>8
<1> QED
  BY <1>1, <1>9, <1>10, <1>11

\* The messages a commit consumed are delivered, and its attempt is closed, whether its
\* answer came back or not.
LEMMA CommitsTidy ==
  ASSUME Inv, Inv', Tidy, orphaned \subseteq orphaned', NEW c \in DOMAIN work,
         Commits(c) \/ CommitsUnanswered(c)
  PROVE  Tidy'
<1>1. PICK w, t, r : w = c[2] /\ t = c[4] /\ r = Request(c)
  OBVIOUS
<1>2. /\ r.workflow = w /\ r.operation = t /\ r.attempt = work[c].attempt
      /\ r.acknowledgements = work[c].message /\ r.envelopes = work[c].plan.envelopes
  BY <1>1 DEF Request
<1>3. w \in Workflow /\ t \in Task /\ r.envelopes \subseteq Envelope
  <2>1. work[c].plan \in {NoPlan} \union UNION {Plans[x] : x \in Task}
    BY DEF Inv, TypeOK, EngineTypeOK, Coroutine
  <2>2. NoPlan.envelopes = {}
    BY DEF NoPlan
  <2> QED
    BY <1>1, <1>2, <2>1, <2>2, CoroutineTyped, EngineAssumption
<1>4. /\ work[c].at = "committing" /\ Commit(r)
      /\ Ends(c, "completed") \/ Ends(c, "failed")
      /\ UNCHANGED <<clock, jobs, leases>>
  BY <1>1 DEF Commits, CommitsUnanswered, At, Commit, leaseVars
<1>5. /\ MessagingTablesOK /\ MessagingTablesOK' /\ clock \in Nat
      /\ attempts \in Seq(AttemptRow) /\ work[c] \in Coroutine(work[c].reads)
  BY DEF Inv, TypeOK, CoordinatorTablesOK, RunTablesOK, EngineTypeOK
<1>6. /\ DeliveriesForward
      /\ \A m \in work[c].message :
           m.id \in DOMAIN deliveries /\ deliveries'[m.id].status = "delivered"
      /\ \A d \in DOMAIN deliveries' :
           /\ d \in DOMAIN deliveries \/ (d[1] = w /\ d[2] = t)
           /\ deliveries'[d].status = "inflight" =>
                d \in DOMAIN deliveries /\ deliveries'[d] = deliveries[d]
  BY <1>2, <1>3, <1>4, <1>5, CommitForward DEF Tidy
<1>7. PICK at, verdict, row :
        at = "cleaning" /\ Ends(c, verdict) /\ row = Going(c, at, verdict)
  BY <1>4
<1>8. /\ row.at = at /\ row.verdict = verdict /\ row.message = work[c].message
      /\ row.attempt = work[c].attempt /\ row.lease = work[c].lease
  BY <1>5, <1>7 DEF Going, Coroutine
<1>9. work' = [work EXCEPT ![c] = row]
  BY <1>7 DEF Ends, Goes, Going
<1>10. RowTidy(row)'
  <2>1. ASSUME NEW m \in row.message
        PROVE  /\ m.id \in DOMAIN deliveries' /\ m.token <= deliveries'[m.id].token
               /\ deliveries'[m.id].status = "delivered"
    <3>1. m \in work[c].message /\ m.token \in Nat /\ MessageTidy(work[c], m)
      BY <1>5, <1>8, <2>1 DEF Coroutine, Claim, Tidy, RowsTidy, RowTidy
    <3>2. /\ m.id \in DOMAIN deliveries /\ deliveries[m.id].token \in Nat
          /\ m.token <= deliveries[m.id].token
          /\ m.id \in DOMAIN deliveries' /\ deliveries'[m.id].token \in Nat
          /\ deliveries[m.id].token <= deliveries'[m.id].token
      BY <1>5, <1>6, <3>1 DEF MessageTidy, DeliveriesForward, MessagingTablesOK, IsTable, DeliveryRow
    <3> QED
      BY <1>6, <3>1, <3>2
  <2> QED
    BY <1>7, <1>8, <2>1 DEF RowTidy, MessageTidy, Resting
<1>11. RowsTidy' /\ InterruptedLast'
  BY <1>4, <1>5, <1>6, <1>7, <1>8, <1>9, <1>10, OneMovesForward
<1>12. PICK new : /\ operations' = Insert(operations, <<w, t>>, new)
                  /\ new.fingerprint.acknowledged = {a.id : a \in work[c].message}
  <2>1. PICK receipt : receipt = [fingerprint |-> Fingerprint(r), resources |-> ProposedBy(r),
                           envelope_ids |-> {<<w, t, e.id>> : e \in r.envelopes}]
    OBVIOUS
  <2>2. operations' = Insert(operations, <<w, t>>, receipt)
    BY <1>2, <1>4, <2>1 DEF Commit
  <2>3. receipt.fingerprint = Fingerprint(r)
    BY <2>1
  <2>4. Fingerprint(r).acknowledged = {a.id : a \in work[c].message}
    BY <1>2 DEF Fingerprint
  <2> QED
    BY <2>2, <2>3, <2>4
<1>13. /\ Receipts' = Receipts \union {<<w, t>>}
       /\ \A o \in Receipts' : o = <<w, t>> \/ operations'[o] = operations[o]
       /\ operations'[<<w, t>>] = new
  BY <1>12 DEF Insert, Upsert, Receipts
<1>14. Acknowledged' /\ Staged'
  <2>1. Staged'
    BY <1>6, <1>13 DEF Tidy, Staged
  <2>2. ASSUME NEW o \in Receipts', NEW d \in operations'[o].fingerprint.acknowledged
        PROVE  d \in DOMAIN deliveries' /\ deliveries'[d].status = "delivered"
    <3>1. CASE o = <<w, t>>
      BY <1>6, <1>12, <1>13, <2>2, <3>1 DEF DeliveriesForward
    <3>2. CASE o # <<w, t>>
      <4>1. o \in Receipts /\ d \in operations[o].fingerprint.acknowledged
        BY <1>13, <2>2, <3>2
      <4> QED
        BY <1>6, <4>1 DEF Tidy, Acknowledged, DeliveriesForward
    <3> QED
      BY <3>1, <3>2
  <2> QED
    BY <2>1, <2>2 DEF Acknowledged
<1>15. \A x \in DOMAIN work :
         /\ x \in DOMAIN work' /\ work'[x].message = work[x].message
         /\ work'[x].attempt = work[x].attempt /\ work'[x].lease = work[x].lease
  BY <1>8, <1>9
<1>16. LeasesHeld' /\ MessagesHeld'
  <2>1. clock' \in Nat /\ clock <= clock'
    BY <1>4, <1>5
  <2> QED
    BY <1>4, <1>6, <1>15, <2>1, LeasesStayHeld, MessagesStayHeld DEF Tidy
<1>17. AttemptsHeld'
  <2>1. \A i \in DOMAIN attempts' : attempts'[i].status = "pending" =>
          i \in DOMAIN attempts /\ attempts[i].status = "pending"
    <3>1. PICK id : id = r.attempt
      OBVIOUS
    <3>2. attempts' = [attempts EXCEPT ![id].status = "committed"]
      BY <1>4, <3>1 DEF Commit
    <3>3. \A i \in DOMAIN attempts : attempts[i] \in AttemptRow
      BY <1>5
    <3> QED
      BY <3>2, <3>3 DEF AttemptRow
  <2> QED
    BY <1>15, <2>1, AttemptsStayHeld DEF Tidy
<1> QED
  BY <1>11, <1>14, <1>16, <1>17 DEF Tidy

\* A coroutine that gives something back keeps the rest.
LEMMA GivesBackTidy ==
  ASSUME Inv, Inv', Tidy, orphaned \subseteq orphaned',
         NEW c \in DOMAIN work, work[c].at = "cleaning",
         UNCHANGED <<clock, operations, jobs>>, DeliveriesForward,
         DOMAIN deliveries' = DOMAIN deliveries,
         NEW row, work' = [work EXCEPT ![c] = row], row.at = "cleaning",
         row.verdict = work[c].verdict, row.message \subseteq work[c].message
  PROVE  RowsTidy' /\ InterruptedLast' /\ Acknowledged' /\ Staged' /\ clock' \in Nat /\ clock <= clock'
<1>1. /\ MessagingTablesOK /\ MessagingTablesOK' /\ clock \in Nat
      /\ work[c] \in Coroutine(work[c].reads)
  BY DEF Inv, TypeOK, CoordinatorTablesOK, EngineTypeOK
<1>2. RowTidy(row)'
  <2>1. PICK old : old = work[c]
    OBVIOUS
  <2>2. \A m \in old.message : m.token \in Nat /\ MessageTidy(old, m)
    BY <1>1, <2>1 DEF Coroutine, Claim, Tidy, RowsTidy, RowTidy
  <2>3. \A m \in old.message : MessageTidy(old, m)'
    BY <1>1, <2>2, MessageForward
  <2> QED
    BY <2>1, <2>3 DEF RowTidy, MessageTidy, Resting
<1>3. RowsTidy' /\ InterruptedLast' /\ Acknowledged'
  BY <1>1, <1>2, OneMovesForward
<1>4. Staged'
  BY DEF Tidy, Staged, Receipts
<1> QED
  BY <1>1, <1>3, <1>4

\* Deliveries that stay as they are have not moved back.
LEMMA DeliveriesStay ==
  ASSUME Inv, UNCHANGED deliveries
  PROVE  DeliveriesForward
<1>1. \A d \in DOMAIN deliveries : deliveries[d].token \in Nat
  BY DEF Inv, TypeOK, CoordinatorTablesOK, MessagingTablesOK, IsTable, DeliveryRow
<1> QED
  BY <1>1 DEF DeliveriesForward

\* Each transaction of the finally block frees what the coroutine then forgets; a message
\* it can no longer reject is no longer in flight under its token.
LEMMA CleansTidy ==
  ASSUME Inv, Inv', Tidy, orphaned \subseteq orphaned', NEW c \in DOMAIN work, Cleans(c)
  PROVE  Tidy'
<1>1. /\ work[c].at = "cleaning"
      /\ UNCHANGED <<clock, operations, jobs>>
  BY DEF Cleans, At, commitVars
<1>2. PICK reads : reads = work[c].reads
  OBVIOUS
<1>3. /\ MessagingTablesOK /\ work[c] \in Coroutine(reads)
      /\ attempts \in Seq(AttemptRow)
      /\ \A m, n \in work[c].message : m = n
  BY <1>2 DEF Inv, TypeOK, CoordinatorTablesOK, EngineTypeOK, RunTablesOK
<1>4. \/ /\ work[c].message # {}
         /\ \E m \in work[c].message :
             \/ RejectDelivery(m.id, m.owner, m.token, 0)
             \/ ~(Held(m.id, m.owner, m.token) /\ InFlight(m.id)) /\ UNCHANGED messagingVars
         /\ Goes(c, [work[c] EXCEPT !.message = {}])
         /\ UNCHANGED <<leases, attempts>>
      \/ /\ Release(NameOf(c), work[c].lease)
         /\ Goes(c, [work[c] EXCEPT !.lease = 0])
         /\ UNCHANGED <<deliveries, attempts>>
      \/ /\ \/ AbandonAttempt(work[c].attempt)
            \/ attempts[work[c].attempt].status # "pending" /\ UNCHANGED attempts
         /\ Goes(c, [work[c] EXCEPT !.attempt = 0])
         /\ UNCHANGED <<deliveries, leases>>
  BY DEF Cleans, leaseVars, runVars, messagingVars
<1>5. CASE /\ \E m \in work[c].message :
               \/ RejectDelivery(m.id, m.owner, m.token, 0)
               \/ ~(Held(m.id, m.owner, m.token) /\ InFlight(m.id)) /\ UNCHANGED messagingVars
           /\ Goes(c, [work[c] EXCEPT !.message = {}])
           /\ UNCHANGED <<leases, attempts>>
  <2>1. PICK row : row = [work[c] EXCEPT !.message = {}]
    OBVIOUS
  <2>2. /\ row.at = work[c].at /\ row.verdict = work[c].verdict /\ row.message = {}
        /\ row.attempt = work[c].attempt /\ row.lease = work[c].lease
    BY <1>3, <2>1 DEF Coroutine
  <2>3. work' = [work EXCEPT ![c] = row]
    BY <1>5, <2>1 DEF Goes
  <2>4. PICK m \in work[c].message :
          \/ RejectDelivery(m.id, m.owner, m.token, 0)
          \/ ~(Held(m.id, m.owner, m.token) /\ InFlight(m.id)) /\ UNCHANGED messagingVars
    BY <1>5
  <2>5. MessageTidy(work[c], m)
    BY DEF Tidy, RowsTidy, RowTidy
  <2>6. /\ DeliveriesForward /\ DOMAIN deliveries' = DOMAIN deliveries
        /\ \A d \in DOMAIN deliveries' : deliveries'[d].status = "inflight" =>
             deliveries'[d] = deliveries[d]
        /\ ~(InFlight(m.id)' /\ m.token = deliveries'[m.id].token)
    <3>1. CASE ~(Held(m.id, m.owner, m.token) /\ InFlight(m.id)) /\ UNCHANGED messagingVars
      <4>1. UNCHANGED deliveries /\ DeliveriesForward
        BY <3>1, DeliveriesStay DEF messagingVars
      <4>2. ~(InFlight(m.id) /\ m.token = deliveries[m.id].token)
        BY <2>5, <3>1 DEF MessageTidy, Held, InFlight
      <4> QED
        BY <1>1, <4>1, <4>2 DEF InFlight, Unexpired
    <3>2. CASE RejectDelivery(m.id, m.owner, m.token, 0)
      <4>1. PICK id, zero, old, new :
              /\ id = m.id /\ zero = 0 /\ old = deliveries[id] /\ new = Returned(old, zero)
        OBVIOUS
      <4>2. /\ id \in DOMAIN deliveries /\ old.status = "inflight"
            /\ deliveries' = [deliveries EXCEPT ![id] = new]
        BY <3>2, <4>1 DEF RejectDelivery, Held, InFlight
      <4>3. \A d \in DOMAIN deliveries : deliveries[d].token \in Nat
        BY <1>3 DEF MessagingTablesOK, IsTable, DeliveryRow
      <4>4. old \in DeliveryRow
        BY <1>3, <4>1, <4>2 DEF MessagingTablesOK, IsTable
      <4>5. new.token = old.token /\ new.status \in {"dead", "pending"}
        BY <4>1, <4>4 DEF Returned, DeliveryRow
      <4> QED
        BY <4>1, <4>2, <4>3, <4>5 DEF DeliveriesForward, InFlight
    <3> QED
      BY <2>4, <3>1, <3>2
  <2>7. RowsTidy' /\ InterruptedLast' /\ Acknowledged' /\ Staged' /\ clock' \in Nat /\ clock <= clock'
    BY <1>1, <2>2, <2>3, <2>6, GivesBackTidy
  <2>8. LeasesHeld' /\ AttemptsHeld'
    BY <1>5, <2>2, <2>3, <2>7, LeasesStayHeld, AttemptsStayHeld DEF Tidy
  <2>9. MessagesHeld'
    <3>1. \A n \in work[c].message : n = m
      BY <1>3
    <3> QED
      BY <2>3, <2>6, <2>7, <3>1, MessagesStayHeld DEF Tidy
  <2> QED
    BY <2>7, <2>8, <2>9 DEF Tidy
<1>6. CASE /\ Release(NameOf(c), work[c].lease)
           /\ Goes(c, [work[c] EXCEPT !.lease = 0])
           /\ UNCHANGED <<deliveries, attempts>>
  <2>1. PICK row : row = [work[c] EXCEPT !.lease = 0]
    OBVIOUS
  <2>2. /\ row.at = work[c].at /\ row.verdict = work[c].verdict /\ row.message = work[c].message
        /\ row.attempt = work[c].attempt /\ row.lease = 0
    BY <1>3, <2>1 DEF Coroutine
  <2>3. work' = [work EXCEPT ![c] = row]
    BY <1>6, <2>1 DEF Goes
  <2>4. DeliveriesForward /\ DOMAIN deliveries' = DOMAIN deliveries
    BY <1>6, DeliveriesStay
  <2>5. RowsTidy' /\ InterruptedLast' /\ Acknowledged' /\ Staged' /\ clock' \in Nat /\ clock <= clock'
    BY <1>1, <2>2, <2>3, <2>4, GivesBackTidy
  <2>6. AttemptsHeld' /\ MessagesHeld'
    BY <1>6, <2>2, <2>3, <2>5, AttemptsStayHeld, MessagesStayHeld DEF Tidy
  <2>7. LeasesHeld'
    <3>1. ASSUME NEW k \in DOMAIN leases', Unexpired(leases'[k].expires_at)
          PROVE  \/ \E x \in DOMAIN work' :
                      NameOf(x) = leases'[k].owner /\ work'[x].lease = leases'[k].token
                 \/ LeaseOrphaned(leases[k])'
      <4>1. /\ k \in DOMAIN leases /\ leases'[k] = leases[k]
            /\ ~(leases[k].owner = NameOf(c) /\ leases[k].token = work[c].lease)
        BY <1>6, <3>1 DEF Release, Delete, RowsOf
      <4>2. CASE LeaseOrphaned(leases[k])
        BY <4>1, <4>2 DEF LeaseOrphaned
      <4>3. CASE \E x \in DOMAIN work : HoldsLease(x, k)
        BY <2>3, <4>1, <4>3 DEF HoldsLease
      <4> QED
        BY <3>1, <4>1, <4>2, <4>3 DEF Tidy, LeasesHeld
    <3> QED
      BY <1>1, <3>1 DEF LeasesHeld, HoldsLease, Unexpired, NameOf
  <2> QED
    BY <2>5, <2>6, <2>7 DEF Tidy
<1>7. CASE /\ \/ AbandonAttempt(work[c].attempt)
              \/ attempts[work[c].attempt].status # "pending" /\ UNCHANGED attempts
           /\ Goes(c, [work[c] EXCEPT !.attempt = 0])
           /\ UNCHANGED <<deliveries, leases>>
  <2>1. PICK row, id : row = [work[c] EXCEPT !.attempt = 0] /\ id = work[c].attempt
    OBVIOUS
  <2>2. /\ row.at = work[c].at /\ row.verdict = work[c].verdict /\ row.message = work[c].message
        /\ row.attempt = 0 /\ row.lease = work[c].lease
    BY <1>3, <2>1 DEF Coroutine
  <2>3. work' = [work EXCEPT ![c] = row]
    BY <1>7, <2>1 DEF Goes
  <2>4. DeliveriesForward /\ DOMAIN deliveries' = DOMAIN deliveries
    BY <1>7, DeliveriesStay
  <2>5. RowsTidy' /\ InterruptedLast' /\ Acknowledged' /\ Staged' /\ clock' \in Nat /\ clock <= clock'
    BY <1>1, <2>2, <2>3, <2>4, GivesBackTidy
  <2>6. LeasesHeld' /\ MessagesHeld'
    BY <1>7, <2>2, <2>3, <2>5, LeasesStayHeld, MessagesStayHeld DEF Tidy
  <2>7. AttemptsHeld'
    <3>1. \A i \in DOMAIN attempts' : attempts'[i].status = "pending" =>
            i \in DOMAIN attempts /\ attempts[i].status = "pending" /\ i # id
      <4>1. CASE AbandonAttempt(work[c].attempt)
        <5>1. attempts' = [attempts EXCEPT ![id].status = "abandoned"]
          BY <2>1, <4>1 DEF AbandonAttempt
        <5>2. \A i \in DOMAIN attempts : attempts[i] \in AttemptRow
          BY <1>3
        <5> QED
          BY <5>1, <5>2 DEF AttemptRow
      <4>2. CASE attempts[work[c].attempt].status # "pending" /\ UNCHANGED attempts
        BY <2>1, <4>2
      <4> QED
        BY <1>7, <4>1, <4>2
    <3>2. ASSUME NEW i \in DOMAIN attempts', attempts'[i].status = "pending"
          PROVE  (\E x \in DOMAIN work' : work'[x].attempt = i) \/ AttemptOrphaned(i)'
      <4>1. i \in DOMAIN attempts /\ attempts[i].status = "pending" /\ i # id
        BY <3>1, <3>2
      <4>2. CASE AttemptOrphaned(i)
        BY <4>2 DEF AttemptOrphaned
      <4>3. CASE \E x \in DOMAIN work : work[x].attempt = i
        BY <2>1, <2>3, <4>1, <4>3
      <4> QED
        BY <4>1, <4>2, <4>3 DEF Tidy, AttemptsHeld
    <3> QED
      BY <3>2 DEF AttemptsHeld
  <2> QED
    BY <2>5, <2>6, <2>7 DEF Tidy
<1> QED
  BY <1>4, <1>5, <1>6, <1>7

-----------------------------------------------------------------------------
(* The engines.                                                              *)

\* Attempts may end with their run or with a claim, and that is all.
TablesEnd ==
  /\ UNCHANGED <<clock, leases, deliveries, operations>>
  /\ UNCHANGED attempts \/ \E W : attempts' = PendingAbandoned(W)

\* Such a step hands out nothing.
LEMMA TablesEndTidy ==
  ASSUME Inv, TablesEnd
  PROVE  clock' \in Nat /\ TablesTidy
<1>1. attempts \in Seq(AttemptRow) /\ clock \in Nat
  BY DEF Inv, TypeOK, CoordinatorTablesOK, RunTablesOK
<1>2. ASSUME NEW i \in DOMAIN attempts', attempts'[i].status = "pending"
      PROVE  i \in DOMAIN attempts /\ attempts[i].status = "pending"
  <2>1. CASE UNCHANGED attempts
    BY <1>2, <2>1
  <2>2. CASE \E W : attempts' = PendingAbandoned(W)
    <3>1. PICK W : attempts' = PendingAbandoned(W)
      BY <2>2
    <3> QED
      BY <1>1, <1>2, <3>1, PendingAbandonedRows
  <2> QED
    BY <2>1, <2>2 DEF TablesEnd
<1> QED
  BY <1>1, <1>2 DEF TablesEnd, TablesTidy

\* The coroutines stay where they are.
LEMMA WorkStaysTidy ==
  ASSUME UNCHANGED work
  PROVE  WorkTidy
BY DEF WorkTidy

\* Of the engines only one is new, or moves, and none of its coroutines is interrupted.
LEMMA OneEngineMoves ==
  ASSUME Inv, Tidy, orphaned \subseteq orphaned',
         NEW j, \A i \in DOMAIN jobs' : i = j \/ (i \in DOMAIN jobs /\ jobs'[i] = jobs[i]),
         \A c \in DOMAIN work' : work'[c].at = "interrupted" =>
           c \in DOMAIN work /\ work'[c] = work[c],
         \A c \in DOMAIN work : EngineOf(c) = j /\ j \in DOMAIN jobs' =>
           jobs'[j].generation # c[3] \/ work[c].at # "interrupted"
  PROVE  JobsTidy
<1> SUFFICES ASSUME NEW c \in DOMAIN work', work'[c].at = "interrupted",
                    EngineOf(c) \in DOMAIN jobs', jobs'[EngineOf(c)].generation = c[3]
             PROVE  jobs'[EngineOf(c)].phase \in Leaving
  BY DEF JobsTidy, Attached, EngineOf
<1>1. c \in DOMAIN work /\ work[c].at = "interrupted" /\ EngineOf(c) # j
  OBVIOUS
<1>2. EngineOf(c) \in DOMAIN jobs /\ jobs'[EngineOf(c)] = jobs[EngineOf(c)]
  BY <1>1
<1> QED
  BY <1>1, <1>2 DEF Tidy, InterruptedLast, Attached

\* Steps of other parts, which leave the engines alone.
LEMMA ElsewhereTidy ==
  ASSUME Inv, Tidy, orphaned \subseteq orphaned',
         UNCHANGED <<jobs, work>>, clock' \in Nat, TablesTidy
  PROVE  Tidy'
<1>1. WorkTidy /\ JobsQuiet
  BY WorkStaysTidy, JobsKept
<1>2. JobsTidy
  BY <1>1, EngineQuietTidy
<1> QED
  BY <1>1, <1>2, TidyStep

\* An engine without coroutines under its generation has none that is interrupted.
LEMMA EngineAlone ==
  ASSUME Inv, NEW j \in DOMAIN jobs,
         jobs[j].phase \in {"claimed", "provisioning", "skipping", "finishing", "saving"}
  PROVE  \A c \in DOMAIN work : EngineOf(c) = j /\ c[3] = jobs[j].generation =>
           work[c].at = "done" /\ jobs[j].phase = "saving"
BY CoroutineTyped DEF Inv, PhasesMean, EngineOf, CoroutinesOf

\* No coroutine is of the claim that an engine has just made.
LEMMA ClaimsTidy ==
  ASSUME Inv, Tidy, orphaned \subseteq orphaned',
         NEW s, NEW w, <<s, w>> \in DOMAIN jobs, ClaimJob(s, w)
  PROVE  Tidy'
<1>1. PICK j, g, new :
        /\ j = <<s, w>> /\ g = run_jobs[w].generation + 1 /\ new = Job("claimed", g, EmptyTable)
  OBVIOUS
<1>2. /\ jobs' = [jobs EXCEPT ![j] = new] /\ UNCHANGED work
      /\ attempts' = PendingAbandoned({w})
      /\ UNCHANGED <<clock, leases, deliveries, operations>>
  BY <1>1 DEF ClaimJob, ClaimRun, leaseVars, messagingVars, commitVars
<1>3. clock' \in Nat /\ TablesTidy
  BY <1>2, TablesEndTidy DEF TablesEnd
<1>4. \A c \in DOMAIN work : EngineOf(c) = j => c[3] # g
  <2> SUFFICES ASSUME NEW c \in DOMAIN work, c[2] = w PROVE c[3] # g
    BY <1>1 DEF EngineOf
  <2>1. c[3] <= run_jobs[w].generation /\ c[3] \in Nat /\ run_jobs[w].generation \in Nat
    BY CoroutineTyped, RunAssumption
    DEF Inv, Ownership, TypeOK, CoordinatorTablesOK, RunTablesOK, IsTable, JobRow
  <2> QED
    BY <1>1, <2>1
<1>5. new.generation = g
  BY <1>1 DEF Job
<1>6. JobsTidy
  <2>1. \A i \in DOMAIN jobs' : i = j \/ (i \in DOMAIN jobs /\ jobs'[i] = jobs[i])
    BY <1>2
  <2>2. \A c \in DOMAIN work : EngineOf(c) = j /\ j \in DOMAIN jobs' => jobs'[j].generation # c[3]
    BY <1>2, <1>4, <1>5
  <2> QED
    BY <1>2, <2>1, <2>2, OneEngineMoves
<1> QED
  BY <1>2, <1>3, <1>6, WorkStaysTidy, TidyStep

\* Steps of an engine that leave its coroutines alone, and there are none or it gives up,
\* with a storage error or without.
LEMMA EngineStepsTidy ==
  ASSUME Inv, Tidy, orphaned \subseteq orphaned', NEW s, NEW w, <<s, w>> \in DOMAIN jobs,
         \/ ClaimRefused(s, w) \/ ReadOutcomes(s, w) \/ ReadOutcomesFails(s, w)
         \/ Gathered(s, w) \/ (\E t : SaveSkipped(s, w, t))
         \/ FinishJob(s, w) \/ FinishFails(s, w) \/ Leave(s, w)
  PROVE  Tidy'
<1>1. PICK j : j \in DOMAIN jobs /\ j = <<s, w>>
  OBVIOUS
<1>2. UNCHANGED <<clock, leases, deliveries, operations, work>>
  BY DEF ClaimRefused, ReadOutcomes, ReadOutcomesFails, Gathered, SaveSkipped, FinishJob,
         FinishFails, Leave, tableVars, leaseVars, messagingVars, commitVars
<1>3. UNCHANGED attempts \/ \E W : attempts' = PendingAbandoned(W)
  BY DEF ClaimRefused, ReadOutcomes, ReadOutcomesFails, Gathered, SaveSkipped, FinishJob,
         FinishFails, Leave, tableVars, runVars, ExpireRuns, SaveOutcome, Finish, ReleaseRun
<1>4. clock' \in Nat /\ TablesTidy
  BY <1>2, <1>3, TablesEndTidy DEF TablesEnd
<1>5. JobsTidy
  <2>1. CASE ClaimRefused(s, w) \/ ReadOutcomesFails(s, w) \/ Leave(s, w)
    <3>1. PICK gone : gone = {j}
      OBVIOUS
    <3>2. jobs' = Delete(jobs, gone)
      BY <1>1, <2>1, <3>1 DEF ClaimRefused, ReadOutcomesFails, Leave, Removed
    <3> QED
      BY <1>2, <3>2, JobsDeleted, EngineQuietTidy
  <2>2. CASE FinishJob(s, w) \/ FinishFails(s, w)
    <3>1. PICK phase : phase \in {"failing", "leaving"} /\ Phase(s, w, phase)
      BY <2>2 DEF FinishJob, FinishFails
    <3>2. jobs[j].phase # "started" /\ jobs' = [jobs EXCEPT ![j].phase = phase]
      BY <1>1, <2>2, <3>1 DEF FinishJob, FinishFails, In, Phase
    <3> QED
      BY <1>1, <1>2, <3>1, <3>2, JobMoves, EngineQuietTidy
  <2>3. CASE Gathered(s, w)
    <3>1. PICK phase : phase = "saving"
      OBVIOUS
    <3>2. /\ jobs[j].phase = "gathering" /\ jobs' = [jobs EXCEPT ![j].phase = phase]
          /\ \A c \in CoroutinesOf(j[1], j[2], jobs[j].generation) : work[c].at = "done"
      BY <1>1, <2>3, <3>1 DEF Gathered, In, Phase
    <3> QED
      BY <1>1, <1>2, <3>1, <3>2, JobMoves, EngineQuietTidy
  <2>4. CASE ReadOutcomes(s, w) \/ (\E t : SaveSkipped(s, w, t))
    <3>1. PICK phase, outcomes :
            jobs' = [jobs EXCEPT ![j] = Job(phase, jobs[j].generation, outcomes)]
      <4>1. CASE ReadOutcomes(s, w)
        BY <1>1, <4>1 DEF ReadOutcomes
      <4>2. CASE \E t : SaveSkipped(s, w, t)
        <5>1. PICK t : SaveSkipped(s, w, t)
          BY <4>2
        <5>2. PICK outcomes : outcomes = Insert(jobs[j].outcomes, t, "skipped")
          OBVIOUS
        <5>3. PICK phase :
                phase = IF DOMAIN TasksOf(w) \subseteq DOMAIN outcomes THEN "finishing"
                        ELSE "skipping"
          OBVIOUS
        <5>4. jobs' = [jobs EXCEPT ![j] = Job(phase, jobs[j].generation, outcomes)]
          BY <1>1, <5>1, <5>2, <5>3 DEF SaveSkipped
        <5> QED
          BY <5>4
      <4> QED
        BY <2>4, <4>1, <4>2
    <3>2. jobs[j].phase \in {"claimed", "skipping"}
      BY <1>1, <2>4 DEF ReadOutcomes, SaveSkipped, In
    <3>3. PICK new : new = Job(phase, jobs[j].generation, outcomes)
      OBVIOUS
    <3>4. new.generation = jobs[j].generation
      BY <3>3 DEF Job
    <3>5. \A c \in DOMAIN work : EngineOf(c) = j /\ j \in DOMAIN jobs' =>
            jobs'[j].generation # c[3]
      BY <1>1, <3>1, <3>2, <3>3, <3>4, EngineAlone
    <3>6. \A i \in DOMAIN jobs' : i = j \/ (i \in DOMAIN jobs /\ jobs'[i] = jobs[i])
      BY <3>1
    <3> QED
      BY <1>2, <3>5, <3>6, OneEngineMoves
  <2> QED
    BY <2>1, <2>2, <2>3, <2>4
<1> QED
  BY <1>2, <1>4, <1>5, WorkStaysTidy, TidyStep

\* The next wave starts when the one before has ended, and holds nothing.
LEMMA OnwardTidy ==
  ASSUME Inv, Tidy, orphaned \subseteq orphaned',
         NEW s, NEW w, NEW j \in DOMAIN jobs, j = <<s, w>>, NEW outcomes, NEW rest,
         Onward(s, w, outcomes, rest), DOMAIN rest \subseteq DOMAIN work,
         \A c \in DOMAIN rest : rest[c] = work[c],
         \A c \in DOMAIN work \ DOMAIN rest : LetGo(work[c]),
         \A c \in DOMAIN work : EngineOf(c) = j /\ c[3] = jobs[j].generation => work[c].at = "done"
  PROVE  WorkTidy /\ JobsTidy
<1>1. PICK at, g, wave, new, phase :
        /\ at = "waiting" /\ g = jobs[j].generation /\ wave = Ready(w, outcomes)
        /\ new = [c \in {<<s, w, g, t>> : t \in wave} |-> Fresh(at)]
        /\ phase = IF DOMAIN TasksOf(w) \subseteq DOMAIN outcomes THEN "finishing"
                   ELSE IF wave = {} THEN "skipping" ELSE "gathering"
  OBVIOUS
<1>2. jobs' = [jobs EXCEPT ![j] = Job(phase, g, outcomes)] /\ work' = Upsert(rest, new)
  BY <1>1 DEF Onward
<1>3. /\ \A c \in DOMAIN new : EngineOf(c) = j /\ c[3] = g
      /\ \A c \in DOMAIN new : new[c] = Fresh(at)
  BY <1>1 DEF EngineOf
<1>4. RowTidy(Fresh(at)) /\ Fresh(at).at = "waiting"
  BY <1>1, FreshTidy
<1>5. \A c \in DOMAIN new \intersect DOMAIN work : LetGo(work[c])
  BY <1>1, <1>3, RestsLetGo DEF Resting
<1>6. /\ DOMAIN work' = DOMAIN rest \union DOMAIN new
      /\ \A c \in DOMAIN new : work'[c] = Fresh(at)
      /\ \A c \in DOMAIN rest \ DOMAIN new : work'[c] = work[c]
  BY <1>2, <1>3 DEF Upsert
<1>7. WorkTidy
  BY <1>4, <1>5, <1>6 DEF WorkTidy
<1>8. JobsTidy
  <2>1. \A i \in DOMAIN jobs' : i = j \/ (i \in DOMAIN jobs /\ jobs'[i] = jobs[i])
    BY <1>2
  <2>2. \A c \in DOMAIN work' : work'[c].at = "interrupted" =>
          c \in DOMAIN work /\ work'[c] = work[c]
    BY <1>4, <1>6
  <2>3. jobs'[j].generation = g
    BY <1>2 DEF Job
  <2>4. \A c \in DOMAIN work : EngineOf(c) = j /\ j \in DOMAIN jobs' =>
          jobs'[j].generation # c[3] \/ work[c].at # "interrupted"
    BY <1>1, <2>3
  <2> QED
    BY <2>1, <2>2, <2>4, OneEngineMoves
<1> QED
  BY <1>7, <1>8

\* While an engine provisions it has no coroutines.
LEMMA ProvisionTidy ==
  ASSUME Inv, Tidy, orphaned \subseteq orphaned',
         NEW s, NEW w, <<s, w>> \in DOMAIN jobs, Provision(s, w)
  PROVE  Tidy'
<1>1. PICK j : j \in DOMAIN jobs /\ j = <<s, w>>
  OBVIOUS
<1>2. /\ jobs[j].phase = "provisioning"
      /\ UNCHANGED <<clock, leases, deliveries, operations, attempts>>
      /\ \/ UNCHANGED <<jobs, work>>
         \/ Phase(s, w, "failing") /\ UNCHANGED work
         \/ Onward(s, w, jobs[j].outcomes, work)
  BY <1>1 DEF Provision, In, leaseVars, runVars, messagingVars, commitVars
<1>3. clock' \in Nat /\ TablesTidy
  BY <1>2, TablesEndTidy DEF TablesEnd
<1>4. CASE UNCHANGED <<jobs, work>>
  BY <1>3, <1>4, ElsewhereTidy
<1>5. CASE Phase(s, w, "failing") /\ UNCHANGED work
  <2>1. PICK phase : phase = "failing"
    OBVIOUS
  <2>2. jobs[j].phase # "started" /\ jobs' = [jobs EXCEPT ![j].phase = phase]
    BY <1>1, <1>2, <1>5, <2>1 DEF Phase
  <2>3. JobsTidy
    BY <1>1, <1>5, <2>1, <2>2, JobMoves, EngineQuietTidy
  <2> QED
    BY <1>3, <1>5, <2>3, WorkStaysTidy, TidyStep
<1>6. CASE Onward(s, w, jobs[j].outcomes, work)
  <2>1. PICK outcomes, rest : outcomes = jobs[j].outcomes /\ rest = work
    OBVIOUS
  <2>2. \A c \in DOMAIN work : ~(EngineOf(c) = j /\ c[3] = jobs[j].generation)
    BY <1>1, <1>2, EngineAlone
  <2>3. WorkTidy /\ JobsTidy
    BY <1>1, <1>6, <2>1, <2>2, OnwardTidy
  <2> QED
    BY <1>3, <2>3, TidyStep
<1> QED
  BY <1>2, <1>4, <1>5, <1>6

\* What a coroutine came to is saved after it let go.
LEMMA SavesTidy ==
  ASSUME Inv, Tidy, orphaned \subseteq orphaned',
         NEW s, NEW w, NEW t, <<s, w>> \in DOMAIN jobs, SaveResult(s, w, t)
  PROVE  Tidy'
<1>1. PICK j, g, c, outcomes, gone :
        /\ j \in DOMAIN jobs /\ j = <<s, w>> /\ g = jobs[j].generation /\ c = <<s, w, g, t>>
        /\ outcomes = Insert(jobs[j].outcomes, t, work[c].verdict) /\ gone = {c}
  OBVIOUS
<1>2. /\ jobs[j].phase = "saving" /\ c \in DOMAIN work
      /\ UNCHANGED <<clock, leases, deliveries, operations, attempts>>
      /\ \/ Onward(s, w, outcomes, Delete(work, gone))
         \/ /\ jobs' = [jobs EXCEPT ![j].outcomes = outcomes]
            /\ work' = Delete(work, gone)
  BY <1>1 DEF SaveResult, In, SaveOutcome, leaseVars, messagingVars, commitVars
<1>3. clock' \in Nat /\ TablesTidy
  BY <1>2, TablesEndTidy DEF TablesEnd
<1>4. \A x \in DOMAIN work : EngineOf(x) = j /\ x[3] = g => work[x].at = "done"
  BY <1>1, <1>2, EngineAlone
<1>5. LetGo(work[c])
  <2>1. EngineOf(c) = j /\ c[3] = g
    BY <1>1 DEF EngineOf
  <2> QED
    BY <1>2, <1>4, <2>1, RestsLetGo DEF Resting
<1>6. PICK rest : rest = Delete(work, gone)
  OBVIOUS
<1>7. /\ DOMAIN rest = DOMAIN work \ {c} /\ \A x \in DOMAIN rest : rest[x] = work[x]
  BY <1>1, <1>6 DEF Delete
<1>8. CASE Onward(s, w, outcomes, Delete(work, gone))
  <2>1. \A x \in DOMAIN work \ DOMAIN rest : LetGo(work[x])
    BY <1>5, <1>7
  <2>2. /\ \A x \in DOMAIN work : EngineOf(x) = j /\ x[3] = jobs[j].generation =>
            work[x].at = "done"
        /\ Onward(s, w, outcomes, rest) /\ DOMAIN rest \subseteq DOMAIN work
        /\ j \in DOMAIN jobs /\ j = <<s, w>>
    BY <1>1, <1>4, <1>6, <1>7, <1>8
  <2>3. WorkTidy /\ JobsTidy
    BY <1>7, <2>1, <2>2, OnwardTidy
  <2> QED
    BY <1>3, <2>3, TidyStep
<1>9. CASE /\ jobs' = [jobs EXCEPT ![j].outcomes = outcomes]
           /\ work' = Delete(work, gone)
  <2>1. WorkTidy
    BY <1>5, <1>6, <1>7, <1>9 DEF WorkTidy
  <2>2. jobs[j] \in EngineRow
    BY <1>1 DEF Inv, TypeOK, EngineTypeOK, IsTable
  <2>3. PICK new : new = [jobs[j] EXCEPT !.outcomes = outcomes]
    OBVIOUS
  <2>4. jobs' = [jobs EXCEPT ![j] = new] /\ new.generation = g
    BY <1>1, <1>9, <2>2, <2>3 DEF EngineRow
  <2>5. JobsTidy
    <3>1. \A i \in DOMAIN jobs' : i = j \/ (i \in DOMAIN jobs /\ jobs'[i] = jobs[i])
      BY <2>4
    <3>2. \A x \in DOMAIN work' : x \in DOMAIN work /\ work'[x] = work[x]
      BY <1>6, <1>7, <1>9
    <3>3. \A x \in DOMAIN work : EngineOf(x) = j /\ j \in DOMAIN jobs' =>
            jobs'[j].generation # x[3] \/ work[x].at # "interrupted"
      BY <1>1, <1>4, <2>4
    <3> QED
      BY <3>1, <3>2, <3>3, OneEngineMoves
  <2> QED
    BY <1>3, <2>1, <2>5, TidyStep
<1> QED
  BY <1>2, <1>8, <1>9

\* An engine gives up on a wave: what has ended, or never starts, holds nothing.
LEMMA GivesUpTidy ==
  ASSUME Inv, Tidy, orphaned \subseteq orphaned', NEW s, NEW w, <<s, w>> \in DOMAIN jobs,
         GatherFails(s, w) \/ GatherCancelled(s, w) \/ SaveRefused(s, w) \/ SaveFails(s, w)
  PROVE  Tidy'
<1>1. PICK j, mine : /\ j \in DOMAIN jobs /\ j = <<s, w>>
                     /\ mine = CoroutinesOf(s, w, jobs[j].generation)
  OBVIOUS
<1>2. UNCHANGED <<clock, leases, deliveries, operations, attempts>>
  BY DEF GatherFails, GatherCancelled, SaveRefused, SaveFails, Abandons, SaveOutcome,
         tableVars, leaseVars, runVars, messagingVars, commitVars
<1>3. clock' \in Nat /\ TablesTidy
  BY <1>2, TablesEndTidy DEF TablesEnd
<1>4. PICK phase, gone : /\ phase \in {"failing", "leaving"} /\ Phase(s, w, phase)
                         /\ work' = Delete(work, gone)
                         /\ \A c \in gone \intersect DOMAIN work : work[c].at \in Resting
  <2>1. CASE GatherFails(s, w) \/ GatherCancelled(s, w)
    <3>1. PICK gone : gone = {c \in mine : Ended(c)}
      OBVIOUS
    <3>2. work' = Delete(work, gone) /\ (Phase(s, w, "failing") \/ Phase(s, w, "leaving"))
      BY <1>1, <2>1, <3>1 DEF GatherFails, GatherCancelled, Abandons
    <3>3. \A c \in gone : work[c].at \in Resting
      BY <3>1 DEF Ended, Resting
    <3> QED
      BY <3>2, <3>3
  <2>2. CASE SaveRefused(s, w) \/ SaveFails(s, w)
    <3>1. /\ work' = Delete(work, mine) /\ (Phase(s, w, "leaving") \/ Phase(s, w, "failing"))
          /\ jobs[j].phase \in {"saving", "skipping"}
      BY <1>1, <2>2 DEF SaveRefused, SaveFails, Drops, In
    <3>2. \A c \in mine \intersect DOMAIN work : work[c].at \in Resting
      <4>1. \A c \in mine : EngineOf(c) = j /\ c[3] = jobs[j].generation
        BY <1>1 DEF CoroutinesOf, EngineOf
      <4> QED
        BY <1>1, <3>1, <4>1, EngineAlone DEF Resting
    <3> QED
      BY <3>1, <3>2
  <2> QED
    BY <2>1, <2>2
<1>5. jobs[j].phase # "started"
  BY <1>1 DEF GatherFails, GatherCancelled, SaveRefused, SaveFails, In
<1>6. JobsQuiet
  BY <1>1, <1>4, <1>5, JobMoves DEF Phase
<1>7. \A c \in gone \intersect DOMAIN work : LetGo(work[c])
  BY <1>4, RestsLetGo
<1>8. WorkTidy /\ JobsTidy
  BY <1>4, <1>6, <1>7, SomeEnd
<1> QED
  BY <1>3, <1>8, TidyStep

\* A cancelled coroutine was at an await: there it rests, or it plans and will unwind.
LEMMA CancelTidy ==
  ASSUME Inv, Inv', Tidy, orphaned \subseteq orphaned',
         NEW s, NEW J \in SUBSET DOMAIN jobs, \A j \in J : j[1] = s,
         Quiet(s), NEW kept, Cancel(J, kept), JobsQuiet
  PROVE  WorkTidy /\ JobsTidy
<1>1. PICK ended, children, planning, new :
        /\ ended = {j \in J : jobs[j].phase \in {"started", "leaving"}}
        /\ children = {c \in DOMAIN work : /\ EngineOf(c) \in J /\ Attached(c) /\ ~Ended(c)
                                           /\ jobs[EngineOf(c)].phase = "gathering"}
        /\ planning = {c \in children : work[c].at = "planning"}
        /\ new = [c \in planning |-> Interrupted(c)]
  OBVIOUS
<1>2. /\ jobs' = [j \in DOMAIN jobs \ ended |->
           IF j \in J THEN [jobs[j] EXCEPT !.phase = "cancelled"] ELSE jobs[j]]
      /\ work' = Upsert(Delete(work, children), new)
  BY <1>1 DEF Cancel
<1>3. /\ DOMAIN work' = (DOMAIN work \ children) \union planning
      /\ planning \subseteq children /\ children \subseteq DOMAIN work
      /\ \A c \in DOMAIN work' : work'[c] = IF c \in planning THEN Interrupted(c) ELSE work[c]
  BY <1>1, <1>2 DEF Upsert, Delete
<1>4. ASSUME NEW c \in planning
      PROVE  /\ RowTidy(Interrupted(c))
             /\ Interrupted(c).message = work[c].message
             /\ Interrupted(c).attempt = work[c].attempt /\ Interrupted(c).lease = work[c].lease
  <2>1. c \in DOMAIN work /\ work[c].at = "planning"
    BY <1>1, <1>3
  <2>2. work[c] \in Coroutine(work[c].reads)
    BY <2>1 DEF Inv, TypeOK, EngineTypeOK
  <2>3. PICK row : row = Interrupted(c)
    OBVIOUS
  <2>4. /\ row.at = "interrupted" /\ row.message = work[c].message
        /\ row.attempt = work[c].attempt /\ row.lease = work[c].lease
    BY <2>2, <2>3 DEF Interrupted, Coroutine
  <2>5. work[c].lease = 0 /\ \A m \in work[c].message : MessageTidy(work[c], m)
    BY <2>1 DEF Tidy, RowsTidy, RowTidy
  <2>6. RowTidy(row)
    BY <2>4, <2>5 DEF RowTidy, MessageTidy, Resting
  <2> QED
    BY <2>3, <2>4, <2>6
<1>5. ASSUME NEW c \in children \ planning
      PROVE  LetGo(work[c])
  <2>1. /\ c \in DOMAIN work /\ Attached(c) /\ jobs[EngineOf(c)].phase = "gathering"
        /\ EngineOf(c) \in J /\ work[c].at # "planning" /\ ~Ended(c)
    BY <1>1
  <2>2. c[1] = s /\ c # <<>>
    <3>1. EngineOf(c)[1] = c[1] /\ EngineOf(c)[1] = s
      BY <2>1 DEF EngineOf
    <3>2. c = <<c[1], c[2], c[3], c[4]>>
      BY <2>1, CoroutineTyped
    <3> QED
      BY <3>1, <3>2
  <2>3. work[c].at \in AwaitingPlaces
    BY <2>1, <2>2 DEF Quiet, Turn
  <2>4. work[c].at # "interrupted"
    BY <2>1 DEF Tidy, InterruptedLast, Leaving
  <2>5. work[c].at \in Resting
    BY <2>1, <2>3, <2>4 DEF AwaitingPlaces, Resting, Ended
  <2> QED
    BY <2>1, <2>5, RestsLetGo
<1>6. WorkTidy
  BY <1>3, <1>4, <1>5 DEF WorkTidy
<1>7. ASSUME NEW c \in planning
      PROVE  jobs'[EngineOf(c)].phase \in Leaving
  <2>1. PICK j : j = EngineOf(c)
    OBVIOUS
  <2>2. j \in J /\ j \in DOMAIN jobs /\ jobs[j].phase = "gathering"
    BY <1>1, <1>3, <2>1
  <2>3. jobs[j] \in EngineRow
    BY <2>2 DEF Inv, TypeOK, EngineTypeOK, IsTable
  <2>4. PICK row : row = [jobs[j] EXCEPT !.phase = "cancelled"]
    OBVIOUS
  <2>5. row.phase = "cancelled" /\ jobs'[j] = row
    BY <1>1, <1>2, <2>2, <2>3, <2>4 DEF EngineRow
  <2> QED
    BY <2>1, <2>5 DEF Leaving
<1>8. JobsTidy
  BY <1>3, <1>7, EngineQuietTidy
<1> QED
  BY <1>6, <1>8

-----------------------------------------------------------------------------
(* Clients, schedulers and time.                                             *)

\* A client cancels the run.
LEMMA CancelsTidy ==
  ASSUME Inv, Inv', Tidy, orphaned \subseteq orphaned', NEW s, NEW w, CancelRun(s, w)
  PROVE  Tidy'
<1>1. PICK J \in SUBSET DOMAIN jobs : J = {<<s, w>>} \intersect DOMAIN jobs
  OBVIOUS
<1>2. PICK status \in Terminal : status = "cancelled"
  BY DEF Terminal
<1>3. /\ w \in DOMAIN workflows /\ Finish(w, status, None) /\ Cancel(J, keepers) /\ Quiet(s)
      /\ UNCHANGED <<clock, resources, leaseVars, messagingVars, commitVars, faults, lost,
                     orphaned>>
  BY <1>1, <1>2 DEF CancelRun, ApiStep
<1>4. TablesRight' /\ Growing
  BY <1>2, <1>3, FinishStep
<1>5. JobsQuiet
  BY <1>3, <1>4, CancelQuiet
<1>6. \A j \in J : j[1] = s
  BY <1>1
<1>7. WorkTidy /\ JobsTidy
  BY <1>3, <1>5, <1>6, CancelTidy
<1>8. clock' \in Nat /\ TablesTidy
  BY <1>3, TablesEndTidy DEF TablesEnd, Finish, leaseVars, messagingVars, commitVars
<1> QED
  BY <1>7, <1>8, TidyStep

\* A heartbeat that fails cancels its engine.
LEMMA BeatFailsTidy ==
  ASSUME Inv, Inv', Tidy, orphaned \subseteq orphaned', NEW k \in keepers, BeatFails(k)
  PROVE  Tidy'
<1>1. PICK s, J, kept :
        /\ s = k[1] /\ J \in SUBSET DOMAIN jobs
        /\ J = {j \in {<<s, k[2]>>} \intersect DOMAIN jobs : jobs[j].generation = k[3]}
        /\ kept = keepers \ {k}
  OBVIOUS
<1>2. Cancel(J, kept) /\ Quiet(s) /\ UNCHANGED <<clock, tableVars, lost, orphaned>>
  BY <1>1 DEF BeatFails
<1>3. TablesRight' /\ Growing
  BY <1>2, TablesStay
<1>4. JobsQuiet
  BY <1>1, <1>2, <1>3, CancelQuiet
<1>5. \A j \in J : j[1] = s
  BY <1>1
<1>6. WorkTidy /\ JobsTidy
  BY <1>1, <1>2, <1>4, <1>5, CancelTidy
<1>7. clock' \in Nat /\ TablesTidy
  BY <1>2, TablesStayTidy
<1> QED
  BY <1>6, <1>7, TidyStep

\* A new engine has no coroutines yet.
LEMMA PollsTidy ==
  ASSUME Inv, Tidy, orphaned \subseteq orphaned', NEW s, Poll(s)
  PROVE  Tidy'
<1>1. UNCHANGED <<clock, tableVars, work>>
  BY DEF Poll
<1>2. PICK w : jobs' = Insert(jobs, <<s, w>>, Job("started", 0, EmptyTable))
  BY DEF Poll
<1>3. PICK j, new : j = <<s, w>> /\ new = Job("started", 0, EmptyTable)
  OBVIOUS
<1>4. /\ jobs' = Insert(jobs, j, new) /\ new.generation = 0
  BY <1>2, <1>3 DEF Job
<1>5. jobs'[j] = new /\ \A i \in DOMAIN jobs' : i = j \/ (i \in DOMAIN jobs /\ jobs'[i] = jobs[i])
  BY <1>4 DEF Insert, Upsert
<1>6. \A c \in DOMAIN work : c[3] # 0
  BY CoroutineTyped
<1>7. JobsTidy
  BY <1>1, <1>4, <1>5, <1>6, OneEngineMoves
<1> QED
  BY <1>1, <1>7, TablesStayTidy, WorkStaysTidy, TidyStep

\* The API, the sweep, the heartbeats and the clock touch no engine.
LEMMA ApiTidy ==
  ASSUME Inv, Tidy, orphaned \subseteq orphaned',
         \/ \E w, specification : Launch(w, specification)
         \/ \E w, mode : Submit(w, mode)
         \/ Sweep
         \/ \E k : Beat(k)
         \/ Wait
         \/ UNCHANGED vars
  PROVE  Tidy'
<1>1. CASE Wait
  <2>1. clock' = clock + 1 /\ UNCHANGED <<tableVars, engineVars>> /\ clock \in Nat
    BY <1>1 DEF Wait, Tick, Inv, TypeOK
  <2>2. clock' \in Nat /\ TablesTidy
    BY <2>1 DEF TablesTidy, tableVars, leaseVars, runVars, messagingVars, commitVars
  <2> QED
    BY <2>1, <2>2, ElsewhereTidy DEF engineVars
<1>2. CASE ~Wait
  <2>1. /\ UNCHANGED <<clock, leases, deliveries, operations, jobs, work>>
        /\ UNCHANGED attempts \/ \E W : attempts' = PendingAbandoned(W)
    BY <1>2 DEF Launch, Submit, Sweep, Beat, CreateWorkflow, Enqueue, ExpireRuns, RenewRun,
               ApiStep, engineVars, vars, tableVars, leaseVars, runVars, messagingVars, commitVars
  <2>2. clock' \in Nat /\ TablesTidy
    BY <2>1, TablesEndTidy DEF TablesEnd
  <2> QED
    BY <2>1, <2>2, ElsewhereTidy
<1> QED
  BY <1>1, <1>2

-----------------------------------------------------------------------------
(* The ends of coroutines and processes.                                     *)

\* What a coroutine held that fails while it cleans up is orphaned.
LEMMA CleaningFailsTidy ==
  ASSUME Inv, Tidy, orphaned \subseteq orphaned', NEW c \in DOMAIN work, CleaningFails(c)
  PROVE  Tidy'
<1>1. /\ UNCHANGED <<clock, tableVars, jobs>>
      /\ work' = IF Gathering(c) THEN [work EXCEPT ![c] = Fresh("raised")]
                 ELSE Delete(work, {c})
  BY DEF CleaningFails
<1>2. Holding(c) \in orphaned'
  BY DEF CleaningFails, Die
<1>3. clock' \in Nat /\ TablesTidy
  BY <1>1, TablesStayTidy
<1>4. CASE Gathering(c)
  <2>1. PICK at, row : at = "raised" /\ row = Fresh(at)
    OBVIOUS
  <2>2. RowTidy(row) /\ row.at = at
    BY <2>1, FreshTidy
  <2>3. work' = [work EXCEPT ![c] = row]
    BY <1>1, <1>4, <2>1
  <2> QED
    BY <1>1, <1>2, <1>3, <2>1, <2>2, <2>3, OneMoves, TidyStep
<1>5. CASE ~Gathering(c)
  <2>1. PICK gone : gone = {c}
    OBVIOUS
  <2>2. JobsQuiet /\ work' = Delete(work, gone)
    BY <1>1, <1>5, <2>1, JobsKept
  <2> QED
    BY <1>2, <1>3, <2>1, <2>2, SomeEnd, TidyStep
<1> QED
  BY <1>4, <1>5

\* And so is all that the coroutines of a process held that crashes.
LEMMA CrashTidy ==
  ASSUME Inv, Tidy, orphaned \subseteq orphaned', NEW s, Crash(s)
  PROVE  Tidy'
<1>1. PICK mine, gone : mine = JobsOf(s) /\ gone = {c \in DOMAIN work : c[1] = s}
  OBVIOUS
<1>2. /\ UNCHANGED <<clock, tableVars>>
      /\ jobs' = Delete(jobs, mine) /\ work' = Delete(work, gone)
      /\ orphaned' = orphaned \union {Holding(c) : c \in gone}
  BY <1>1 DEF Crash, Die
<1>3. clock' \in Nat /\ TablesTidy
  BY <1>2, TablesStayTidy
<1>4. JobsQuiet
  BY <1>2, JobsDeleted
<1>5. \A c \in gone \intersect DOMAIN work : Holding(c) \in orphaned'
  BY <1>2
<1>6. WorkTidy /\ JobsTidy
  BY <1>2, <1>4, <1>5, SomeEnd
<1> QED
  BY <1>3, <1>6, TidyStep

\* A process that shuts down cancels its engines.
LEMMA ShutdownTidy ==
  ASSUME Inv, Inv', Tidy, orphaned \subseteq orphaned', NEW s, Shutdown(s)
  PROVE  Tidy'
<1>1. PICK J \in SUBSET DOMAIN jobs : J = JobsOf(s)
  BY DEF JobsOf
<1>2. Cancel(J, keepers) /\ Quiet(s) /\ UNCHANGED <<clock, tableVars, lost, orphaned>>
  BY <1>1 DEF Shutdown
<1>3. TablesRight' /\ Growing
  BY <1>2, TablesStay
<1>4. JobsQuiet
  BY <1>2, <1>3, CancelQuiet
<1>5. \A j \in J : j[1] = s
  BY <1>1 DEF JobsOf
<1>6. WorkTidy /\ JobsTidy
  BY <1>2, <1>4, <1>5, CancelTidy
<1>7. clock' \in Nat /\ TablesTidy
  BY <1>2, TablesStayTidy
<1> QED
  BY <1>6, <1>7, TidyStep

-----------------------------------------------------------------------------
\* In the beginning nothing is held.
LEMMA InitTidy == Init => Tidy
<1> SUFFICES ASSUME Init PROVE Tidy
  OBVIOUS
<1>1. /\ DOMAIN leases = {} /\ DOMAIN deliveries = {} /\ DOMAIN operations = {}
      /\ DOMAIN work = {} /\ DOMAIN attempts = {}
  BY DEF Init, EngineInit, LeaseTablesInit, RunTablesInit, EmptyTable
<1> QED
  BY <1>1 DEF Tidy, RowsTidy, InterruptedLast, Acknowledged, Staged, LeasesHeld, AttemptsHeld,
              MessagesHeld, Receipts

\* What was orphaned stays so.
LEMMA OrphansStay == [Next]_vars => orphaned \subseteq orphaned'
<1> SUFFICES ASSUME [Next]_vars PROVE orphaned \subseteq orphaned'
  OBVIOUS
<1>1. CASE UNCHANGED vars
  BY <1>1 DEF vars, engineVars
<1>2. ASSUME NEW s \in Scheduler, NEW w \in Workflow, Work(s, w)
      PROVE  UNCHANGED orphaned
  <2>1. CASE JobStep(s, w)
    BY <2>1 DEF JobStep, ClaimJob, ClaimRefused, ReadOutcomes, Provision, Gathered, GatherFails,
                GatherCancelled, Abandons, SaveResult, SaveSkipped, SaveRefused, FinishJob,
                Leave
  <2>2. CASE \E c \in DOMAIN work : TaskStep(c)
    BY <2>2 DEF TaskStep, Starts, Retries, Receives, StopsListening, Begins, Reads, Planned,
                Acquires, Commits, CommitRefused, Unwinds, Cleans, Concludes
  <2> QED
    BY <1>2, <2>1, <2>2 DEF Work
<1>3. ASSUME \/ \E w \in Workflow, specification \in Specification : Launch(w, specification)
             \/ \E w \in Workflow, mode \in Mode : Submit(w, mode)
             \/ \E s \in Scheduler, w \in Workflow : CancelRun(s, w)
             \/ \E j \in DOMAIN jobs : StorageFault(j[1], j[2])
             \/ \E k \in keepers : Beat(k) \/ BeatFails(k)
             \/ \E s \in Scheduler : Poll(s) \/ Shutdown(s)
             \/ Sweep
             \/ Wait
      PROVE  UNCHANGED orphaned
  BY <1>3 DEF Launch, Submit, CancelRun, StorageFault, ReadOutcomesFails, SaveFails, FinishFails,
              Beat, BeatFails, Poll, Shutdown, Sweep, Wait, engineVars
<1>4. ASSUME \/ \E c \in DOMAIN work : TaskFault(c)
             \/ \E s \in Scheduler : Crash(s)
      PROVE  orphaned \subseteq orphaned'
  BY <1>4 DEF TaskFault, CommitsUnanswered, CleaningFails, Crash, Die
<1> QED
  BY <1>1, <1>2, <1>3, <1>4 DEF Next

\* A step, by one of many actors.
LEMMA StepTidy == Inv /\ Inv' /\ Tidy /\ [Next]_vars => Tidy'
<1> SUFFICES ASSUME Inv, Inv', Tidy, [Next]_vars
             PROVE  Tidy'
  OBVIOUS
<1>1. orphaned \subseteq orphaned'
  BY OrphansStay
<1>2. ASSUME NEW s \in Scheduler, NEW w \in Workflow, Work(s, w)
      PROVE  Tidy'
  <2>1. CASE <<s, w>> \in DOMAIN jobs /\ JobStep(s, w)
    BY <1>1, <2>1, ClaimsTidy, EngineStepsTidy, ProvisionTidy, SavesTidy, GivesUpTidy
    DEF JobStep
  <2>2. CASE \E c \in DOMAIN work : EngineOf(c) = <<s, w>> /\ TaskStep(c)
    <3>1. PICK c \in DOMAIN work : TaskStep(c)
      BY <2>2
    <3> QED
      BY <1>1, <3>1, StartsTidy, ReceivesTidy, BeginsTidy, MovesTidy, AcquiresTidy,
         CommitsTidy, RefusedTidy, CleansTidy, ConcludesTidy DEF TaskStep
  <2> QED
    BY <1>2, <2>1, <2>2 DEF Work
<1>3. ASSUME NEW j \in DOMAIN jobs, StorageFault(j[1], j[2])
      PROVE  Tidy'
  <2>1. <<j[1], j[2]>> \in DOMAIN jobs
    BY DEF Inv, TypeOK, EngineTypeOK, IsTable
  <2> QED
    BY <1>1, <1>3, <2>1, EngineStepsTidy, GivesUpTidy DEF StorageFault
<1>4. ASSUME NEW c \in DOMAIN work, TaskFault(c)
      PROVE  Tidy'
  BY <1>1, <1>4, CommitsTidy, CleaningFailsTidy DEF TaskFault
<1>5. ASSUME NEW s \in Scheduler, Poll(s) \/ Crash(s) \/ Shutdown(s)
      PROVE  Tidy'
  BY <1>1, <1>5, PollsTidy, CrashTidy, ShutdownTidy
<1>6. ASSUME NEW k \in keepers, Beat(k) \/ BeatFails(k)
      PROVE  Tidy'
  BY <1>1, <1>6, BeatFailsTidy, ApiTidy
<1>7. ASSUME NEW s \in Scheduler, NEW w \in Workflow, CancelRun(s, w)
      PROVE  Tidy'
  BY <1>1, <1>7, CancelsTidy
<1>8. ASSUME \/ \E w \in Workflow, specification \in Specification : Launch(w, specification)
             \/ \E w \in Workflow, mode \in Mode : Submit(w, mode)
             \/ Sweep
             \/ Wait
             \/ UNCHANGED vars
      PROVE  Tidy'
  BY <1>1, <1>8, ApiTidy
<1> QED
  BY <1>2, <1>3, <1>4, <1>5, <1>6, <1>7, <1>8 DEF Next

\* Whatever is held is held by a coroutine that will give it back, or was held by one that
\* died with its process or in a storage error of its own cleaning up: through takeovers,
\* refusals, cancellations, deadlines, shutdowns, lost answers and the storage errors of
\* others, the code of Engine._execute leaves no lease, no pending attempt and no claimed
\* message that only time would free.
THEOREM NothingStaysBehind == Spec => []NothingLeftBehind
<1>1. Tidy => NothingLeftBehind
  <2> SUFFICES ASSUME Tidy PROVE NothingLeftBehind
    OBVIOUS
  <2>1. PICK holdings : holdings = {Holding(c) : c \in DOMAIN work} \union orphaned
    OBVIOUS
  <2>2. \A c \in DOMAIN work :
          /\ Holding(c) \in holdings
          /\ Holding(c).owner = NameOf(c) /\ Holding(c).message = work[c].message
          /\ Holding(c).attempt = work[c].attempt /\ Holding(c).lease = work[c].lease
    BY <2>1 DEF Holding
  <2>3. orphaned \subseteq holdings
    BY <2>1
  <2>4. \A k \in DOMAIN leases : Unexpired(leases[k].expires_at) =>
          \E h \in holdings : h.owner = leases[k].owner /\ h.lease = leases[k].token
    BY <2>2, <2>3 DEF Tidy, LeasesHeld, HoldsLease, LeaseOrphaned
  <2>5. \A i \in DOMAIN attempts : attempts[i].status = "pending" =>
          \E h \in holdings : h.attempt = i
    BY <2>2, <2>3 DEF Tidy, AttemptsHeld, AttemptOrphaned
  <2>6. \A d \in DOMAIN deliveries : InFlight(d) =>
          \E h \in holdings : \E m \in h.message : m.id = d /\ m.token = deliveries[d].token
    BY <2>2, <2>3 DEF Tidy, MessagesHeld, HoldsMessage, MessageOrphaned
  <2> QED
    BY <2>1, <2>4, <2>5, <2>6 DEF NothingLeftBehind
<1> QED
  BY <1>1, InvAlways, InitTidy, StepTidy, PTL DEF Spec
=============================================================================
