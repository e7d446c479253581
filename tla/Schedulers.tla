------------------------------ MODULE Schedulers ------------------------------
(***************************************************************************)
(* Runs from their launch through the API (api.py) to their end: scheduler  *)
(* processes that poll the queue (scheduler.py) and the engines they start. *)
(* A process may crash or shut down at any time; another takes its place.   *)
(***************************************************************************)
EXTENDS Engines

CONSTANTS
  MaxRuns,           \* jobs of one scheduler: 4
  PendingLimit,      \* rows pending_runs returns: 100
  CrewApi,           \* whether the API accepts crew runs
  CrewSchedulers,    \* the schedulers that execute them
  Launches,          \* bound: <<run, specification, mode>> that clients ask for
  LaunchUntil,       \* bound: runs are launched up to this moment
  Cancellable        \* bound: runs that clients cancel

ASSUME SchedulerAssumption ==
  /\ MaxRuns \in Nat \ {0}
  /\ PendingLimit \in Nat \ {0}
  /\ CrewSchedulers \subseteq Scheduler
  /\ Schema # {}

vars == <<clock, tableVars, engineVars>>

TypeOK ==
  /\ clock \in Nat
  /\ CoordinatorTablesOK
  /\ EngineTypeOK

Init ==
  /\ clock = 0
  /\ resources = EmptyTable
  /\ LeaseTablesInit
  /\ RunTablesInit
  /\ channels = [c \in Destination \X {"message"} \X ChannelVersion |-> CHOOSE x \in Schema : TRUE]
  /\ deliveries = EmptyTable
  /\ operations = EmptyTable
  /\ transitions = EmptyTable
  /\ EngineInit

-----------------------------------------------------------------------------
(* The API.                                                                  *)

ApiStep == UNCHANGED <<clock, resources, leaseVars, messagingVars, commitVars>>

\* The specification is validated before anything is stored.
Launch(w, specification) ==
  /\ clock <= LaunchUntil
  /\ \E mode \in Mode : <<w, specification, mode>> \in Launches
  /\ Accepted(specification)
  /\ CreateWorkflow(w, specification)
  /\ ApiStep /\ UNCHANGED engineVars

\* The second half of launch, which a client repeats if the first was all that happened.
Submit(w, mode) ==
  /\ mode = "crew" => CrewApi
  /\ w \in DOMAIN workflows /\ workflows[w].status = "running"
  /\ <<w, workflows[w].specification, mode>> \in Launches
  /\ Enqueue(w, mode)
  /\ ApiStep /\ UNCHANGED engineVars

\* Any process may be asked; it cancels the job too if that is one of its own.
CancelRun(s, w) ==
  /\ w \in Cancellable \intersect DOMAIN workflows
  /\ Quiet(s)
  /\ Finish(w, "cancelled", None)
  /\ Cancel({<<s, w>>} \intersect DOMAIN jobs, keepers)
  /\ ApiStep /\ UNCHANGED <<faults, lost, orphaned>>

-----------------------------------------------------------------------------
(* Scheduler.loop.                                                           *)

\* pending_runs looks at the status and at the claim, not at the deadline.
Pending == {w \in DOMAIN run_jobs : workflows[w].status = "running" /\ Claimable(w)}

CreatedAt(w) == workflows[w].deadline - workflows[w].specification.timeout_seconds

\* ORDER BY created_at LIMIT; the order of runs of the same moment is left open.
Window(W) ==
  /\ W \subseteq Pending
  /\ Cardinality(W) = IF Cardinality(Pending) < PendingLimit THEN Cardinality(Pending)
                      ELSE PendingLimit
  /\ \A w \in W, v \in Pending \ W : CreatedAt(w) <= CreatedAt(v)

\* A faulty variant, which a run puts in the place of Startable: the first row that is not
\* for this scheduler ends the round.
StartableBeforeCrew(s, W) ==
  {w \in W : /\ <<s, w>> \notin DOMAIN jobs
             /\ \A v \in W : run_jobs[v].mode = "crew" =>
                  s \in CrewSchedulers \/ CreatedAt(w) < CreatedAt(v)}

\* The rows of a window this scheduler has a job to start for.
Startable(s, W) ==
  {w \in W : /\ <<s, w>> \notin DOMAIN jobs
             /\ run_jobs[w].mode = "crew" => s \in CrewSchedulers}

JobsOf(s) == {j \in DOMAIN jobs : j[1] = s}

\* One row of a poll.  The engine sees for itself whether the row still holds.
Poll(s) ==
  /\ Quiet(s)
  /\ Cardinality(JobsOf(s)) < MaxRuns
  /\ \E W \in SUBSET Pending :
       /\ Window(W)
       /\ \E w \in Startable(s, W) :
            /\ \A v \in Startable(s, W) : CreatedAt(w) <= CreatedAt(v)
            /\ run_jobs[w].generation < MaxGeneration
            /\ jobs' = Insert(jobs, <<s, w>>, Job("started", 0, EmptyTable))
  /\ UNCHANGED <<clock, tableVars, keepers, tokens, work, faults, lost, orphaned>>

\* Before it polls, and after a claim it came too late for.
Sweep ==
  /\ ExpireRuns
  /\ ApiStep /\ UNCHANGED engineVars

-----------------------------------------------------------------------------
(* The ends of a process.                                                    *)

Ending == faults < MaxFaults /\ faults' = faults + 1

Crash(s) ==
  /\ Ending
  /\ jobs' = Delete(jobs, JobsOf(s))
  /\ Die({c \in DOMAIN work : c[1] = s})
  /\ work' = Delete(work, {c \in DOMAIN work : c[1] = s})
  /\ keepers' = {k \in keepers : k[1] # s}
  /\ tokens' = {k \in tokens : k[1] # s}
  /\ UNCHANGED <<clock, tableVars, lost>>

\* Scheduler.close cancels all jobs and waits for them.
Shutdown(s) ==
  /\ Ending
  /\ Quiet(s)
  /\ JobsOf(s) # {}
  /\ Cancel(JobsOf(s), keepers)
  /\ UNCHANGED <<clock, tableVars, lost, orphaned>>

StorageFault(s, w) ==
  \/ ReadOutcomesFails(s, w)
  \/ SaveFails(s, w)
  \/ FinishFails(s, w)

TaskFault(c) == CommitsUnanswered(c) \/ CleaningFails(c)

Wait ==
  /\ Tick
  /\ UNCHANGED <<tableVars, engineVars>>

Work(s, w) ==
  \/ <<s, w>> \in DOMAIN jobs /\ JobStep(s, w)
  \/ \E c \in DOMAIN work : EngineOf(c) = <<s, w>> /\ TaskStep(c)

Next ==
  \/ \E w \in Workflow, specification \in Specification : Launch(w, specification)
  \/ \E w \in Workflow, mode \in Mode : Submit(w, mode)
  \/ \E s \in Scheduler, w \in Workflow : CancelRun(s, w) \/ Work(s, w)
  \/ \E j \in DOMAIN jobs : StorageFault(j[1], j[2])
  \/ \E c \in DOMAIN work : TaskFault(c)
  \/ \E k \in keepers : Beat(k) \/ BeatFails(k)
  \/ \E s \in Scheduler : Poll(s) \/ Crash(s) \/ Shutdown(s)
  \/ Sweep
  \/ Wait

\* Event loops run, schedulers poll, and time passes.
Fairness ==
  /\ WF_vars(Wait) /\ WF_vars(Sweep)
  /\ \A s \in Scheduler :
       WF_vars(Poll(s)) /\ \A w \in Workflow : WF_vars(Work(s, w))

Spec == Init /\ [][Next]_vars
FairSpec == Spec /\ Fairness

-----------------------------------------------------------------------------
(* Properties.                                                              *)

Receipts == DOMAIN operations

\* The outcome a run reports for a task agrees with what the task did: completed with
\* a receipt, failed or skipped without one.  The one exception is a commit whose
\* answer was lost, which the engine reports as failed.
OutcomesMatchReceipts ==
  \A o \in DOMAIN task_outcomes :
    /\ task_outcomes[o] = "completed" => o \in Receipts
    /\ task_outcomes[o] # "completed" /\ o \in Receipts => o \in lost

\* A run that ended completed has committed every task of its specification, by
\* whichever engines, and says so of each.
CompletedRunsCommitted ==
  \A w \in DOMAIN workflows : workflows[w].status = "completed" =>
    \A t \in DOMAIN TasksOf(w) :
      /\ <<w, t>> \in Receipts
      /\ <<w, t>> \in DOMAIN task_outcomes /\ task_outcomes[<<w, t>>] = "completed"

\* A task commits only after all it depends on, across crashes and takeovers.
DependenciesFirst ==
  \A o \in Receipts : \A d \in TasksOf(o[1])[o[2]].depends_on : <<o[1], d>> \in Receipts

\* Tasks are skipped only in a run of which one has failed: the waves of an accepted
\* specification never get stuck by themselves.
SkippedOnlyAfterFailure ==
  \A o \in DOMAIN task_outcomes : task_outcomes[o] = "skipped" =>
    \E t \in DOMAIN TasksOf(o[1]) :
      /\ <<o[1], t>> \in DOMAIN task_outcomes /\ task_outcomes[<<o[1], t>>] = "failed"

\* Whatever is held is held by a task that will give it back, or was held by one that
\* died with its process, or in a storage error of its own cleaning up: a live lease, a
\* pending attempt, a message in flight.  Takeovers, heartbeats that fail, shutdowns,
\* storage errors of the engine or of another task, cancelled runs and missed deadlines
\* leave nothing.
NothingLeftBehind ==
  LET holdings == {Holding(c) : c \in DOMAIN work} \union orphaned IN
    /\ \A k \in DOMAIN leases : Unexpired(leases[k].expires_at) =>
         \E h \in holdings : h.owner = leases[k].owner /\ h.lease = leases[k].token
    /\ \A i \in DOMAIN attempts : attempts[i].status = "pending" =>
         \E h \in holdings : h.attempt = i
    /\ \A d \in DOMAIN deliveries : InFlight(d) =>
         \E h \in holdings : \E m \in h.message : m.id = d /\ m.token = deliveries[d].token

\* A claim is renewed only for an engine that is at work on the run.
RenewedWhileWorking ==
  [][\A k \in Workflow :
       k \in DOMAIN run_jobs /\ run_jobs'[k].generation = run_jobs[k].generation
         /\ run_jobs'[k].expires_at > run_jobs[k].expires_at =>
       \E s \in Scheduler : /\ <<s, k>> \in DOMAIN jobs
                            /\ jobs[<<s, k>>].generation = run_jobs[k].generation]_vars

\* Every engine ends, also one whose tasks wait for messages that the tasks behind them
\* in the queue for its slots would send.
EnginesLeave == \A j \in Scheduler \X Workflow : (j \in DOMAIN jobs) ~> (j \notin DOMAIN jobs)

Closed(w) == w \in DOMAIN workflows /\ workflows[w].status # "running"

\* Runs without an executor do not keep a scheduler from those it can execute, as long as
\* they are fewer than the rows of a poll: all of these end, without the help of a deadline.
RunsServed ==
  \A w \in Workflow :
    (w \in DOMAIN run_jobs /\ run_jobs[w].mode = "scripted") ~> Closed(w)
=============================================================================
