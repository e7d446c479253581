------------------------------- MODULE Engines -------------------------------
(***************************************************************************)
(* Engines that execute runs (engine.py), one for each job of a scheduler.  *)
(* An engine claims its run, keeps the claim alive with a heartbeat, sends  *)
(* the tasks whose dependencies have completed through plan and commit, a   *)
(* wave at a time, saves their outcomes, finishes the run and releases it.  *)
(*                                                                          *)
(* The coroutines of a process share its event loop: between two awaits one *)
(* of them runs alone, while other processes and the threads of heartbeats  *)
(* go on.  Every storage call is one step.                                  *)
(***************************************************************************)
EXTENDS Coordinator, WorkflowSpecs

CONSTANTS
  Slots,         \* tasks of one engine past their semaphore: 4
  JobTtl,        \* claim_ttl of engines: 30 s
  LeaseSeconds,  \* ttl of an engine's leases: 15 s
  InboxTtl,      \* ttl of an engine's claims on messages: 300 s
  NoInbox,       \* the inbox of a task that waits for no message
  Plans,         \* task -> the plans its planner may return
  Faulty,        \* the storage calls that may raise, of those named below
  MaxFaults      \* bound: storage errors, crashes and shutdowns

FaultyCall == {"task_outcomes", "save_outcome", "finish", "commit", "cleanup", "renew_run"}

ASSUME EngineAssumption ==
  /\ Slots \in Nat \ {0}
  /\ {JobTtl, LeaseSeconds, InboxTtl} \subseteq Nat \ {0}
  /\ Faulty \subseteq FaultyCall
  /\ MaxFaults \in Nat
  /\ {"completed", "failed", "skipped"} \subseteq Outcome
  /\ Workflow \X Task \X (1..MaxGeneration) \subseteq Owner
  /\ \A t \in Task : \A plan \in Plans[t] : plan.envelopes \subseteq Envelope
  /\ \A s \in Specification : IsFiniteSet(DOMAIN s.tasks) /\ DOMAIN s.resources \subseteq Key
  /\ \A s \in Specification : \A t \in DOMAIN s.tasks : s.tasks[t].reads \subseteq Key

VARIABLES
  jobs,          \* <<scheduler, run>> -> the engine at work on it
  keepers,       \* <<scheduler, run, generation>> of the heartbeats
  tokens,        \* execution_tokens: those of the engines that still remember theirs
  work,          \* <<scheduler, run, generation, task>> -> the coroutine of the task
  faults,        \* faults so far
  lost,          \* history: the commits whose answer never came
  orphaned       \* history: what coroutines held that died in a fault

engineVars == <<jobs, keepers, tokens, work, faults, lost, orphaned>>
tableVars == <<resources, leaseVars, runVars, messagingVars, commitVars>>

\* Where a job can be: the phases of Engine.run.
AwaitingPhases == {"started", "gathering", "cancelled", "leaving"}
Phases == AwaitingPhases \union
  {"claimed", "provisioning", "saving", "skipping", "finishing", "failing"}

\* Where a task can be: the places of Engine._execute.
AwaitingPlaces ==
  {"waiting", "listening", "planning", "sleeping", "interrupted", "done", "raised"}
Places == AwaitingPlaces \union {"beginning", "reading", "leasing", "committing", "cleaning"}

Verdict == {"none", "completed", "failed", "retry", "cancelled"}

NoPlan == [writes |-> EmptyTable, envelopes |-> {}]

\* outcomes is the dict of the same name: task -> outcome.
Job(phase, generation, outcomes) ==
  [phase |-> phase, generation |-> generation, outcomes |-> outcomes]

\* The locals of an iteration: the message (or none), the attempt (or 0), the stamps
\* read, the plan, the lease (or 0), and what the iteration comes to.
Fresh(at) ==
  [at |-> at, message |-> {}, attempt |-> 0, reads |-> EmptyTable, plan |-> NoPlan,
   lease |-> 0, verdict |-> "none"]

EngineRow ==
  [phase : Phases, generation : 0..MaxGeneration,
   outcomes : UNION {[T -> Outcome] : T \in SUBSET Task}]

\* A claim on a message, and all a coroutine can hold, under its own name.
Claim == [id : DeliveryId, owner : Owner, token : Nat \ {0}]
HoldingRow == [owner : Owner, message : SUBSET Claim, attempt : Nat, lease : Nat]

\* The row of a coroutine that has read these stamps.
Coroutine(reads) ==
  [at : Places, message : SUBSET Claim, attempt : Nat, reads : {reads},
   plan : {NoPlan} \union UNION {Plans[t] : t \in Task},
   lease : Nat, verdict : Verdict]

EngineTypeOK ==
  /\ IsTable(jobs, Scheduler \X Workflow, EngineRow)
  /\ keepers \union tokens \subseteq Scheduler \X Workflow \X (1..MaxGeneration)
  /\ DOMAIN work \subseteq Scheduler \X Workflow \X (1..MaxGeneration) \X Task
  /\ \A c \in DOMAIN work :
       /\ work[c] \in Coroutine(work[c].reads)
       /\ IsTable(work[c].reads, Key, [version : Nat \ {0}, schema_version : Nat \ {0}])
       /\ \A m, n \in work[c].message : m = n
       /\ work[c].attempt <= Len(attempts)
       /\ work[c].lease <= lease_sequence
  /\ faults \in 0..MaxFaults
  /\ lost \subseteq Workflow \X Task
  /\ orphaned \subseteq HoldingRow

EngineInit ==
  /\ jobs = EmptyTable
  /\ keepers = {} /\ tokens = {}
  /\ work = EmptyTable
  /\ faults = 0
  /\ lost = {} /\ orphaned = {}

-----------------------------------------------------------------------------
(* Faulty variants, which the runs put in the place of the operator each names. *)

\* Interrupted, by a cancel that the retry loop takes for a failure of the planner.
InterruptedUnwound(c) == [Fresh("interrupted") EXCEPT !.verdict = "cancelled"]

\* FinalStatus, content with any task that completed.
FinalOfSaved(w, outcomes) ==
  IF \E t \in DOMAIN outcomes : outcomes[t] = "completed" THEN "completed" ELSE "failed"

\* Ready, when what it depends on has an outcome of any kind.
ReadyAfterAny(w, outcomes) ==
  {t \in DOMAIN TasksOf(w) \ DOMAIN outcomes : TasksOf(w)[t].depends_on \subseteq DOMAIN outcomes}

\* Cached, asking no receipt: a task taken over starts anew.
NothingCached(w, t) == FALSE

\* SlotFree, when a task that has ended keeps its slot.
SlotNeverReturned(c) ==
  Cardinality({x \in DOMAIN work : x[1] = c[1] /\ x[2] = c[2] /\ x[3] = c[3]
                                  /\ work[x].at # "waiting"}) < Slots

-----------------------------------------------------------------------------
(* Coroutines.                                                              *)

EngineOf(c) == <<c[1], c[2]>>
TaskOf(c) == TasksOf(c[2])[c[4]]

\* A fresh name for every call of _execute.
NameOf(c) == <<c[2], c[4], c[3]>>

\* What a coroutine holds.
Holding(c) ==
  [owner |-> NameOf(c), message |-> work[c].message, attempt |-> work[c].attempt,
   lease |-> work[c].lease]

\* The coroutines in C end as they are, with all they hold.
Die(C) == orphaned' = orphaned \union {Holding(c) : c \in C}

\* The job and the generation a coroutine was created by are still there.
Attached(c) == EngineOf(c) \in DOMAIN jobs /\ jobs[EngineOf(c)].generation = c[3]

\* execution_tokens.get: an engine that left has taken its token along, unless it was
\* cancelled while it left.
TokenOf(c) == IF <<c[1], c[2], c[3]>> \in tokens THEN c[3] ELSE None

\* No coroutine of the process but me is between two awaits.
Turn(s, me) ==
  /\ \A j \in DOMAIN jobs : j[1] = s /\ j # me => jobs[j].phase \in AwaitingPhases
  /\ \A c \in DOMAIN work : c[1] = s /\ c # me => work[c].at \in AwaitingPlaces

Fault(call) == call \in Faulty /\ faults < MaxFaults /\ faults' = faults + 1

\* The coroutines of the tasks of an engine.
CoroutinesOf(s, w, g) == {c \in DOMAIN work : c[1] = s /\ c[2] = w /\ c[3] = g}

At(c, place) == work[c].at = place /\ Turn(c[1], c)

Goes(c, row) == work' = [work EXCEPT ![c] = row]
Ends(c, verdict) == Goes(c, [work[c] EXCEPT !.at = "cleaning", !.verdict = verdict])

\* The result waits for gather, if the engine still does.
Gathering(c) == Attached(c) /\ jobs[EngineOf(c)].phase \in {"gathering", "cancelled"}

Settles(c, verdict) ==
  work' = IF Gathering(c) THEN [work EXCEPT ![c] = [Fresh("done") EXCEPT !.verdict = verdict]]
          ELSE Delete(work, {c})

-----------------------------------------------------------------------------
(* Engine.run.                                                              *)

In(s, w, phase) == jobs[<<s, w>>].phase = phase /\ Turn(s, <<s, w>>)
Phase(s, w, phase) == jobs' = [jobs EXCEPT ![<<s, w>>].phase = phase]
Removed(s, w) == jobs' = Delete(jobs, {<<s, w>>})

\* The tasks of the next wave.
Ready(w, outcomes) ==
  {t \in DOMAIN TasksOf(w) \ DOMAIN outcomes :
     \A d \in TasksOf(w)[t].depends_on : d \in DOMAIN outcomes /\ outcomes[d] = "completed"}

\* The loop goes on with the next wave, or ends.
Onward(s, w, outcomes, rest) ==
  LET g == jobs[<<s, w>>].generation
      wave == Ready(w, outcomes)
      phase == IF DOMAIN TasksOf(w) \subseteq DOMAIN outcomes THEN "finishing"
               ELSE IF wave = {} THEN "skipping" ELSE "gathering" IN
    /\ jobs' = [jobs EXCEPT ![<<s, w>>] = Job(phase, g, outcomes)]
    /\ work' = Upsert(rest, [c \in {<<s, w, g, t>> : t \in wave} |-> Fresh("waiting")])

\* The claim and the heartbeat that keeps it.
ClaimJob(s, w) ==
  /\ In(s, w, "started")
  /\ ClaimRun(w, s, JobTtl)
  /\ LET g == run_jobs[w].generation + 1 IN
       /\ jobs' = [jobs EXCEPT ![<<s, w>>] = Job("claimed", g, EmptyTable)]
       /\ keepers' = keepers \union {<<s, w, g>>}
       /\ tokens' = tokens \union {<<s, w, g>>}
  /\ UNCHANGED <<clock, resources, leaseVars, messagingVars, commitVars, work, faults,
                 lost, orphaned>>

\* The run is closed, overdue (and then swept), or somebody else's.
ClaimRefused(s, w) ==
  /\ In(s, w, "started")
  /\ \/ workflows[w].status # "running" /\ UNCHANGED runVars
     \/ w \in Overdue /\ ExpireRuns
     \/ Active(w) /\ ~Claimable(w) /\ UNCHANGED runVars
  /\ Removed(s, w)
  /\ UNCHANGED <<clock, resources, leaseVars, messagingVars, commitVars, keepers, tokens,
                 work, faults, lost, orphaned>>

\* task_outcomes is read outside the try block, after the heartbeat was started.
ReadOutcomes(s, w) ==
  /\ In(s, w, "claimed")
  /\ LET saved == {t \in Task : <<w, t>> \in DOMAIN task_outcomes} IN
       jobs' = [jobs EXCEPT ![<<s, w>>] =
         Job("provisioning", @.generation, [t \in saved |-> task_outcomes[<<w, t>>]])]
  /\ UNCHANGED <<clock, tableVars, keepers, tokens, work, faults, lost, orphaned>>

ReadOutcomesFails(s, w) ==
  /\ In(s, w, "claimed")
  /\ Fault("task_outcomes")
  /\ Removed(s, w)
  /\ UNCHANGED <<clock, tableVars, keepers, tokens, work, lost, orphaned>>

\* The initial resources of the specification, those that are not there yet, unless one
\* of them breaks its own schema.
Provision(s, w) ==
  LET initial == workflows[w].specification.resources
      missing == DOMAIN initial \ DOMAIN resources
      invalid == {k \in DOMAIN initial : ~Validates(initial[k].value, initial[k].json_schema)} IN
    /\ In(s, w, "provisioning")
    /\ \/ \E k \in missing :
            /\ CreateResource(k, initial[k].value, initial[k].json_schema)
            /\ UNCHANGED <<jobs, work>>
       \/ /\ invalid # {}
          /\ Phase(s, w, "failing")
          /\ UNCHANGED <<resources, work>>
       \/ /\ missing = {} /\ invalid = {}
          /\ Onward(s, w, jobs[<<s, w>>].outcomes, work)
          /\ UNCHANGED resources
    /\ UNCHANGED <<clock, leaseVars, runVars, messagingVars, commitVars, keepers, tokens,
                   faults, lost, orphaned>>

\* All the results of the wave are there.
Gathered(s, w) ==
  /\ In(s, w, "gathering")
  /\ \A c \in CoroutinesOf(s, w, jobs[<<s, w>>].generation) : work[c].at = "done"
  /\ Phase(s, w, "saving")
  /\ UNCHANGED <<clock, tableVars, keepers, tokens, work, faults, lost, orphaned>>

Ended(c) == work[c].at \in {"done", "raised"}

\* The results of the wave are dropped; the tasks that have not ended go on without it.
Abandons(s, w, phase) ==
  /\ work' = Delete(work, {c \in CoroutinesOf(s, w, jobs[<<s, w>>].generation) : Ended(c)})
  /\ Phase(s, w, phase)
  /\ UNCHANGED <<clock, tableVars, keepers, tokens, faults, lost, orphaned>>

\* A faulty variant, which a run puts in the place of GatherFails: the tasks that have not
\* ended are forgotten with the others.
GatherForgets(s, w) ==
  LET mine == CoroutinesOf(s, w, jobs[<<s, w>>].generation) IN
    /\ In(s, w, "gathering") \/ In(s, w, "cancelled")
    /\ \E c \in mine : work[c].at = "raised"
    /\ work' = Delete(work, mine)
    /\ Phase(s, w, "failing")
    /\ UNCHANGED <<clock, tableVars, keepers, tokens, faults, lost, orphaned>>

\* gather passes on the first exception of a task, without waiting for the others.
GatherFails(s, w) ==
  /\ In(s, w, "gathering") \/ In(s, w, "cancelled")
  /\ \E c \in CoroutinesOf(s, w, jobs[<<s, w>>].generation) : work[c].at = "raised"
  /\ Abandons(s, w, "failing")

\* And so it does with the end of the first task that its own cancellation reached.
GatherCancelled(s, w) ==
  LET g == jobs[<<s, w>>].generation
      wave == {<<s, w, g, t>> : t \in Ready(w, jobs[<<s, w>>].outcomes)} IN
    /\ In(s, w, "cancelled")
    /\ \/ \E c \in wave : c \in DOMAIN work => work[c].at = "raised"
       \/ \A c \in wave : c \in DOMAIN work /\ work[c].at = "done"
    /\ Abandons(s, w, "leaving")

\* The result of one task.  No other engine can have saved it since the claim.
SaveResult(s, w, t) ==
  LET g == jobs[<<s, w>>].generation
      c == <<s, w, g, t>>
      outcomes == Insert(jobs[<<s, w>>].outcomes, t, work[c].verdict) IN
    /\ In(s, w, "saving")
    /\ c \in DOMAIN work
    /\ SaveOutcome(w, t, work[c].verdict, g)
    /\ IF CoroutinesOf(s, w, g) = {c} THEN Onward(s, w, outcomes, Delete(work, {c}))
       ELSE /\ jobs' = [jobs EXCEPT ![<<s, w>>].outcomes = outcomes]
            /\ work' = Delete(work, {c})
    /\ UNCHANGED <<clock, resources, leaseVars, messagingVars, commitVars, keepers, tokens,
                   faults, lost, orphaned>>

\* No task of those left can run any more: each is saved as skipped.
SaveSkipped(s, w, t) ==
  LET outcomes == Insert(jobs[<<s, w>>].outcomes, t, "skipped") IN
    /\ In(s, w, "skipping")
    /\ t \in DOMAIN TasksOf(w) \ DOMAIN jobs[<<s, w>>].outcomes
    /\ SaveOutcome(w, t, "skipped", jobs[<<s, w>>].generation)
    /\ jobs' = [jobs EXCEPT ![<<s, w>>] =
         Job(IF DOMAIN TasksOf(w) \subseteq DOMAIN outcomes THEN "finishing" ELSE "skipping",
             @.generation, outcomes)]
    /\ UNCHANGED <<clock, resources, leaseVars, messagingVars, commitVars, keepers, tokens,
                   work, faults, lost, orphaned>>

Drops(s, w) == work' = Delete(work, CoroutinesOf(s, w, jobs[<<s, w>>].generation))

\* execution_fenced: the engine leaves the run alone.
SaveRefused(s, w) ==
  /\ In(s, w, "saving") \/ In(s, w, "skipping")
  /\ ~ExecutionAllowed(w, jobs[<<s, w>>].generation)
  /\ Phase(s, w, "leaving")
  /\ Drops(s, w)
  /\ UNCHANGED <<clock, tableVars, keepers, tokens, faults, lost, orphaned>>

\* A storage error fails the run, whether the outcome was written before it or not.
SaveFails(s, w) ==
  LET g == jobs[<<s, w>>].generation
      left == DOMAIN TasksOf(w) \ DOMAIN jobs[<<s, w>>].outcomes IN
    /\ \/ /\ In(s, w, "saving") \/ In(s, w, "skipping")
          /\ UNCHANGED runVars
       \/ /\ In(s, w, "saving")
          /\ \E c \in CoroutinesOf(s, w, g) : SaveOutcome(w, c[4], work[c].verdict, g)
       \/ /\ In(s, w, "skipping")
          /\ \E t \in left : SaveOutcome(w, t, "skipped", g)
    /\ Fault("save_outcome")
    /\ Phase(s, w, "failing")
    /\ Drops(s, w)
    /\ UNCHANGED <<clock, resources, leaseVars, messagingVars, commitVars, keepers, tokens,
                   lost, orphaned>>

FinalStatus(w, outcomes) ==
  IF \A t \in DOMAIN outcomes : outcomes[t] = "completed" THEN "completed" ELSE "failed"

FinishJob(s, w) ==
  LET g == jobs[<<s, w>>].generation IN
    /\ \/ /\ In(s, w, "finishing")
          /\ Finish(w, FinalStatus(w, jobs[<<s, w>>].outcomes), g)
       \/ In(s, w, "failing") /\ Finish(w, "failed", g)
       \/ /\ In(s, w, "finishing") \/ In(s, w, "failing")
          /\ ~ExecutionAllowed(w, g)
          /\ UNCHANGED runVars
    /\ Phase(s, w, "leaving")
    /\ UNCHANGED <<clock, resources, leaseVars, messagingVars, commitVars, keepers, tokens,
                   work, faults, lost, orphaned>>

\* A storage error of finish, whether it closed the run or not, is answered with another
\* finish, or ends the engine.
FinishFails(s, w) ==
  LET g == jobs[<<s, w>>].generation IN
    /\ \/ /\ In(s, w, "finishing") /\ Phase(s, w, "failing")
          /\ UNCHANGED runVars \/ Finish(w, FinalStatus(w, jobs[<<s, w>>].outcomes), g)
       \/ /\ In(s, w, "failing") /\ Phase(s, w, "leaving")
          /\ UNCHANGED runVars \/ Finish(w, "failed", g)
    /\ Fault("finish")
    /\ UNCHANGED <<clock, resources, leaseVars, messagingVars, commitVars, keepers, tokens,
                   work, lost, orphaned>>

\* The finally block.
Leave(s, w) ==
  LET g == jobs[<<s, w>>].generation IN
    /\ In(s, w, "leaving")
    /\ \/ ReleaseRun(w, s, g)
       \/ ~(run_jobs[w].owner = s /\ run_jobs[w].generation = g) /\ UNCHANGED runVars
    /\ keepers' = keepers \ {<<s, w, g>>}
    /\ tokens' = tokens \ {<<s, w, g>>}
    /\ Removed(s, w)
    /\ UNCHANGED <<clock, resources, leaseVars, messagingVars, commitVars, work, faults,
                   lost, orphaned>>

-----------------------------------------------------------------------------
(* Engine._execute, for one task of a wave.                                  *)

Cached(w, t) == <<w, t>> \in DOMAIN operations

\* Another iteration, if the persisted budget allows for it.
Tries(c) ==
  IF Cardinality(AttemptsOf(c[2], c[4])) < TaskOf(c).max_attempts
  THEN Goes(c, Fresh(IF TaskOf(c).inbox = NoInbox THEN "beginning" ELSE "listening"))
  ELSE Settles(c, "failed")

SlotFree(c) ==
  Cardinality({x \in CoroutinesOf(c[1], c[2], c[3]) :
                 work[x].at \notin {"waiting", "done", "raised"}}) < Slots

\* Past the semaphore; a receipt of an earlier engine answers for the task.
Starts(c) ==
  /\ At(c, "waiting")
  /\ SlotFree(c)
  /\ IF Cached(c[2], c[4]) THEN Settles(c, "completed") ELSE Tries(c)
  /\ UNCHANGED <<clock, tableVars, jobs, keepers, tokens, faults, lost, orphaned>>

Retries(c) ==
  /\ At(c, "sleeping")
  /\ Tries(c)
  /\ UNCHANGED <<clock, tableVars, jobs, keepers, tokens, faults, lost, orphaned>>

\* The inbox is polled until there is a message.  That the run is still open was seen
\* in an earlier transaction than the claim.
Receives(c) ==
  LET inbox == TaskOf(c).inbox IN
    /\ At(c, "listening")
    /\ \/ \E id \in DOMAIN deliveries :
            /\ ClaimDelivery(id, "message", inbox, NameOf(c), InboxTtl, {c[2]})
            /\ Goes(c, [work[c] EXCEPT !.at = "beginning",
                 !.message = {[id |-> id, owner |-> NameOf(c),
                             token |-> deliveries[id].token + 1]}])
       \/ ClaimNothing("message", inbox, {c[2]}) /\ UNCHANGED work
    /\ UNCHANGED <<clock, resources, leaseVars, runVars, commitVars, jobs, keepers, tokens,
                   faults, lost, orphaned>>

StopsListening(c) ==
  /\ At(c, "listening")
  /\ ~Active(c[2])
  /\ Settles(c, "failed")
  /\ UNCHANGED <<clock, tableVars, jobs, keepers, tokens, faults, lost, orphaned>>

Begins(c) ==
  /\ At(c, "beginning")
  /\ \/ /\ BeginAttempt(c[2], c[4], NameOf(c), TokenOf(c))
        /\ Goes(c, [work[c] EXCEPT !.at = "reading", !.attempt = Len(attempts) + 1])
     \/ /\ ~BeginAllowed(c[2], c[4], TokenOf(c))
        /\ Ends(c, "failed")
        /\ UNCHANGED runVars
  /\ UNCHANGED <<clock, resources, leaseVars, messagingVars, commitVars, jobs, keepers, tokens,
                 faults, lost, orphaned>>

\* The snapshot; then the deadline, which bounds the time of the planner.
Reads(c) ==
  LET keys == TaskOf(c).reads IN
    /\ At(c, "reading")
    /\ IF keys \subseteq DOMAIN resources /\ Unexpired(workflows[c[2]].deadline)
       THEN Goes(c, [work[c] EXCEPT !.at = "planning",
                       !.reads = [k \in keys |-> Stamp(resources[k])]])
       ELSE Ends(c, "failed")
    /\ UNCHANGED <<clock, tableVars, jobs, keepers, tokens, faults, lost, orphaned>>

\* The planner returns a plan, in the task's scope or not, or fails, or runs out of time.
Planned(c) ==
  /\ At(c, "planning")
  /\ \/ \E plan \in Plans[c[4]] :
          IF DOMAIN plan.writes = TaskOf(c).writes
          THEN Goes(c, [work[c] EXCEPT !.at = "leasing", !.plan = plan])
          ELSE Ends(c, "failed")
     \/ Ends(c, "failed")
  /\ UNCHANGED <<clock, tableVars, jobs, keepers, tokens, faults, lost, orphaned>>

Acquires(c) ==
  LET keys == TaskOf(c).reads IN
    /\ At(c, "leasing")
    /\ \/ /\ Acquire(NameOf(c), keys, LeaseSeconds)
          /\ Goes(c, [work[c] EXCEPT !.at = "committing", !.lease = NextToken])
       \/ ~Free(keys) /\ Ends(c, "retry") /\ UNCHANGED leaseVars
    /\ UNCHANGED <<clock, resources, runVars, messagingVars, commitVars, jobs, keepers, tokens,
                   faults, lost, orphaned>>

Request(c) ==
  [workflow |-> c[2], operation |-> c[4], owner |-> NameOf(c), attempt |-> work[c].attempt,
   lease_token |-> work[c].lease, execution_token |-> TokenOf(c),
   acknowledgements |-> work[c].message, reads |-> work[c].reads,
   writes |-> work[c].plan.writes, envelopes |-> work[c].plan.envelopes]

Commits(c) ==
  /\ At(c, "committing")
  /\ Commit(Request(c))
  /\ Ends(c, "completed")
  /\ UNCHANGED <<clock, jobs, keepers, tokens, faults, lost, orphaned>>

\* The transaction took effect, but its answer did not come back.
CommitsUnanswered(c) ==
  /\ At(c, "committing")
  /\ Fault("commit")
  /\ Commit(Request(c))
  /\ Ends(c, "failed")
  /\ lost' = lost \union {<<c[2], c[4]>>}
  /\ UNCHANGED <<clock, jobs, keepers, tokens, orphaned>>

\* Leases and versions may be better the next time.  A receipt of another engine answers
\* the request, or contradicts it.
CommitRefused(c) ==
  LET r == Request(c) IN
    /\ At(c, "committing")
    /\ ~CommitAllowed(r)
    /\ Ends(c, IF Answered(r) THEN "completed"
               ELSE IF Unanswered(r) /\ CommitAuthorised(r) /\ ~ReadsFenced(r) THEN "retry"
               ELSE "failed")
    /\ UNCHANGED <<clock, tableVars, jobs, keepers, tokens, faults, lost, orphaned>>

\* CancelledError at an await within the try block.
Unwinds(c) ==
  /\ At(c, "interrupted")
  /\ Ends(c, "cancelled")
  /\ UNCHANGED <<clock, tableVars, jobs, keepers, tokens, faults, lost, orphaned>>

\* The finally block, a transaction at a time: the message goes back unless it was
\* consumed, then the lease and the attempt.
Cleans(c) ==
  LET done(field, nothing) == Goes(c, [work[c] EXCEPT ![field] = nothing])
      back == work[c].message # {} /\ work[c].verdict # "completed" IN
  /\ At(c, "cleaning")
  /\ \/ /\ back
        /\ \E m \in work[c].message :
             \/ RejectDelivery(m.id, m.owner, m.token, 0)
             \/ ~(Held(m.id, m.owner, m.token) /\ InFlight(m.id)) /\ UNCHANGED messagingVars
        /\ done("message", {})
        /\ UNCHANGED <<leaseVars, runVars>>
     \/ /\ ~back /\ work[c].lease # 0
        /\ Release(NameOf(c), work[c].lease)
        /\ done("lease", 0)
        /\ UNCHANGED <<messagingVars, runVars>>
     \/ /\ ~back /\ work[c].lease = 0 /\ work[c].attempt # 0
        /\ \/ AbandonAttempt(work[c].attempt)
           \/ attempts[work[c].attempt].status # "pending" /\ UNCHANGED runVars
        /\ done("attempt", 0)
        /\ UNCHANGED <<messagingVars, leaseVars>>
  /\ UNCHANGED <<clock, resources, commitVars, jobs, keepers, tokens, faults, lost, orphaned>>

\* What the iteration came to.
Concludes(c) ==
  /\ At(c, "cleaning")
  /\ work[c].message = {} \/ work[c].verdict = "completed"
  /\ work[c].lease = 0 /\ work[c].attempt = 0
  /\ CASE work[c].verdict = "retry" -> Goes(c, Fresh("sleeping"))
       [] work[c].verdict = "cancelled" -> work' = Delete(work, {c})
       [] OTHER -> Settles(c, work[c].verdict)
  /\ UNCHANGED <<clock, tableVars, jobs, keepers, tokens, faults, lost, orphaned>>

\* A storage error while cleaning up: what was not yet given back is left to expire.
CleaningFails(c) ==
  /\ At(c, "cleaning")
  /\ Fault("cleanup")
  /\ Die({c})
  /\ work' = IF Gathering(c) THEN [work EXCEPT ![c] = Fresh("raised")] ELSE Delete(work, {c})
  /\ UNCHANGED <<clock, tableVars, jobs, keepers, tokens, lost>>

-----------------------------------------------------------------------------
(* Cancellation and heartbeats.                                              *)

\* A task holds nothing at an await but what it plans with.
Interrupted(c) == [work[c] EXCEPT !.at = "interrupted"]

\* task.cancel of the jobs in J, all of one process, whose coroutines are all at an await.
\* An engine that has not begun ends, one that gathers cancels its tasks, and one that
\* leaves does not get to release its claim or to forget its token.  kept are the heartbeats
\* that go on.
Cancel(J, kept) ==
  LET ended == {j \in J : jobs[j].phase \in {"started", "leaving"}}
      children == {c \in DOMAIN work : /\ EngineOf(c) \in J /\ Attached(c) /\ ~Ended(c)
                                       /\ jobs[EngineOf(c)].phase = "gathering"}
      planning == {c \in children : work[c].at = "planning"} IN
    /\ jobs' = [j \in DOMAIN jobs \ ended |->
         IF j \in J THEN [jobs[j] EXCEPT !.phase = "cancelled"] ELSE jobs[j]]
    /\ work' = Upsert(Delete(work, children), [c \in planning |-> Interrupted(c)])
    /\ keepers' = kept \ {<<j[1], j[2], jobs[j].generation>> : j \in ended}
    /\ UNCHANGED tokens

Quiet(s) == Turn(s, <<>>)

\* renew_run in a thread of its own.
Beat(k) ==
  /\ k \in keepers
  /\ RenewRun(k[2], k[1], k[3], JobTtl)
  /\ run_jobs' # run_jobs
  /\ UNCHANGED <<clock, resources, leaseVars, messagingVars, commitVars, engineVars>>

RenewAllowed(k) ==
  Active(k[2]) /\ ExecutionAllowed(k[2], k[3]) /\ run_jobs[k[2]].owner = k[1]

\* The heartbeat cancels the engine that started it, if that still runs, and ends.
BeatFails(k) ==
  LET s == k[1]
      mine == {j \in {<<s, k[2]>>} \intersect DOMAIN jobs : jobs[j].generation = k[3]} IN
    /\ k \in keepers /\ Quiet(s)
    /\ \/ ~RenewAllowed(k) /\ UNCHANGED faults
       \/ Fault("renew_run")
    /\ Cancel(mine, keepers \ {k})
    /\ UNCHANGED <<clock, tableVars, lost, orphaned>>

-----------------------------------------------------------------------------
TaskStep(c) ==
  \/ Starts(c)
  \/ Retries(c)
  \/ Receives(c)
  \/ StopsListening(c)
  \/ Begins(c)
  \/ Reads(c)
  \/ Planned(c)
  \/ Acquires(c)
  \/ Commits(c)
  \/ CommitRefused(c)
  \/ Unwinds(c)
  \/ Cleans(c)
  \/ Concludes(c)

JobStep(s, w) ==
  \/ ClaimJob(s, w)
  \/ ClaimRefused(s, w)
  \/ ReadOutcomes(s, w)
  \/ Provision(s, w)
  \/ Gathered(s, w)
  \/ GatherFails(s, w)
  \/ GatherCancelled(s, w)
  \/ \E t \in Task : SaveResult(s, w, t) \/ SaveSkipped(s, w, t)
  \/ SaveRefused(s, w)
  \/ FinishJob(s, w)
  \/ Leave(s, w)
=============================================================================
