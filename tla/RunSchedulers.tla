---------------------------- MODULE RunSchedulers ----------------------------
(***************************************************************************)
(* Runs with the schedulers and clients that act on them.  claims is the    *)
(* history of what claim_run and renew_run told each scheduler.  It is not  *)
(* state of the program: a scheduler may crash and never use its claim, or  *)
(* be suspended and act on it long after another one took the run over.     *)
(***************************************************************************)
EXTENDS Runs

VARIABLE claims        \* <<run id, generation>> -> what the claimant was told

vars == <<clock, workflows, attempts, run_jobs, task_outcomes, claims>>

Claim == [owner : Scheduler, expires_at : Nat, released : BOOLEAN]

TypeOK ==
  /\ clock \in Nat
  /\ RunTablesOK
  /\ IsTable(claims, Workflow \X (Nat \ {0}), Claim)

Init ==
  /\ clock = 0
  /\ RunTablesInit
  /\ claims = EmptyTable

-----------------------------------------------------------------------------
(* Requests.  Clients of the API create runs, enqueue and cancel them, and   *)
(* begin attempts of their own; engines act under the claim they were given. *)

\* The deadline of every run lies within the bound on the clock.
Create(w, specification) ==
  /\ clock + specification.timeout_seconds <= MaxClock
  /\ CreateWorkflow(w, specification)
  /\ UNCHANGED <<clock, claims>>

Submit(w, mode) == Enqueue(w, mode) /\ UNCHANGED <<clock, claims>>

TakeClaim(w, scheduler, ttl) ==
  /\ ClaimRun(w, scheduler, ttl)
  /\ claims' = Insert(claims, <<w, run_jobs[w].generation + 1>>,
                 [owner |-> scheduler, expires_at |-> clock + ttl, released |-> FALSE])
  /\ UNCHANGED clock

Heartbeat(w, generation, ttl) ==
  /\ RenewRun(w, claims[<<w, generation>>].owner, generation, ttl)
  /\ claims' = [claims EXCEPT ![<<w, generation>>].expires_at = clock + ttl]
  /\ UNCHANGED clock

\* The engine releases its claim however its run ended, even if it was fenced.
GiveUpClaim(w, generation) ==
  /\ ReleaseRun(w, claims[<<w, generation>>].owner, generation)
  /\ claims' = [claims EXCEPT ![<<w, generation>>].released = TRUE]
  /\ UNCHANGED clock

Begin(w, op, owner, token) == BeginAttempt(w, op, owner, token) /\ UNCHANGED <<clock, claims>>

Abandon(id) == AbandonAttempt(id) /\ UNCHANGED <<clock, claims>>

End(w, status, token) == Finish(w, status, token) /\ UNCHANGED <<clock, claims>>

Save(w, task, outcome, generation) ==
  SaveOutcome(w, task, outcome, generation) /\ UNCHANGED <<clock, claims>>

Expire == ExpireRuns /\ UNCHANGED <<clock, claims>>

Wait == Tick /\ UNCHANGED <<workflows, attempts, run_jobs, task_outcomes, claims>>

Next ==
  \/ \E w \in Workflow, specification \in Specification : Create(w, specification)
  \/ \E w \in Workflow, mode \in Mode : Submit(w, mode)
  \/ \E w \in Workflow, scheduler \in Scheduler, ttl \in ClaimTtl : TakeClaim(w, scheduler, ttl)
  \/ \E c \in DOMAIN claims, ttl \in ClaimTtl : Heartbeat(c[1], c[2], ttl)
  \/ \E c \in DOMAIN claims : GiveUpClaim(c[1], c[2])
  \/ \E w \in Workflow, op \in Task, owner \in Owner, token \in ExecutionToken :
       Begin(w, op, owner, token)
  \/ \E id \in DOMAIN attempts : Abandon(id)
  \/ \E w \in DOMAIN workflows, status \in Terminal, token \in ExecutionToken :
       End(w, status, token)
  \/ \E c \in DOMAIN claims, task \in Task, outcome \in Outcome : Save(c[1], task, outcome, c[2])
  \/ Expire
  \/ Wait

Spec == Init /\ [][Next]_vars

\* Time passes, and some scheduler keeps polling: Scheduler.loop calls expire_runs
\* on every round and survives any exception.  Nothing else is promised; claims,
\* attempts and cancellations may never come.
FairSpec == Spec /\ WF_vars(Wait) /\ WF_vars(Expire)

-----------------------------------------------------------------------------
(* Properties.                                                              *)

RowsOfRun(w) == {i \in DOMAIN attempts : attempts[i].workflow = w}
RowsOfTask(w, t) == {i \in RowsOfRun(w) : attempts[i].operation = t}

\* The persisted budget is exact across crashes, takeovers and retries: steps is
\* the number of attempt rows of the run, never above max_steps, and no listed
\* task has more rows than its max_attempts.
BudgetExact ==
  /\ \A w \in DOMAIN workflows :
       /\ workflows[w].steps = Cardinality(RowsOfRun(w))
       /\ workflows[w].steps <= workflows[w].specification.max_steps
       /\ \A t \in DOMAIN TasksOf(w) :
            Cardinality(RowsOfTask(w, t)) <= TasksOf(w)[t].max_attempts
  /\ \A i \in DOMAIN attempts : attempts[i].workflow \in DOMAIN workflows

\* A run that is over has no attempt left with which a worker could commit.
ClosedRunsQuiet ==
  \A i \in DOMAIN attempts :
    workflows[attempts[i].workflow].status # "running" => attempts[i].status # "pending"

\* Once a run was claimed, an attempt that could still commit was begun under the
\* newest claim: a takeover leaves none of the replaced scheduler's attempts.
PendingUnderNewestClaim ==
  \A i \in DOMAIN attempts :
    LET w == attempts[i].workflow IN
      /\ attempts[i].status = "pending"
      /\ w \in DOMAIN run_jobs
      /\ run_jobs[w].generation > 0
      => attempts[i].generation = run_jobs[w].generation

\* Attempts are begun in the order of the claims: after a scheduler has begun one,
\* no scheduler it replaced begins another.
GenerationsInOrder ==
  \A i, j \in DOMAIN attempts :
    i < j /\ attempts[i].workflow = attempts[j].workflow
      => attempts[i].generation <= attempts[j].generation

\* No attempt and no claim is of a generation the run has not reached, so the token
\* of the next claim is new: a release, or the end of a run, never recycles one.
GenerationsIssued ==
  /\ \A i \in DOMAIN attempts :
       LET w == attempts[i].workflow IN
         IF w \in DOMAIN run_jobs
         THEN attempts[i].generation <= run_jobs[w].generation
         ELSE attempts[i].generation = 0
  /\ \A c \in DOMAIN claims :
       /\ c[1] \in DOMAIN run_jobs
       /\ c[2] <= run_jobs[c[1]].generation

\* The scheduler still relies on its claim.
Held(c) == ~claims[c].released /\ clock < claims[c].expires_at

\* A scheduler whose claim it did not release and that, by what it was last told,
\* has not expired owns the run under its generation: there is no split brain.
LiveClaimIntact ==
  \A c \in DOMAIN claims : Held(c) =>
    /\ c[1] \in DOMAIN run_jobs
    /\ run_jobs[c[1]].owner = claims[c].owner
    /\ run_jobs[c[1]].generation = c[2]
    /\ run_jobs[c[1]].expires_at = claims[c].expires_at

\* The end of a run is final, whatever races with it: afterwards neither its row
\* nor any of its attempts changes, and none is added.
ClosedRunFrozen ==
  [][\A w \in DOMAIN workflows : workflows[w].status # "running" =>
       /\ workflows'[w] = workflows[w]
       /\ \A i \in DOMAIN attempts' : attempts'[i].workflow = w =>
            i \in DOMAIN attempts /\ attempts'[i] = attempts[i]]_vars

\* A pending attempt is abandoned for one of three reasons only: its own run ended,
\* its own run was claimed anew, or it was abandoned alone.  Nothing that happens to
\* another run costs it.
AbandonedForCause ==
  [][\A i \in DOMAIN attempts :
       attempts[i].status = "pending" /\ attempts'[i].status = "abandoned" =>
         LET w == attempts[i].workflow IN
           \/ workflows'[w].status # "running"
           \/ w \in DOMAIN run_jobs /\ run_jobs'[w].generation > run_jobs[w].generation
           \/ /\ \A j \in DOMAIN attempts \ {i} : attempts'[j] = attempts[j]
              /\ UNCHANGED <<workflows, run_jobs>>]_vars

\* Every run ends, also one whose clients and schedulers are all gone, enqueued or
\* not: its deadline passes and the sweep closes it.
RunsEnd ==
  \A w \in Workflow :
    (w \in DOMAIN workflows) ~> (w \in DOMAIN workflows /\ workflows[w].status \in Terminal)
=============================================================================
