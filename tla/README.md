# AgentLatch in TLA+

AgentLatch lets several agents (LLM workers, scripts, API clients) work on one
set of JSON resources. A deterministic coordinator on SQLite or PostgreSQL
decides which of their proposals take effect; schedulers run workflows durably;
a mailbox and an outbox carry messages and effects. Here the whole protocol is
specified in TLA+ (coordinator, engines, schedulers, dispatchers) and model-checked
with TLC on small instances. Every safety property that holds, and both
refinements, are also proved with TLAPS for all instances; liveness is
model-checked. Paths are those of the repository; the Python
package is `src/agentlatch/`.

## 1. The system

Every mutation runs in one transaction under one global write lock
(`storage.py`), so **one transaction is one action**. What is concurrent is what
happens *between* transactions: agents plan for minutes on snapshots that
grow stale, leases and claims expire meanwhile, processes crash, requests are
late or repeated.

| Component | State | Operations | Correct when |
|---|---|---|---|
| Storage (`storage.py`) | tables, clock | transaction, now | mutations are serial, time does not run backwards |
| Resources (`coordinator.py`) | `resources`: value, schema, two versions | create_resource, snapshot, commit | versions identify contents; stored values conform |
| Leases | `leases`, `lease_sequence` | acquire, release, expiry | all or nothing, exclusive, fenced by rising tokens |
| Runs and attempts | `workflows`, `attempts` | create_workflow, begin_attempt, abandon_attempt, finish | budgets are exact and never exceeded; the end is final |
| Durable ownership (`durable.py`) | `run_jobs`, `task_outcomes` | enqueue, claim_run, renew_run, release_run, save_outcome, expire_runs | one owner per run; a replaced owner is fenced; every run ends |
| Policies (`policies.py`) | none | enforce_rules | rules hold of the state, not of what agents believed |
| Commit (`coordinator.py`) | `operations`, `transitions` | commit | atomic, serializable, at most once, bounded loops |
| Messaging (`messaging.py`) | `channels`, `deliveries` | register_channel, stage_envelopes, claim_delivery, acknowledge, reject_delivery | fenced claims, bounded attempts, consumption atomic with the commit |
| Engine (`engine.py`) | one coroutine per task, heartbeat, cancel requests | run, _execute, heartbeat | restartable at any point; says of a task what it did; gives back what it holds |
| Scheduler (`scheduler.py`) | `jobs` | loop, work, close | every run it can execute is served; a crash costs time only |
| Dispatcher (`dispatcher.py`) | claimed effect, position in its round | once, run, HTTP handler | at-least-once with stable ids; every effect is settled |
| API (`api.py`) | none of its own | launch, cancel, one route per operation | partial launches are harmless |
| Specifications (`models.py`) | none | TaskSpec and WorkflowSpec validators | an accepted run can always go on |
| Planners, runtime, crew worker, CLI, demo, console | none shared | model calls, I/O, display | not part of the protocol |

**Interaction.** The engine calls the coordinator for each step of a task:
begin an attempt, snapshot, (plan), acquire, commit, release. `commit` is where
the parts meet: it reads the run, its claim, the attempt, the leases, the
resources and the rules, and writes resources, counters, deliveries, the
receipt and the attempt. The scheduler calls `expire_runs`, polls
`pending_runs` and starts an engine for each row; the coroutines of one process
share an event loop, heartbeats renew claims from threads of their own, and
processes meet only in the database. The API launches a run in two transactions
and cancels both the run and the job. Dispatchers and message receivers claim
deliveries, act outside any transaction, and answer later.

**What is hard**: snapshots that are stale when used; expiry racing use; a
replaced scheduler that wakes up; requests that are repeated after a lost
answer; budgets shared by concurrent workers; a message whose consumer crashes;
a cancellation that reaches one coroutine while another is in its finally block;
an effect that happens after its handler was given up.
`PROJECT.json` lists these hazards with the line each bites at and the properties
that watch it, or why none does yet.

## 2. Modules

```
Storage <- Schemas <- Resources <- Leases   <- LeaseClients
   ^          ^           ^- Policies <- WorkflowSpecs
   |          +- Messaging                  <- DeliveryClients
   |          |                             <- EffectDispatchers => EffectChannel
   +- Runs    |                             <- RunSchedulers
Leases + Runs + Messaging + Policies <- Coordinator <- CommitClients => AtomicStore
Coordinator + WorkflowSpecs <- Engines <- Schedulers

LeaseClients                   <- LeaseClientsProofs
RunsProofs                     <- RunSchedulersProofs
MessagingProofs                <- DeliveryClientsProofs, EffectDispatchersProofs
RunsProofs + MessagingProofs   <- CommitClientsProofs, SchedulersProofs
```

(`<-` is EXTENDS, `=>` a refinement; each `XProofs` also extends `X`.) The modules
on the left hold the code's tables and one operator per operation, with its guards
(the code's conditions and errors) and its writes. Those on the right add processes,
history variables for what these were told, the specification `Spec` and the
properties. There are two kinds of processes:

- In the `...Clients` modules and `RunSchedulers` anybody may issue any
  operation at any time, as the routes of the API allow, so nothing depends on
  clients being well behaved. This is where the guarantees of the coordinator
  are stated and proved.
- `Engines`, `Schedulers` and `EffectDispatchers` model the program's own
  processes statement by statement: what each does next, where it awaits, what
  it holds, and how it unwinds. This is where its promises to users are stated.

- `Storage`: tables as functions from primary keys to rows; the clock; expiry.
  All times are whole ticks. The comparisons are those of the SQL (`expires_at >
  now` is live), so the boundary instant is among the states checked.
- `Schemas`, `Policies`: data as abstract values; validation is the relation
  `Conforming`; an amount is an integer field or `NoInteger`.
- `Runs`: `workflows`, `attempts`, `run_jobs`, `task_outcomes`. The field
  `generation` of an attempt is history (the token its worker presented).
- `Messaging`: a delivery id is the triple it is the digest of.
- `Coordinator`: the commit. Digests are modelled by what they are taken of. The
  guards stand in the order of the code. A commit the code rejects changes no
  table, and one whose receipt exists is answered from it: both are no steps.
- `AtomicStore`: the abstract promise. Each operation is applied at most once, in
  one step that reads the current contents and writes.
- `WorkflowSpecs`: the validators a specification passes before it is stored. Its
  loop over rounds of ready tasks is a recursive function.
- `Engines`: `jobs` are the coroutines of `Engine.run`, with their phase, and
  `work` those of `Engine._execute`, with their place; both name the spots of the
  code between two awaits. Every storage call is one step. `Turn` says that the
  coroutines of a process run one at a time between awaits; storage calls within
  one coroutine are synchronous and may be interleaved with other processes and
  with heartbeat threads only. A job whose engine is gone may have left coroutines
  and a heartbeat behind (`Attached`). `tokens` is `execution_tokens`: an engine takes
  its own out when it leaves, unless it is cancelled while it leaves. `orphaned` is
  history: what coroutines held that died with their process, or in a storage error of
  their own cleaning up.
- `Schedulers`: launch and cancel of the API, the sweep, the poll with both of its
  limits, crash and close of a process. `CreatedAt` is recovered from the deadline,
  which `create_workflow` computes from the same moment.
- `EffectDispatchers`: the round over the destinations, the handler and its
  timeout, the requests that are on their way to an endpoint, the answers. The
  endpoint is external and may do anything, late and repeatedly.
- `EffectChannel`: the abstract promise. An effect is tried a bounded number of
  times, may happen once for each try, is reported delivered only if it has
  happened, and is dropped only after its last try.
- A module's section *Faulty variants* holds operators with a plausible mistake.
  Each property is checked to fail when its variant replaces the real operator
  (`mutants` in `PROJECT.json`), so no property holds by the shape of the model.

`map` in `PROJECT.json` gives the source lines of every definition.

**Crashes.** In the `...Clients` modules all state that survives is in the tables,
and clients keep nothing that the actions depend on: a client that crashes is one
that makes no further request, and one that restarts makes new ones. Every
history of requests is allowed, so crashes and restarts between any two
transactions are included. In `Schedulers` a crash drops the jobs, coroutines and
heartbeats of a process at any step; in `EffectDispatchers` it drops the call.

**Storage errors.** In a dispatcher's round every storage call may raise, before or after
its transaction. Of an engine's calls six may, those named in `Faulty`:

| Call | Raises | Step |
|---|---|---|
| `task_outcomes` (`engine.py:68`) | as it reads | `ReadOutcomesFails` |
| `save_outcome` (`:86`, `:91`) | before or after its transaction | `SaveFails` |
| `finish` (`:100`, `:106`, `:109`) | before or after its transaction | `FinishFails` |
| `commit` (`:172`) | after its transaction: the answer is lost | `CommitsUnanswered` |
| cleaning up (`:207-219`): reject, release, abandon | before any one of them | `CleaningFails` |
| `renew_run` (`:62`) | before its transaction | `BeatFails` |

No error is modelled of `claim_run`, `create_resource`, `claim_delivery`,
`begin_attempt`, `snapshot`, `acquire`, the read of the receipt, and of `release_run` in
the engine's `finally`, nor of a cleaning-up call after its transaction.

## 3. Runs

| Run | Instance | What it shows |
|---|---|---|
| `leases` | 2 keys, 2 owners, ttl 1–2, 3 tokens, clock to 3 | Exclusion and fencing under late, double and foreign releases; grants are whole. Three tokens let a lease expire, be replaced, and the replacement be attacked by the first owner, also under the same owner name. |
| `runs` | 1 run, 2 tasks with limits 2 and 2, budget 3, 2 schedulers, 2 generations | Exact budgets, final ends, no split brain, fencing across takeovers. Two generations give a replaced and a replacing scheduler. A task's limit may be what refuses an attempt, or the run's budget alone. |
| `runs_two` | 2 unlisted-task runs, deadlines 1 and 2, 1 scheduler | Runs do not disturb each other; every run ends. |
| `deliveries` | 2 runs with a message each in one mailbox, 2 receivers, 2 attempts, clock to 3 | Claims exclude and count; dead letters only after all attempts; no second delivery after success. Both attempts may be lost by expiry, and the exhausted message of one run is buried by a claim for the other. |
| `commits` | 1 run, 2 operations, 2 owners, 2 keys, values 0 and 1, 3 attempts, 2 leases | `CommitClients` implements `AtomicStore`. The plans include a write skew and a write that restores an old value; each may be based on any earlier state. |
| `takeover` | 1 enqueued run, 2 tasks, 2 schedulers, 2 generations, claims of 1 or 2 units that may be renewed, created resource | Commits follow the order of the claims on the run, which its owner may renew, let expire or release. |
| `handoff` | 1 run, 1 producer of 2 messages in one commit, 2 consumers, 2 delivery attempts, up to 2 acknowledgements in a commit | Messages exist if and only if their commit does. A message is consumed after it was produced and under one claim only, whoever acknowledges it outside any commit. The receivers share one owner name and tell their claims apart by the token alone. |
| `policy` | 2 accounts, 4 values, 3 schemas, rules of all kinds, changes of at most 1, repeat limit 1 | Totals, bounds, allowed schemas, conformance and the loop limit hold of the state, the limit on a change of each commit. |
| `effects` | 2 dispatchers, 2 destinations, 1 effect, 3 attempts, 3 faults among storage errors, stops and suspensions | The outbox with its dispatchers implements `EffectChannel`; an answer in time counts; every effect is settled in the end. |
| `engine` | 2 schedulers, 1 run with a deadline of 2, 2 claims, 1 fault, clock to 2; a chain of two tasks, a cycle, two tasks of one wave of which the second waits for the message of the first, an invalid resource | Outcomes agree with receipts, dependencies hold and nothing is left behind across crashes, takeovers, cancellations, lost answers and storage errors, also by a task whose engine was ended by the exception of another. |
| `serving` | 1 scheduler with room for 1 job and 1 slot, 3 runs of which one has no executor and one may be cancelled | No engine stays for ever, and the run behind the others is served without the help of a deadline. The type invariant of the engines is checked here, where it costs little. |
| `orphan` | 1 scheduler, 1 run, 1 failing read | Expected violation: a heartbeat outlives its engine. |

Bounds are guards: `MaxClock`, `MaxToken`, `MaxGeneration`, `MaxFaults`,
`LaunchUntil`, `PublishUntil`, and the smallness of the sets. `MaxAcknowledgements` is
the code's own limit of 32 (`models.py:83`), here 1 or 2. Histories longer than
these, and larger sets, are covered by the proofs. `Endings` restricts the terminal
status clients ask for in the `CommitClients` runs (`commit` tells `running` from
the others and nothing more); `Genesis` is the set of resources that exist from
earlier on. The two differ between runs so that each run stays small. Symmetry is
used only where owners, keys or tasks are interchangeable in the configuration, and
never in a run with a liveness property.

In `engine` one fault may strike at any of the six storage calls above, or be a crash or
a shutdown at any moment; two generations give an engine and the one that takes over.
Claims on the run, leases and claims on messages last one of the two units a run has, so
that each can run out within every step of a task, be renewed and be taken over before
the deadline, which can itself pass within every step. The one delivery attempt makes a
message that was lost once dead, and a wave whose second task waits for it, the worst
case. In `effects` the clock's bound of 22 is not reached: three attempts with their delays
and three faults end before. Three attempts (of five in the code) give a first, a
middle and a last one. The one effect is at the second destination and the first has
none: a dispatcher goes past the first in every round, but that effects of an earlier
destination could keep it from a later one is not exercised.

Deadlock checking is off where a service may rest: once the clock has reached its
bound and clients have nothing left to ask, no step remains. In `leases` and
`effects` it is on: `effects` goes round its empty destinations for ever.

**Fairness.** It is assumed of the program and the clock, never of clients,
endpoints or the planner's content.

- `RunsEnd`: weak fairness of the clock and of `Expire`. `Scheduler.loop` calls
  `expire_runs` in every round and survives any exception. Nothing is assumed of
  clients, engines or claims: the property covers runs everybody has left.
- `EffectsSettle`: weak fairness of the clock and of what a dispatcher does of
  itself, `Work`. Endpoints need not answer. A unit of the clock is long against
  the half second between polls, so time waits (`Busy`) for a dispatcher that has
  something to do, unless its process is suspended, which is one of the faults.
- `EnginesLeave`, `RunsServed`: weak fairness of the clock, of the sweep, of each
  scheduler's poll and of each engine's own steps: event loops run. `Planned` is
  among those steps, because the engine bounds the planner's time; heartbeats,
  launches and cancels are not assumed to happen.

**A finding.** `Engine.run` creates the heartbeat task and then reads
`task_outcomes`, both before the `try` whose `finally` cancels the heartbeat
(`engine.py:67`). If that read raises, the engine is gone and the heartbeat goes
on renewing the claim until the run's deadline, although `docs/reliability.md:23`
says that after a storage failure "claim expiry enables another scheduler to
recover". The run `orphan` shows it in a few steps.

**Notes on the properties**
- `ConsumedUnderOneClaim` is as strong as the code: the same owner and token may
  acknowledge one message in two commits of a run (`messaging.py`, "if status is
  delivered: return"), so a message is consumed under one *claim*, not in one commit. It
  does not say that what is delivered was consumed: `POST /api/deliveries/ack` confirms
  a message outside any commit, and so does a dispatcher an effect (`Confirm`).
- `AtomicCommits` speaks of deliveries through the receipt, which lists their ids: a
  delivery exists if and only if the receipt of its operation lists it.
- `PendingUnderNewestClaim` speaks of runs that were claimed once. Between
  `create_workflow` and `enqueue`, two transactions of `launch`, anyone may begin
  attempts without a token; the first claim abandons what is still pending.
- `OutcomesMatchReceipts` has one exception, the history variable `lost`: a commit
  that took effect and whose answer was lost is reported as a failed task. That
  the saved outcome and the store then disagree is what the code does; no property
  watches this case.
- `NothingLeftBehind` speaks of leases, attempts and messages, after faults as before
  them. What a coroutine held that died with its process, or that could not give it
  back because the storage failed as it tried, is `orphaned` and left to its expiry by
  design. Everything else is held by a coroutine that goes on: also after an exception
  of another task has ended the engine, and after a cancellation. A run's claim is
  not among these: a cancellation that arrives while the engine's `finally` waits for
  its heartbeat skips `release_run`, without any fault.
- `EnginesLeave` is what limits a wave whose slots are full of tasks that wait for
  messages of tasks behind them: the deadline of the run ends it.
- `RunsServed` needs fewer runs without an executor than rows of a poll
  (`PendingLimit`, 100 in the code). With as many, none behind them is ever seen.
- `RulesHold` speaks, for totals, bounds and allowed schemas, of rules every run carries:
  a run without a rule is, as in the code, free to break it. The limit on a change
  (`max_delta`) is stated of each commit by the rules of its own run.

## 4. Proofs

`tlapm` checks, for every value of the constants that meets the assumptions named
in the modules, that `Spec` implies each safety property of section 3's passing
runs. What the assumptions say:

- limits, times to live and timeouts are positive; a handler's timeout is below the
  claim it works under, as the two numbers in `dispatcher.py` are; sets may be
  infinite, a specification lists finitely many tasks, and some schema exists;
- resources, messages and channels that exist from the start are of their types,
  and the values of these resources conform to their schemas;
- an owner name of an engine is an `Owner`, and `NoOwner` is none.

Each argument is an inductive invariant `Inv`, proved of the initial states and,
action by action, of the steps.

- `LeaseClientsProofs`: types, `LiveGrantIntact`, `NewestTokenHeld`,
  `RowsComeFromGrants`: every row is as a grant wrote it, and a live one has the rows
  of the other keys of its grant beside it. Their conjunction is inductive. An acquire
  takes only rows that have expired, and a live grant's rows have not; a release removes
  rows of one owner and one token, and since rows come from grants, that token
  identifies a grant that then counts as released, with all its rows.
- `RunSchedulersProofs`: types, `BudgetExact`, `ClosedRunsQuiet`,
  `LiveClaimIntact`, `PendingUnderNewestClaim`, `GenerationsInOrder`,
  `GenerationsIssued`, and of the steps `ClosedRunFrozen` and `AbandonedForCause`.
  `GenerationsIssued` makes the fencing inductive (no run checks it by itself, the
  mistake it excludes also breaks `GenerationsInOrder`): no attempt and no claim is of a
  generation the run has not reached, so a new claim's number is new. A claim
  abandons what is pending; attempts begun later carry the new number, because
  `check_execution` asks for it. The budget needs the finiteness of the attempts of
  a run and of a task, kept as lemmas. The action properties follow from what each
  operation makes of each row, and from the fact that a pending attempt's run is
  running.
- `DeliveryClientsProofs`: types, `LiveClaimIntact`, `AttemptsCountClaims`,
  `DeadAfterAllAttempts`, `DeliveredByLastClaim`. The invariant ties each row to the
  history of claims on it: the row carries the token of the last one, and the
  tokens of a delivery are exactly the numbers up to its attempts.
- `CommitClientsProofs`: types, `AtomicCommits`, `LeasesInOrder`,
  `TakeoversInOrder`, `StoredValuesConform`, `LoopsBounded`, `RulesHold`,
  `ConsumedUnderOneClaim`, and **`Serial`: `Spec` implements `AtomicStore`**. These
  say what was committed and not how, so `Inv` adds:
  - `PastBehind`: every table an agent may have planned on shows a key under at
    most its current version, and under the same version only if it is the same
    row. So stamps that are current prove a plan to be, which is the step of
    the refinement that matters.
  - `LeasesBehind`: what a commit read is now leased under a later token or still
    under its own, if at all; a commit under the current leases follows it.
  - `PendingCurrent`, `GenerationsBehind`: what can commit is of the newest
    generation of its run, and no commit is of a later one.
  - `Recorded`, `TransitionKeys`: every commit left its receipt and its counter,
    and counters respect the limit. With `FS_AddElement`, a commit adds one to each
    of the three counts `AtomicCommits` is about.

  The twenty actions need few cases: the lemmas `...Forward` of `RunsProofs` say
  how runs and attempts may change whoever changes them, and `ElsewhereInv` that
  such a step keeps `Inv`. `RulesHold` needs no law of sums, whose proofs
  are out of reach: a total is the sum of a function from the keys of a rule to
  amounts, and the proof shows which functions are equal. A commit the rule concerns
  has read all its keys, so what `enforce_rules` adds up before and after is what
  the state held and will hold; any other commit leaves the function as it was.
  The limits on a change need that an accepted plan is current, so that what its agent
  read is what `enforce_rules` sees. `ConsumedUnderOneClaim` needs that a delivery comes
  from a commit, that what was acknowledged exists, and that no receiver touches a
  delivered row.
- `EffectDispatchersProofs`: types, `AnswersInTimeCount` and **the refinement of
  `EffectChannel`**. `Inv` says that
  - while a dispatcher waits for its handler, the row is as its claim left it
    (`ClaimCovers`): the handler's timeout ends before the claim does, so nobody
    else can have taken it. This makes an answer in time count;
  - a success that is to be reported has happened (`SuccessesHappened`);
  - tokens count attempts (`AttemptsBounded`), and what happened plus what is still
    on its way to the endpoint is no more than the attempts (`HappeningsPaid`), so
    late and repeated requests stay within the promise;
  - rows come from commits and requests from claims (`FromCommits`, `FromClaims`).
- `SchedulersProofs`: the engines as they run, with crashes, takeovers, lost answers,
  cancellations and failing storage: types, `OutcomesMatchReceipts`,
  `CompletedRunsCommitted`, `DependenciesFirst`, `SkippedOnlyAfterFailure`,
  `NothingLeftBehind`. What an engine reports depends on many earlier transactions,
  so `Inv` says what its code may rely on at each place:
  - `Ownership`: engines and coroutines are of claims the run has seen, and those of
    the newest one are of its owner. What an engine may still write is therefore
    current; a replaced one is refused.
  - `Remembered`: what an engine has in `outcomes` is saved, and under the newest
    claim it is all that is saved. This is why the read at its start suffices.
  - `PhasesMean`: an engine saves results when its wave is done, skips when no
    task is ready, finishes when none is left.
  - `VerdictsTrue`, `NewestKnows`: a coroutine that says "completed" has a receipt;
    under the newest claim one that says "failed" has none, unless the answer was
    lost; and it began after all it depends on was saved as completed.
  - `ReceiptsFollow`, `CompletedSaved`: the same of receipts and of completed runs.

  Most steps decide nothing and are treated together (`RunsQuiet`, `JobsQuiet`,
  `WorkQuiet`); saving, committing and finishing are treated one by one. An engine
  that finds no task ready while some are open must have a failed one among their
  dependencies: this is where the validator of `WorkflowSpecs` is needed, and the
  proof goes along the rounds of that validator with a well-founded order on the
  finitely many tasks.

  `NothingLeftBehind` needs `Tidy`: every live lease, pending attempt and claimed
  message is held by a coroutine, or was by one that died and is `orphaned` (`LeasesHeld`, `AttemptsHeld`, `MessagesHeld`); a coroutine that rests or is
  through holds nothing, and before each step it holds only what that place of the
  code allows (`RowsTidy`); an interrupted coroutine's engine is leaving
  (`InterruptedLast`); what a receipt consumed is delivered (`Acknowledged`), and
  messages come from commits (`Staged`).
- `RunsProofs`, `MessagingProofs`: what the operations make of rows and tables,
  lemmas for all of the above.

Only model-checked is liveness, `RunsEnd`, `EffectsSettle`, `EnginesLeave` and
`RunsServed`: it rests on fairness, hence on ENABLED, which is out of the prover's
reach. The run `orphan` is a counterexample and has nothing to prove.

What the proofs brought to light about the model: the guard of the step that saves a
skipped task did not say by itself that the task is one of those still open, and the
type invariants left engines' rows and dispatchers' calls unconstrained. Both are
repaired, and TLC checks them as well.

## 5. Not modelled

- Events: written by every transaction and read by nobody who decides. The
  record of a rejected commit is a second transaction with no other effect.
- SQL dialects, timeouts of the database, failures inside a transaction other than
  its rollback. The clock is taken to be monotone; SQLite's is the host's.
- JSON and JSON Schema themselves; malformed schemas are rejected before any
  table is read.
- `create_workflow` and `enqueue` on a known id, an idempotent retry of a commit,
  registering a channel again: all change nothing.
- The older form of a receipt's digest that `commit` still accepts
  (`coordinator.py:342-355`): it concerns databases of earlier versions.
- What a planner thinks: it may return any plan of a small set, fail, or run out
  of time. Its bound of 240 seconds for a task with a message is left open, a
  planner may return at any time. Subprocesses, prompts and model providers are I/O.
- HTTP authentication, metrics, read-only routes, the command line, the
  demonstrations and the console.

## 6. Plan

Done: leases, runs, messaging, policies, the commit and its refinement of
`AtomicStore`, engines and schedulers, dispatchers and their refinement of
`EffectChannel`; all safety invariants, action properties and refinements of the
passing runs proved.

What is left, in order of importance:

1. Composition of dispatchers with engines that publish: that an effect of a run
   that completed is settled, also when the run's engine crashed after the commit.
2. The three hazards without a property, which `PROJECT.json` describes.
3. Larger instances of `engine` (two faults, three tasks) where the time of a check
   allows. The proofs cover them for safety, not for the deadlock check.
