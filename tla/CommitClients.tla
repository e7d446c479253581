---------------------------- MODULE CommitClients ----------------------------
(***************************************************************************)
(* The whole coordinator with its clients: API clients, engines that run a  *)
(* task (begin an attempt, read, plan, lease, commit) and receivers.  Any   *)
(* client may crash, be suspended for any time, and send any request twice. *)
(*                                                                          *)
(* journal and past are history: what each accepted commit was about, and   *)
(* every state the resources have been in, as an agent may have planned on  *)
(* any earlier one.                                                         *)
(***************************************************************************)
EXTENDS Coordinator

CONSTANTS
  Genesis,       \* the resources that exist at the start
  MaxAcknowledgements,   \* deliveries one commit may acknowledge, 32 in the code
  Endings,       \* bound: the statuses of Terminal that clients ask for
  Plans          \* what agents propose: which keys they read, and their plan

VARIABLES
  journal,       \* the accepted commits, in their order
  past           \* the tables of resources there have been

vars == <<clock, resources, leaseVars, runVars, messagingVars, commitVars, journal, past>>

Entry(r, basis) ==
  [workflow |-> r.workflow, operation |-> r.operation, owner |-> r.owner,
   attempt |-> r.attempt, lease_token |-> r.lease_token,
   generation |-> attempts[r.attempt].generation,
   basis |-> ContentOf(basis), written |-> ContentOf(Prepared(r.writes)),
   acknowledgements |-> r.acknowledgements]

ASSUME ClientAssumption ==
  /\ MaxAcknowledgements \in Nat
  /\ Endings \subseteq Terminal
  /\ \A plan \in Plans : plan.envelopes \subseteq Envelope
  /\ IsTable(Genesis, Key, Resource)
  /\ \A k \in DOMAIN Genesis :
       /\ Genesis[k].version = 1
       /\ Validates(Genesis[k].value, Genesis[k].json_schema)

TypeOK ==
  /\ clock \in Nat
  /\ CoordinatorTablesOK

Init ==
  /\ clock = 0
  /\ resources = Genesis
  /\ LeaseTablesInit
  /\ RunTablesInit
  /\ MessagingTablesInit
  /\ operations = EmptyTable
  /\ transitions = EmptyTable
  /\ journal = <<>>
  /\ past = {Genesis}

-----------------------------------------------------------------------------
(* Resources and leases.                                                    *)

Create(key, value, json_schema) ==
  /\ CreateResource(key, value, json_schema)
  /\ past' = past \union {resources'}
  /\ UNCHANGED <<clock, leaseVars, runVars, messagingVars, commitVars, journal>>

Lease(owner, keys, ttl) ==
  /\ Acquire(owner, keys, ttl)
  /\ UNCHANGED <<clock, resources, runVars, messagingVars, commitVars, journal, past>>

Unlease(owner, token) ==
  /\ RowsOf(owner, token) # {}
  /\ Release(owner, token)
  /\ UNCHANGED <<clock, resources, runVars, messagingVars, commitVars, journal, past>>

(* Runs.                                                                    *)

RunStep == UNCHANGED <<clock, resources, leaseVars, messagingVars, commitVars, journal, past>>

\* The deadline of every run lies within the bound on the clock.
Start(w, specification) ==
  /\ clock + specification.timeout_seconds <= MaxClock
  /\ CreateWorkflow(w, specification)
  /\ RunStep

Submit(w, mode) == Enqueue(w, mode) /\ RunStep

TakeClaim(w, scheduler, ttl) == ClaimRun(w, scheduler, ttl) /\ RunStep

GiveUpClaim(w, scheduler, generation) == ReleaseRun(w, scheduler, generation) /\ RunStep

Renew(w, scheduler, generation, ttl) == RenewRun(w, scheduler, generation, ttl) /\ RunStep

Save(w, op, outcome, generation) == SaveOutcome(w, op, outcome, generation) /\ RunStep

Begin(w, op, owner, token) == BeginAttempt(w, op, owner, token) /\ RunStep

Abandon(id) == AbandonAttempt(id) /\ RunStep

End(w, status, token) == Finish(w, status, token) /\ RunStep

Expire == ExpireRuns /\ RunStep

(* Messages.                                                                *)

MessageStep == UNCHANGED <<clock, resources, leaseVars, runVars, commitVars, journal, past>>

Register(destination, kind, version, json_schema) ==
  RegisterChannel(destination, kind, version, json_schema) /\ MessageStep

Receive(id, kind, destination, owner, ttl, W) ==
  ClaimDelivery(id, kind, destination, owner, ttl, W) /\ MessageStep

FindNothing(kind, destination, W) == ClaimNothing(kind, destination, W) /\ MessageStep

\* POST /api/deliveries/ack, and a dispatcher whose handler succeeded: outside any commit.
Confirm(id, owner, token) == Acknowledge(id, owner, token) /\ MessageStep

Refuse(id, owner, token, retry_after) ==
  RejectDelivery(id, owner, token, retry_after) /\ MessageStep

(* Commits.                                                                 *)

\* The plan was made from the earlier table basis, and its stamps are sent along.
Request(id, plan, basis, lease_token, execution_token, acknowledgements) ==
  [workflow |-> attempts[id].workflow, operation |-> attempts[id].operation,
   owner |-> attempts[id].owner, attempt |-> id, lease_token |-> lease_token,
   execution_token |-> execution_token, acknowledgements |-> acknowledgements,
   reads |-> [k \in plan.reads |-> Stamp(basis[k])],
   writes |-> plan.writes, envelopes |-> plan.envelopes]

SendCommit(id, plan, basis, lease_token, execution_token, acknowledgements) ==
  LET r == Request(id, plan, basis, lease_token, execution_token, acknowledgements) IN
    /\ Commit(r)
    /\ journal' = Append(journal, Entry(r, Snapshot(basis, plan.reads)))
    /\ past' = past \union {resources'}
    /\ UNCHANGED clock

\* An engine acknowledges the message it was given, a client whatever it likes.
Acknowledgements ==
  {A \in SUBSET [id : DOMAIN deliveries, owner : Owner, token : 1..MaxDeliveryAttempts] :
     Cardinality(A) <= MaxAcknowledgements}

\* The runs a claim on a delivery may be limited to: one of them, or none of them at all.
Limits == {{w} : w \in Workflow} \union {Workflow}

Wait ==
  /\ Tick
  /\ UNCHANGED <<resources, leaseVars, runVars, messagingVars, commitVars, journal, past>>

Next ==
  \/ \E key \in Key, value \in Value, s \in Schema : Create(key, value, s)
  \/ \E owner \in Owner, plan \in Plans, ttl \in LeaseTtl : Lease(owner, plan.reads, ttl)
  \/ \E owner \in Owner, token \in 1..lease_sequence : Unlease(owner, token)
  \/ \E w \in Workflow, specification \in Specification : Start(w, specification)
  \/ \E w \in Workflow, mode \in Mode : Submit(w, mode)
  \/ \E w \in Workflow, scheduler \in Scheduler, ttl \in ClaimTtl : TakeClaim(w, scheduler, ttl)
  \/ \E w \in Workflow, scheduler \in Scheduler, generation \in 1..MaxGeneration :
       GiveUpClaim(w, scheduler, generation)
  \/ \E w \in Workflow, scheduler \in Scheduler, generation \in 1..MaxGeneration, ttl \in ClaimTtl :
       Renew(w, scheduler, generation, ttl)
  \/ \E w \in DOMAIN workflows, op \in Task, outcome \in Outcome, generation \in ExecutionToken :
       Save(w, op, outcome, generation)
  \/ \E w \in Workflow, op \in Task, owner \in Owner, token \in ExecutionToken :
       Begin(w, op, owner, token)
  \/ \E id \in DOMAIN attempts : Abandon(id)
  \/ \E w \in DOMAIN workflows, status \in Endings, token \in ExecutionToken :
       End(w, status, token)
  \/ Expire
  \/ \E destination \in Destination, kind \in Kind, version \in ChannelVersion, s \in Schema :
       Register(destination, kind, version, s)
  \/ \E id \in DOMAIN deliveries, kind \in Kind, destination \in Destination, owner \in Owner,
        ttl \in DeliveryTtl, W \in Limits :
       Receive(id, kind, destination, owner, ttl, W)
  \/ \E kind \in Kind, destination \in Destination, W \in Limits :
       FindNothing(kind, destination, W)
  \/ \E id \in DOMAIN deliveries, owner \in Owner, token \in 1..MaxDeliveryAttempts :
       Confirm(id, owner, token)
  \/ \E id \in DOMAIN deliveries, owner \in Owner, token \in 1..MaxDeliveryAttempts,
        retry_after \in RetryAfter : Refuse(id, owner, token, retry_after)
  \/ \E id \in DOMAIN attempts, plan \in Plans, basis \in past, lease_token \in 1..lease_sequence,
        execution_token \in ExecutionToken, acknowledgements \in Acknowledgements :
       /\ plan.reads \subseteq DOMAIN basis
       /\ SendCommit(id, plan, basis, lease_token, execution_token, acknowledgements)
  \/ Wait

Spec == Init /\ [][Next]_vars

-----------------------------------------------------------------------------
(* Properties.                                                              *)

CommitsOf(w, op) ==
  {i \in DOMAIN journal : journal[i].workflow = w /\ journal[i].operation = op}

CommitsMaking(t) ==
  {i \in DOMAIN journal : /\ journal[i].workflow = t[1]
                          /\ journal[i].basis = t[2].reads
                          /\ journal[i].written = t[2].writes}

CommitsWriting(k) == {i \in DOMAIN journal : k \in DOMAIN journal[i].written}

ReceiptsCounted ==
  \A w \in Workflow, op \in Task :
    /\ Cardinality(CommitsOf(w, op)) = (IF <<w, op>> \in DOMAIN operations THEN 1 ELSE 0)
    /\ {id \in AttemptsOf(w, op) : attempts[id].status = "committed"} =
         {journal[i].attempt : i \in CommitsOf(w, op)}

TransitionsCounted ==
  \A t \in DOMAIN transitions : transitions[t] = Cardinality(CommitsMaking(t))

VersionsCounted ==
  \A k \in DOMAIN resources : resources[k].version = 1 + Cardinality(CommitsWriting(k))

EnvelopesQueued ==
  \A d \in DeliveryId :
    LET o == <<d[1], d[2]>> IN
      d \in DOMAIN deliveries <=> o \in DOMAIN operations /\ d \in operations[o].envelope_ids

\* All effects of a commit exist together or not at all, and once: a receipt stands
\* for exactly one accepted commit and one committed attempt, and the deliveries are
\* those the receipts list; a loop counter stands for the commits with that transition,
\* and a version for the commits that wrote the key.
AtomicCommits == ReceiptsCounted /\ EnvelopesQueued /\ TransitionsCounted /\ VersionsCounted

\* What the operations of AtomicStore are here.
Log == [i \in DOMAIN journal |->
         [operation |-> <<journal[i].workflow, journal[i].operation>>,
          read |-> journal[i].basis, written |-> journal[i].written]]

Atomic == INSTANCE AtomicStore WITH
  Operation <- Workflow \X Task, store <- ContentOf(resources), log <- Log

\* The commits are an execution of AtomicStore: however many agents planned on
\* whatever earlier states, each accepted operation was decided on the contents it
\* found, read-only dependencies included, and none was applied twice.
SerialCommits == Atomic!Spec

\* Fencing: commits that depend on the same resource follow each other in the order
\* in which the leases were granted, and those under one lease have one owner.
LeasesInOrder ==
  \A i, j \in DOMAIN journal :
    i < j /\ DOMAIN journal[i].basis \intersect DOMAIN journal[j].basis # {} =>
      \/ journal[i].lease_token < journal[j].lease_token
      \/ /\ journal[i].lease_token = journal[j].lease_token
         /\ journal[i].owner = journal[j].owner

\* After a scheduler that took a run over has committed, nothing that was begun
\* under an earlier claim on that run commits.
TakeoversInOrder ==
  \A i, j \in DOMAIN journal :
    i < j /\ journal[i].workflow = journal[j].workflow =>
      journal[i].generation <= journal[j].generation

Consumers(d) ==
  {i \in DOMAIN journal : \E a \in journal[i].acknowledgements : a.id = d}

\* A message is consumed after the commit that produced it, by commits of its own
\* run, and all of them under one claim, for good: what one receiver has consumed, no
\* other can receive, refuse, bury or consume again, and no commit consumes what was
\* confirmed outside any commit under another claim.
ConsumedUnderOneClaim ==
  \A d \in DOMAIN deliveries :
    /\ Consumers(d) # {} => deliveries[d].status = "delivered"
    /\ \A i \in Consumers(d) :
         /\ \E j \in CommitsOf(d[1], d[2]) : j < i
         /\ journal[i].workflow = d[1]
         /\ \A a \in journal[i].acknowledgements : a.id = d =>
              a.owner = deliveries[d].owner /\ a.token = deliveries[d].token

\* Every stored value conforms to the schema it is stored with, also after commits
\* that changed the schema.
StoredValuesConform ==
  \A k \in DOMAIN resources : Validates(resources[k].value, resources[k].json_schema)

\* The rules every run must respect.
CommonRules == {rule \in UNION {s.invariants : s \in Specification} :
                  \A s \in Specification : rule \in s.invariants}

TotalKept(rule) ==
  \A table \in past : rule.resources \subseteq DOMAIN table =>
    SumFunction(Amounts(rule, table)) = SumFunction(Amounts(rule, resources))

Written(rule) == {k \in rule.resources \intersect DOMAIN resources : resources[k].version > 1}

WithinBounds(rule) ==
  \A k \in Written(rule) :
    /\ rule.minimum # NoLimit => AmountIn(rule, resources[k]) >= rule.minimum
    /\ rule.maximum # NoLimit => AmountIn(rule, resources[k]) <= rule.maximum

\* No amount moves further than the run's own rules let one commit move it, counted
\* from what the agent had read when it planned.
DeltasKept ==
  \A i \in DOMAIN journal :
    \A rule \in workflows[journal[i].workflow].specification.invariants :
      rule.kind = "numeric_bounds" /\ rule.max_delta # NoLimit =>
        \A k \in rule.resources \intersect DOMAIN journal[i].written :
          AmountIn(rule, journal[i].written[k]) - AmountIn(rule, journal[i].basis[k])
            \in -rule.max_delta .. rule.max_delta

\* A rule that all runs carry holds of the resources for good: totals are always what
\* they were in every past state, and what any commit has written is in bounds and
\* under an allowed schema, although agents plan on states that are no longer true.
\* Limits on a change hold of each commit, by the rules of its own run.
RulesHold ==
  /\ \A rule \in CommonRules :
       /\ rule.kind = "conserve_total" => TotalKept(rule)
       /\ rule.kind = "numeric_bounds" => WithinBounds(rule)
       /\ rule.kind = "schema_allowlist" =>
            \A k \in Written(rule) : resources[k].json_schema \in rule.allowed
  /\ DeltasKept

\* No run makes the same transition, from the same contents to the same contents,
\* more often than its limit, whatever operations and restarts it makes it in.
LoopsBounded ==
  \A i \in DOMAIN journal :
    LET made == <<journal[i].workflow, [reads |-> journal[i].basis, writes |-> journal[i].written]>> IN
      Cardinality(CommitsMaking(made)) <= workflows[journal[i].workflow].specification.repeat_limit
=============================================================================
