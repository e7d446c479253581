----------------------------- MODULE Coordinator -----------------------------
(***************************************************************************)
(* The commit of an operation (coordinator.py: commit): one transaction     *)
(* that checks the run, the attempt, the task's scope, the leases, the      *)
(* versions read, the schemas, the run's rules and the loop limit, and then *)
(* writes resources, deliveries, acknowledgements and the receipt together. *)
(*                                                                          *)
(* A rejected commit changes no table (its event is a log entry), and one   *)
(* whose receipt exists is answered from it: neither is a step.             *)
(***************************************************************************)
EXTENDS Leases, Runs, Messaging, Policies

CONSTANT NoSchema        \* a write that proposes no schema

ASSUME CoordinatorAssumption == \A s \in Specification : s.repeat_limit \in Nat \ {0}

VARIABLES
  operations,        \* <<run id, operation id>> -> receipt
  transitions        \* <<run id, fingerprint>> -> how often the run made it

leaseVars == <<lease_sequence, leases>>
messagingVars == <<channels, deliveries>>
commitVars == <<operations, transitions>>

\* What the digest of a transition is taken of: contents read and written.
Content == [value : Value, json_schema : Schema]
ContentOf(table) ==
  [k \in DOMAIN table |-> [value |-> table[k].value, json_schema |-> table[k].json_schema]]

Receipt(r) == /\ IsTable(r.resources, Key, Resource)
              /\ r.envelope_ids \subseteq DeliveryId
              /\ DOMAIN r.fingerprint.reads \subseteq Key
              /\ r.fingerprint.acknowledged \subseteq DeliveryId

CommitTablesOK ==
  /\ DOMAIN operations \subseteq Workflow \X Task
  /\ \A o \in DOMAIN operations : Receipt(operations[o])
  /\ \A t \in DOMAIN transitions :
       /\ t[1] \in Workflow
       /\ IsTable(t[2].reads, Key, Content)
       /\ IsTable(t[2].writes, Key, Content)
       /\ transitions[t] \in Nat \ {0}

CoordinatorTablesOK ==
  /\ IsTable(resources, Key, Resource)
  /\ LeaseTablesOK
  /\ RunTablesOK
  /\ MessagingTablesOK
  /\ CommitTablesOK

-----------------------------------------------------------------------------
(* Faulty variants, which the runs put in the place of the operator each names. *)

\* Unanswered, trusting the attempt to be there only once.
AnsweredOrNot(r) == TRUE

\* Leased, whatever the token.
LeasedToOwner(k, r) ==
  /\ k \in DOMAIN leases
  /\ leases[k].owner = r.owner
  /\ Unexpired(leases[k].expires_at)

\* Current, for a resource that is written; what is only read may have changed.
CurrentIfWritten(k, r) ==
  /\ k \in DOMAIN resources
  /\ k \in DOMAIN r.writes => Stamp(resources[k]) = r.reads[k]

\* WritesValid, under the schemas the resources have so far.
WritesValidBefore(proposed) ==
  \A k \in DOMAIN proposed : Validates(proposed[k].value, resources[k].json_schema)

\* LoopAllowed, allowing one repetition too many.
LoopAllowedOnceMore(w, fingerprint) ==
  <<w, fingerprint>> \in DOMAIN transitions =>
    transitions[<<w, fingerprint>>] <= workflows[w].specification.repeat_limit

\* Counted, starting at zero.
CountedFromZero(w, fingerprint) ==
  LET t == <<w, fingerprint>> IN
    Insert(transitions, t, IF t \in DOMAIN transitions THEN transitions[t] + 1 ELSE 0)

\* Consumed, acknowledging nothing.
NothingConsumed(table, acknowledgements) == table

-----------------------------------------------------------------------------
(* The checks of a commit, in the order of the code.  A request names its    *)
(* run, operation, owner, attempt, execution token and lease token, the      *)
(* stamps it read, the writes and envelopes of its plan and the deliveries   *)
(* it acknowledges.                                                          *)

\* What a logical request is told by; tokens and attempts may differ.
Fingerprint(r) ==
  [reads |-> r.reads, writes |-> r.writes, envelopes |-> r.envelopes,
   acknowledged |-> {a.id : a \in r.acknowledgements}]

Unanswered(r) == <<r.workflow, r.operation>> \notin DOMAIN operations

\* The answer of the receipt, else idempotency_mismatch.
Answered(r) ==
  ~Unanswered(r) /\ operations[<<r.workflow, r.operation>>].fingerprint = Fingerprint(r)

\* The attempt was budgeted for this owner and operation, and still counts.
Budgeted(r) ==
  /\ r.attempt \in DOMAIN attempts
  /\ attempts[r.attempt].workflow = r.workflow
  /\ attempts[r.attempt].operation = r.operation
  /\ attempts[r.attempt].owner = r.owner
  /\ attempts[r.attempt].status = "pending"

\* A run that lists tasks persisted what each may read and write.
InTaskScope(r) ==
  LET tasks == TasksOf(r.workflow) IN
    DOMAIN tasks # {} =>
      /\ r.operation \in DOMAIN tasks
      /\ DOMAIN r.reads = tasks[r.operation].reads
      /\ DOMAIN r.writes = tasks[r.operation].writes

Leased(k, r) ==
  /\ k \in DOMAIN leases
  /\ leases[k].owner = r.owner
  /\ leases[k].token = r.lease_token
  /\ Unexpired(leases[k].expires_at)

Current(k, r) == k \in DOMAIN resources /\ Stamp(resources[k]) = r.reads[k]

SchemaFor(k, write) ==
  IF write.json_schema = NoSchema THEN resources[k].json_schema ELSE write.json_schema

\* The resources as the writes would leave them.
Prepared(writes) ==
  [k \in DOMAIN writes |->
    LET old == resources[k]
        json_schema == SchemaFor(k, writes[k]) IN
      [value |-> writes[k].value, json_schema |-> json_schema, version |-> old.version + 1,
       schema_version |-> IF json_schema = old.json_schema THEN old.schema_version
                          ELSE old.schema_version + 1]]

\* A migration changes data and contract together: the new value under the new schema.
WritesValid(proposed) ==
  \A k \in DOMAIN proposed : Validates(proposed[k].value, proposed[k].json_schema)

Transition(current, proposed) ==
  [reads |-> ContentOf(current), writes |-> ContentOf(proposed)]

LoopAllowed(w, fingerprint) ==
  <<w, fingerprint>> \in DOMAIN transitions =>
    transitions[<<w, fingerprint>>] < workflows[w].specification.repeat_limit

\* transitions with the count of one more commit.
Counted(w, fingerprint) ==
  LET t == <<w, fingerprint>> IN
    Insert(transitions, t, IF t \in DOMAIN transitions THEN transitions[t] + 1 ELSE 1)

\* table with the deliveries the commit acknowledges.
Consumed(table, acknowledgements) ==
  [d \in DOMAIN table |->
    IF \E a \in acknowledgements : a.id = d THEN Delivered(table[d]) ELSE table[d]]

\* The checks of the rows a commit is about, before those of its content.
CommitAuthorised(r) ==
  /\ Active(r.workflow)
  /\ ExecutionAllowed(r.workflow, r.execution_token)
  /\ Budgeted(r)
  /\ InTaskScope(r)
  /\ DOMAIN r.writes \subseteq DOMAIN r.reads               \* else blind_write

\* Else stale_lease or version_conflict.
ReadsFenced(r) == \A k \in DOMAIN r.reads : Leased(k, r) /\ Current(k, r)

ContentAllowed(r, current, proposed) ==
  /\ WritesValid(proposed)
  /\ RulesAllow(workflows[r.workflow].specification.invariants, current, proposed)
  /\ LoopAllowed(r.workflow, Transition(current, proposed))
  /\ EnvelopesAllowed(TasksOf(r.workflow), r.operation, r.envelopes)
  /\ \A a \in r.acknowledgements :
       AcknowledgeAllowed(a.id, a.owner, a.token) /\ InScope(a.id, r.workflow)

\* The resources a commit reads, and what it would make of those it writes.
CurrentOf(r) == Snapshot(resources, DOMAIN r.reads)
ProposedBy(r) == Prepared(r.writes)

CommitAllowed(r) ==
  /\ Unanswered(r)
  /\ CommitAuthorised(r)
  /\ ReadsFenced(r)
  /\ ContentAllowed(r, CurrentOf(r), ProposedBy(r))

Commit(r) ==
  LET w == r.workflow
      proposed == ProposedBy(r) IN
  /\ CommitAllowed(r)
  /\ resources' = Upsert(resources, proposed)
  /\ transitions' = Counted(w, Transition(CurrentOf(r), proposed))
  /\ deliveries' = Consumed(StageEnvelopes(w, r.operation, r.envelopes), r.acknowledgements)
  /\ operations' = Insert(operations, <<w, r.operation>>,
       [fingerprint |-> Fingerprint(r), resources |-> proposed,
        envelope_ids |-> {<<w, r.operation, e.id>> : e \in r.envelopes}])
  /\ attempts' = [attempts EXCEPT ![r.attempt].status = "committed"]
  /\ UNCHANGED <<leaseVars, workflows, run_jobs, task_outcomes, channels>>
=============================================================================
