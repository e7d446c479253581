------------------------- MODULE CommitClientsProofs -------------------------
(***************************************************************************)
(* Proofs about CommitClients, for any agents, resources, runs, plans and   *)
(* bounds.  The inductive invariant Inv joins the types, the properties and *)
(* what makes them inductive: every table an agent may have planned on is   *)
(* behind the current one, and shows a row under the same version only if   *)
(* it is the same row; leases and generations are never behind a commit     *)
(* that was made under them; and each commit left its receipt and counter.  *)
(***************************************************************************)
EXTENDS CommitClients, RunsProofs, MessagingProofs, FiniteSetTheorems

USE LeaseAssumption, ConformingAssumption, CoordinatorAssumption, ClientAssumption

-----------------------------------------------------------------------------
(* The inductive invariant.                                                  *)

PastBehind ==
  \A basis \in past, k \in Key : k \in DOMAIN basis =>
    /\ k \in DOMAIN resources
    /\ basis[k] \in Resource
    /\ basis[k].version <= resources[k].version
    /\ basis[k].version = resources[k].version => basis[k] = resources[k]

PastTables == \A basis \in past : DOMAIN basis \subseteq Key

\* journal is a sequence.
Listed == journal \in Seq({journal[i] : i \in DOMAIN journal})

TransitionOf(i) ==
  <<journal[i].workflow, [reads |-> journal[i].basis, writes |-> journal[i].written]>>

Recorded ==
  \A i \in DOMAIN journal :
    /\ <<journal[i].workflow, journal[i].operation>> \in DOMAIN operations
    /\ TransitionOf(i) \in DOMAIN transitions
    /\ DOMAIN journal[i].written \subseteq DOMAIN resources
    /\ journal[i].attempt \in AttemptsOf(journal[i].workflow, journal[i].operation)

LeasesBehind ==
  /\ \A k \in DOMAIN leases : leases[k].token <= lease_sequence
  /\ \A i \in DOMAIN journal :
       /\ journal[i].lease_token \in 1..lease_sequence
       /\ \A k \in DOMAIN leases : k \in DOMAIN journal[i].basis =>
            \/ journal[i].lease_token < leases[k].token
            \/ journal[i].lease_token = leases[k].token /\ journal[i].owner = leases[k].owner

GenerationsBehind ==
  \A i \in DOMAIN journal :
    journal[i].generation \in Int /\ journal[i].generation <= Generation(journal[i].workflow)

TransitionKeys ==
  \A t \in DOMAIN transitions :
    /\ t = <<t[1], [reads |-> t[2].reads, writes |-> t[2].writes]>>
    /\ t[1] \in DOMAIN workflows
    /\ transitions[t] <= workflows[t[1]].specification.repeat_limit

Inv ==
  /\ TypeOK
  /\ PendingCurrent
  /\ PastTables
  /\ PastBehind
  /\ StoredValuesConform
  /\ Listed
  /\ Recorded
  /\ LeasesBehind
  /\ LeasesInOrder
  /\ GenerationsBehind
  /\ TakeoversInOrder
  /\ TransitionKeys
  /\ DeltasKept
  /\ AtomicCommits

-----------------------------------------------------------------------------
(* The operators a commit is built from.                                     *)

\* The contents of a table of resources.
LEMMA ContentOfTable ==
  ASSUME NEW t, IsTable(t, Key, Resource)
  PROVE  IsTable(ContentOf(t), Key, Content) /\ DOMAIN ContentOf(t) = DOMAIN t
BY DEF IsTable, ContentOf, Content, Resource

\* What writes make of existing resources: one version more of each.
LEMMA PreparedTypes ==
  ASSUME IsTable(resources, Key, Resource), NEW writes, DOMAIN writes \subseteq DOMAIN resources,
         WritesValid(Prepared(writes))
  PROVE  /\ IsTable(Prepared(writes), Key, Resource)
         /\ DOMAIN Prepared(writes) = DOMAIN writes
         /\ \A k \in DOMAIN writes : Prepared(writes)[k].version = resources[k].version + 1
<1> DEFINE new == Prepared(writes)
           schema(k) == SchemaFor(k, writes[k])
<1>1. DOMAIN new = DOMAIN writes /\ new = [k \in DOMAIN new |-> new[k]]
  BY DEF Prepared
<1>2. ASSUME NEW k \in DOMAIN writes
      PROVE  /\ k \in Key
             /\ new[k] \in Resource
             /\ new[k].version = resources[k].version + 1
  <2>1. new[k] = [value |-> writes[k].value, json_schema |-> schema(k),
                  version |-> resources[k].version + 1,
                  schema_version |-> IF schema(k) = resources[k].json_schema
                                     THEN resources[k].schema_version
                                     ELSE resources[k].schema_version + 1]
    BY <1>2 DEF Prepared
  <2>2. resources[k] \in Resource /\ k \in Key
    BY <1>2 DEF IsTable
  <2>3. resources[k].version + 1 \in Nat \ {0} /\ resources[k].schema_version \in Nat \ {0}
        /\ resources[k].schema_version + 1 \in Nat \ {0}
    BY <2>2 DEF Resource
  <2> HIDE DEF new, schema
  <2>4. new[k].value = writes[k].value /\ new[k].json_schema = schema(k)
    BY <2>1
  <2>5. new[k].value \in Value /\ new[k].json_schema \in Schema
    <3>1. <<new[k].value, new[k].json_schema>> \in Conforming
      BY <1>1, <1>2 DEF WritesValid, Validates, new
    <3> QED
      BY <3>1
  <2> QED
    BY <2>1, <2>2, <2>3, <2>4, <2>5 DEF Resource
<1> HIDE DEF new
<1>3. IsTable(new, Key, Resource)
  BY <1>1, <1>2 DEF IsTable
<1> QED
  BY <1>1, <1>2, <1>3 DEF new

-----------------------------------------------------------------------------
(* Steps that are no commits.                                                *)

\* Init establishes the invariant.
LEMMA InitInv == Init => Inv
<1> SUFFICES ASSUME Init PROVE Inv
  OBVIOUS
<1>1. /\ DOMAIN journal = {} /\ journal = <<>>
      /\ DOMAIN leases = {} /\ DOMAIN operations = {} /\ DOMAIN transitions = {}
      /\ DOMAIN attempts = {} /\ DOMAIN workflows = {}
      /\ resources = Genesis /\ past = {Genesis}
  BY DEF IsTable, EmptyTable, Init, LeaseTablesInit, RunTablesInit
<1>2. TypeOK
  <2>1. LeaseTablesOK /\ MessagingTablesOK
    BY DEF IsTable, EmptyTable,
         Init, LeaseTablesInit, LeaseTablesOK, MessagingTablesInit, MessagingTablesOK
  <2>2. RunTablesOK
    BY DEF IsTable, EmptyTable, Init, RunTablesInit, RunTablesOK
  <2>3. CommitTablesOK
    BY <1>1 DEF CommitTablesOK
  <2> QED
    BY <2>1, <2>2, <2>3 DEF Init, TypeOK, CoordinatorTablesOK
<1>3. PendingCurrent
  BY <1>1 DEF PendingCurrent
<1>4. PastTables /\ PastBehind /\ StoredValuesConform
  <2>1. \A k \in DOMAIN Genesis : Genesis[k] \in Resource /\ k \in Key
    BY DEF IsTable
  <2> QED
    BY <1>1, <2>1 DEF PastTables, PastBehind, StoredValuesConform, Resource
<1>5. /\ Listed /\ Recorded /\ LeasesBehind /\ LeasesInOrder /\ GenerationsBehind
      /\ TakeoversInOrder /\ TransitionKeys /\ DeltasKept
  BY <1>1
  DEF Listed, Recorded, LeasesBehind, LeasesInOrder, GenerationsBehind, TakeoversInOrder,
      TransitionKeys, DeltasKept
<1>6. AtomicCommits
  <2>1. \A w, op : CommitsOf(w, op) = {} /\ AttemptsOf(w, op) = {}
    BY <1>1 DEF CommitsOf, AttemptsOf
  <2>2. Cardinality({}) = 0
    BY FS_EmptySet
  <2>3. \A k : CommitsWriting(k) = {}
    BY <1>1 DEF CommitsWriting
  <2>4. ReceiptsCounted
    BY <1>1, <2>1, <2>2 DEF ReceiptsCounted
  <2>5. TransitionsCounted
    BY <1>1 DEF TransitionsCounted
  <2>6. VersionsCounted
    <3>1. \A k \in DOMAIN resources : resources[k].version = 1
      BY <1>1
    <3>2. ASSUME NEW k
          PROVE  Cardinality(CommitsWriting(k)) = 0
      <4>1. CommitsWriting(k) = {}
        BY <2>3
      <4> QED
        BY <4>1, FS_EmptySet
    <3> QED
      BY <3>1, <3>2 DEF VersionsCounted
  <2>7. EnvelopesQueued
    <3>1. DOMAIN deliveries = {}
      BY DEF IsTable, EmptyTable, Init, MessagingTablesInit
    <3> QED
      BY <1>1, <3>1 DEF EnvelopesQueued
  <2> QED
    BY <2>4, <2>5, <2>6, <2>7 DEF AtomicCommits
<1> QED
  BY <1>2, <1>3, <1>4, <1>5, <1>6 DEF Inv

\* Commits are of runs that exist.
LEMMA CommitsOfRuns ==
  ASSUME Recorded, TransitionKeys, NEW i \in DOMAIN journal
  PROVE  journal[i].workflow \in DOMAIN workflows
<1>1. TransitionOf(i) \in DOMAIN transitions /\ TransitionOf(i)[1] = journal[i].workflow
  BY DEF Recorded, TransitionOf
<1> QED
  BY <1>1 DEF TransitionKeys

\* What a commit has left is not touched by steps elsewhere, which move runs and
\* attempts forward.
LEMMA ElsewhereInv ==
  ASSUME Inv, UNCHANGED <<resources, leaseVars, commitVars, journal, past>>,
         clock' \in Nat, MessagingTablesOK', DOMAIN deliveries' = DOMAIN deliveries,
         RunsOK', RunsForward
  PROVE  Inv'
<1>1. UNCHANGED <<resources, lease_sequence, leases, operations, transitions, journal, past>>
  BY DEF leaseVars, commitVars
<1>2. TypeOK'
  BY <1>1 DEF Inv, TypeOK, CoordinatorTablesOK, RunsOK, LeaseTablesOK, CommitTablesOK, Receipt
<1>3. PastTables' /\ PastBehind' /\ StoredValuesConform' /\ Listed'
  BY <1>1 DEF Inv, PastTables, PastBehind, StoredValuesConform, Listed
<1>4. LeasesBehind' /\ LeasesInOrder' /\ TakeoversInOrder'
  BY <1>1 DEF Inv, LeasesBehind, LeasesInOrder, TakeoversInOrder
<1>5. GenerationsBehind'
  <2>1. \A w : Generation(w) \in Nat /\ Generation(w)' \in Nat
    <3>1. RunTablesOK
      BY DEF Inv, TypeOK, CoordinatorTablesOK
    <3>2. \A w : Generation(w) \in Nat
      BY <3>1, GenerationType
    <3>3. \A w : Generation(w)' \in Nat
      BY DEF RunsOK, RunTablesOK, IsTable, JobRow, Generation
    <3> QED
      BY <3>2, <3>3
  <2> QED
    BY <1>1, <2>1 DEF Inv, GenerationsBehind, RunsForward
<1>6. TransitionKeys'
  BY <1>1 DEF Inv, TransitionKeys, RunsForward
<1>10. DeltasKept'
  <2>1. \A i \in DOMAIN journal : journal[i].workflow \in DOMAIN workflows
    BY CommitsOfRuns DEF Inv
  <2> QED
    BY <1>1, <2>1 DEF Inv, DeltasKept, RunsForward
<1>7. \A w, op : AttemptsOf(w, op) \subseteq AttemptsOf(w, op)'
  BY DEF AttemptsOf, RunsForward
<1>8. Recorded'
  <2>1. \A i : TransitionOf(i)' = TransitionOf(i)
    BY <1>1 DEF TransitionOf
  <2> QED
    BY <1>1, <1>7, <2>1 DEF Inv, Recorded
<1>9. AtomicCommits'
  <2>1. \A w, op : CommitsOf(w, op)' = CommitsOf(w, op)
    BY <1>1 DEF CommitsOf
  <2>2. \A w, op : {id \in AttemptsOf(w, op)' : attempts'[id].status = "committed"} =
                   {id \in AttemptsOf(w, op) : attempts[id].status = "committed"}
    BY DEF AttemptsOf, RunsForward
  <2> QED
    BY <1>1, <2>1, <2>2
    DEF Inv, AtomicCommits, ReceiptsCounted, EnvelopesQueued, TransitionsCounted, VersionsCounted,
        CommitsMaking, CommitsWriting
<1> QED
  BY <1>2, <1>3, <1>4, <1>5, <1>6, <1>8, <1>9, <1>10 DEF Inv, RunsOK

\* A step that changes none of what a commit writes.
LEMMA JournalKept ==
  ASSUME Recorded, AtomicCommits,
         UNCHANGED <<resources, attempts, deliveries, operations, transitions, journal>>
  PROVE  Recorded' /\ AtomicCommits'
<1>1. \A w, op : AttemptsOf(w, op)' = AttemptsOf(w, op) /\ CommitsOf(w, op)' = CommitsOf(w, op)
  BY DEF AttemptsOf, CommitsOf
<1>2. \A i : TransitionOf(i)' = TransitionOf(i)
  BY DEF TransitionOf
<1>3. Recorded'
  BY <1>1, <1>2 DEF Recorded
<1>4. AtomicCommits'
  BY <1>1 DEF AtomicCommits, ReceiptsCounted, EnvelopesQueued, TransitionsCounted,
              VersionsCounted, CommitsMaking, CommitsWriting
<1> QED
  BY <1>3, <1>4

\* A new resource has version 1, and no commit has written it.
LEMMA CreateInv ==
  ASSUME Inv, NEW key \in Key, NEW value \in Value, NEW s \in Schema, Create(key, value, s)
  PROVE  Inv'
<1> DEFINE row == [value |-> value, json_schema |-> s, version |-> 1, schema_version |-> 1]
<1>1. /\ UNCHANGED <<clock, lease_sequence, leases, workflows, attempts, run_jobs, task_outcomes,
                     channels, deliveries, operations, transitions, journal>>
      /\ past' = past \union {resources'}
      /\ key \notin DOMAIN resources
      /\ resources' = Insert(resources, key, row)
      /\ Validates(value, s)
  BY DEF Create, CreateResource, leaseVars, runVars, messagingVars, commitVars
<1>2. row \in Resource /\ row.version = 1 /\ row.value = value /\ row.json_schema = s
  BY DEF Resource
<1> HIDE DEF row
<1>3. /\ IsTable(resources', Key, Resource)
      /\ DOMAIN resources' = DOMAIN resources \union {key}
      /\ resources'[key] = row
      /\ \A k \in DOMAIN resources : resources'[k] = resources[k]
  <2>1. IsTable(resources, Key, Resource)
    BY DEF Inv, TypeOK, CoordinatorTablesOK
  <2> QED
    BY <1>1, <1>2, <2>1 DEF IsTable, Insert, Upsert
<1>4. TypeOK'
  BY <1>1, <1>3 DEF Inv, TypeOK, CoordinatorTablesOK, LeaseTablesOK, RunTablesOK, MessagingTablesOK,
                    CommitTablesOK, Receipt
<1>5. PendingCurrent' /\ GenerationsBehind'
  BY <1>1 DEF Inv, PendingCurrent, GenerationsBehind, Generation
<1>6. PastTables'
  BY <1>1, <1>3 DEF Inv, PastTables, IsTable
<1>7. PastBehind'
  <2> SUFFICES ASSUME NEW basis \in past', NEW k \in Key, k \in DOMAIN basis
               PROVE  /\ k \in DOMAIN resources'
                      /\ basis[k] \in Resource
                      /\ basis[k].version <= resources'[k].version
                      /\ basis[k].version = resources'[k].version => basis[k] = resources'[k]
    BY DEF PastBehind
  <2>1. CASE basis \in past
    BY <1>3, <2>1 DEF Inv, PastBehind
  <2>2. CASE basis = resources'
    <3>1. basis[k] \in Resource
      BY <1>3, <2>2 DEF IsTable
    <3> QED
      BY <2>2, <3>1 DEF Resource
  <2> QED
    BY <1>1, <2>1, <2>2
<1>8. StoredValuesConform'
  BY <1>1, <1>2, <1>3 DEF Inv, StoredValuesConform
<1>9. /\ Listed' /\ LeasesBehind' /\ LeasesInOrder' /\ TakeoversInOrder' /\ TransitionKeys'
      /\ DeltasKept'
  BY <1>1 DEF Inv, Listed, LeasesBehind, LeasesInOrder, TakeoversInOrder, TransitionKeys, DeltasKept
<1>10. \A w, op : AttemptsOf(w, op)' = AttemptsOf(w, op) /\ CommitsOf(w, op)' = CommitsOf(w, op)
  BY <1>1 DEF AttemptsOf, CommitsOf
<1>11. Recorded'
  <2>1. \A i : TransitionOf(i)' = TransitionOf(i)
    BY <1>1 DEF TransitionOf
  <2> QED
    BY <1>1, <1>3, <1>10, <2>1 DEF Inv, Recorded
<1>12. AtomicCommits'
  <2>1. ReceiptsCounted' /\ EnvelopesQueued' /\ TransitionsCounted'
    <3>1. \A t : CommitsMaking(t)' = CommitsMaking(t)
      BY <1>1 DEF CommitsMaking
    <3> QED
      BY <1>1, <1>10, <3>1
      DEF Inv, AtomicCommits, ReceiptsCounted, EnvelopesQueued, TransitionsCounted
  <2>2. \A k : CommitsWriting(k)' = CommitsWriting(k)
    BY <1>1 DEF CommitsWriting
  <2>3. resources'[key].version = 1 + Cardinality(CommitsWriting(key))
    <3>1. CommitsWriting(key) = {}
      BY <1>1 DEF Inv, Recorded, CommitsWriting
    <3> QED
      BY <1>2, <1>3, <3>1, FS_EmptySet
  <2>4. VersionsCounted'
    BY <1>3, <2>2, <2>3 DEF Inv, AtomicCommits, VersionsCounted
  <2> QED
    BY <2>1, <2>4 DEF AtomicCommits
<1> QED
  BY <1>4, <1>5, <1>6, <1>7, <1>8, <1>9, <1>11, <1>12 DEF Inv

\* A lease carries a token that no commit was made under, and leaves the others.
LEMMA LeaseInv ==
  ASSUME Inv, NEW owner \in Owner, NEW keys, NEW ttl \in LeaseTtl, Lease(owner, keys, ttl)
  PROVE  Inv'
<1> DEFINE rows == GrantedRows(owner, keys, ttl)
           next == lease_sequence + 1
           expiry == clock + ttl
<1>1. /\ UNCHANGED <<clock, resources, workflows, attempts, run_jobs, task_outcomes,
                     channels, deliveries, operations, transitions, journal, past>>
      /\ keys \subseteq DOMAIN resources
      /\ lease_sequence' = next
      /\ leases' = Upsert(leases, rows)
  BY DEF Lease, Acquire, runVars, messagingVars, commitVars
<1>2. /\ clock \in Nat /\ lease_sequence \in Nat /\ next \in Nat \ {0} /\ expiry \in Nat
      /\ IsTable(leases, Key, LeaseRow) /\ DOMAIN resources \subseteq Key
  BY DEF Inv, TypeOK, CoordinatorTablesOK, LeaseTablesOK, IsTable
<1>3. /\ DOMAIN rows = keys /\ rows = [k \in DOMAIN rows |-> rows[k]]
      /\ \A k \in keys : rows[k] = [owner |-> owner, token |-> next, expires_at |-> expiry]
  BY DEF GrantedRows, NextToken
<1> HIDE DEF rows, next, expiry
<1>4. IsTable(rows, Key, LeaseRow)
  BY <1>1, <1>2, <1>3 DEF IsTable, LeaseRow
<1>5. /\ IsTable(leases', Key, LeaseRow)
      /\ DOMAIN leases' = DOMAIN leases \union keys
      /\ \A k \in keys : leases'[k].token = next
      /\ \A k \in DOMAIN leases \ keys : leases'[k] = leases[k]
  BY <1>1, <1>2, <1>3, <1>4 DEF IsTable, Upsert
<1>6. TypeOK'
  BY <1>1, <1>2, <1>5 DEF Inv, TypeOK, CoordinatorTablesOK, LeaseTablesOK, RunTablesOK,
                          MessagingTablesOK, CommitTablesOK, Receipt
<1>7. LeasesBehind'
  <2>1. lease_sequence' = lease_sequence + 1
    BY <1>1 DEF next
  <2>2. \A k \in DOMAIN leases' : leases'[k].token \in Nat /\ leases'[k].token <= lease_sequence'
    <3> SUFFICES ASSUME NEW k \in DOMAIN leases'
                 PROVE  leases'[k].token \in Nat /\ leases'[k].token <= lease_sequence'
      OBVIOUS
    <3>1. CASE k \in keys
      BY <1>1, <1>2, <1>5, <3>1
    <3>2. CASE k \in DOMAIN leases \ keys
      <4>1. leases[k].token \in Nat
        BY <1>2, <3>2 DEF IsTable, LeaseRow
      <4> QED
        BY <1>2, <1>5, <2>1, <3>2, <4>1 DEF Inv, LeasesBehind
    <3> QED
      BY <1>5, <3>1, <3>2
  <2>3. ASSUME NEW i \in DOMAIN journal
        PROVE  /\ journal[i].lease_token \in 1..lease_sequence'
               /\ \A k \in DOMAIN leases' : k \in DOMAIN journal[i].basis =>
                    \/ journal[i].lease_token < leases'[k].token
                    \/ /\ journal[i].lease_token = leases'[k].token
                       /\ journal[i].owner = leases'[k].owner
    <3>1. journal[i].lease_token \in 1..lease_sequence
      BY DEF Inv, LeasesBehind
    <3>2. journal[i].lease_token < lease_sequence'
      BY <1>2, <2>1, <3>1
    <3>3. ASSUME NEW k \in DOMAIN leases', k \in DOMAIN journal[i].basis
          PROVE  \/ journal[i].lease_token < leases'[k].token
                 \/ /\ journal[i].lease_token = leases'[k].token
                    /\ journal[i].owner = leases'[k].owner
      <4>1. CASE k \in keys
        BY <1>1, <1>5, <3>2, <4>1
      <4>2. CASE k \in DOMAIN leases \ keys
        BY <1>5, <3>3, <4>2 DEF Inv, LeasesBehind
      <4> QED
        BY <1>5, <4>1, <4>2
    <3> QED
      BY <1>2, <2>1, <3>1, <3>3
  <2> QED
    BY <1>1, <2>2, <2>3 DEF LeasesBehind
<1>8. PendingCurrent' /\ GenerationsBehind'
  BY <1>1 DEF Inv, PendingCurrent, GenerationsBehind, Generation
<1>9. /\ PastTables' /\ PastBehind' /\ StoredValuesConform' /\ Listed' /\ LeasesInOrder'
      /\ TakeoversInOrder' /\ TransitionKeys' /\ DeltasKept'
  BY <1>1 DEF Inv, PastTables, PastBehind, StoredValuesConform, Listed, LeasesInOrder,
              TakeoversInOrder, TransitionKeys, DeltasKept
<1>10. Recorded' /\ AtomicCommits'
  BY <1>1, JournalKept DEF Inv
<1> QED
  BY <1>6, <1>7, <1>8, <1>9, <1>10 DEF Inv

\* Releasing a lease only forgets rows.
LEMMA UnleaseInv ==
  ASSUME Inv, NEW owner, NEW token, Unlease(owner, token)
  PROVE  Inv'
<1>1. /\ UNCHANGED <<clock, resources, lease_sequence, workflows, attempts, run_jobs, task_outcomes,
                     channels, deliveries, operations, transitions, journal, past>>
      /\ leases' = Delete(leases, RowsOf(owner, token))
  BY DEF Unlease, Release, runVars, messagingVars, commitVars
<1>2. /\ IsTable(leases', Key, LeaseRow)
      /\ DOMAIN leases' \subseteq DOMAIN leases
      /\ \A k \in DOMAIN leases' : leases'[k] = leases[k]
  BY <1>1 DEF Inv, TypeOK, CoordinatorTablesOK, LeaseTablesOK, IsTable, Delete
<1>3. TypeOK'
  BY <1>1, <1>2 DEF Inv, TypeOK, CoordinatorTablesOK, LeaseTablesOK, RunTablesOK,
                    MessagingTablesOK, CommitTablesOK, Receipt
<1>4. LeasesBehind'
  BY <1>1, <1>2 DEF Inv, LeasesBehind
<1>5. PendingCurrent' /\ GenerationsBehind'
  BY <1>1 DEF Inv, PendingCurrent, GenerationsBehind, Generation
<1>6. /\ PastTables' /\ PastBehind' /\ StoredValuesConform' /\ Listed' /\ LeasesInOrder'
      /\ TakeoversInOrder' /\ TransitionKeys' /\ DeltasKept'
  BY <1>1 DEF Inv, PastTables, PastBehind, StoredValuesConform, Listed, LeasesInOrder,
              TakeoversInOrder, TransitionKeys, DeltasKept
<1>7. Recorded' /\ AtomicCommits'
  BY <1>1, JournalKept DEF Inv
<1> QED
  BY <1>3, <1>4, <1>5, <1>6, <1>7 DEF Inv
-----------------------------------------------------------------------------
(* A commit.                                                                 *)

\* e has become the n-th commit.
Appended(n, e) ==
  /\ n \in Nat /\ n \notin DOMAIN journal
  /\ IsFiniteSet(DOMAIN journal)
  /\ DOMAIN journal' = DOMAIN journal \union {n}
  /\ journal'[n] = e
  /\ \A i \in DOMAIN journal : journal'[i] = journal[i] /\ i \in Nat /\ i < n

\* The journal grows at its end.
LEMMA JournalGrows ==
  ASSUME Listed, NEW e, journal' = Append(journal, e)
  PROVE  Listed' /\ Appended(Len(journal) + 1, e)
<1> DEFINE S == {journal[i] : i \in DOMAIN journal}
           T == S \union {e}
           n == Len(journal) + 1
<1>1. journal \in Seq(S)
  BY DEF Listed
<1> HIDE DEF S
<1>2. /\ DOMAIN journal = 1..Len(journal) /\ Len(journal) \in Nat
      /\ \A i \in 1..Len(journal) : journal[i] \in S
  BY <1>1
<1>3. journal \in Seq(T)
  BY <1>1, <1>2
<1>4. /\ journal' \in Seq(T) /\ DOMAIN journal' = 1..n /\ journal'[n] = e
      /\ \A i \in 1..Len(journal) : journal'[i] = journal[i]
  BY <1>2, <1>3
<1>5. Appended(n, e)
  <2>1. IsFiniteSet(1..Len(journal))
    BY <1>2, FS_Interval
  <2>2. 1..n = 1..Len(journal) \union {n} /\ n \in Nat /\ n \notin 1..Len(journal)
    BY <1>2
  <2> QED
    BY <1>2, <1>4, <2>1, <2>2 DEF Appended
<1>6. T = {journal'[i] : i \in DOMAIN journal'}
  BY <1>5 DEF Appended, S
<1>7. Listed'
  BY <1>4, <1>6 DEF Listed
<1> QED
  BY <1>5, <1>7

\* New versions of some resources.
LEMMA ResourcesWritten ==
  ASSUME IsTable(resources, Key, Resource), PastTables, PastBehind, StoredValuesConform,
         NEW new, IsTable(new, Key, Resource), DOMAIN new \subseteq DOMAIN resources,
         \A k \in DOMAIN new : new[k].version = resources[k].version + 1,
         WritesValid(new), resources' = Upsert(resources, new), past' = past \union {resources'}
  PROVE  /\ IsTable(resources', Key, Resource)
         /\ DOMAIN resources' = DOMAIN resources
         /\ \A k \in DOMAIN resources :
              resources'[k] = IF k \in DOMAIN new THEN new[k] ELSE resources[k]
         /\ PastTables' /\ PastBehind' /\ StoredValuesConform'
<1>1. /\ DOMAIN resources' = DOMAIN resources
      /\ resources' = [k \in DOMAIN resources' |-> resources'[k]]
      /\ \A k \in DOMAIN resources :
           resources'[k] = IF k \in DOMAIN new THEN new[k] ELSE resources[k]
  BY DEF Upsert
<1>2. /\ \A k \in DOMAIN resources : k \in Key /\ resources[k] \in Resource
      /\ \A k \in DOMAIN new : new[k] \in Resource
  BY DEF IsTable
<1>3. IsTable(resources', Key, Resource)
  BY <1>1, <1>2 DEF IsTable
<1>4. PastTables'
  BY <1>3 DEF PastTables, IsTable
<1>5. PastBehind'
  <2> SUFFICES ASSUME NEW basis \in past', NEW k \in Key, k \in DOMAIN basis
               PROVE  /\ k \in DOMAIN resources'
                      /\ basis[k] \in Resource
                      /\ basis[k].version <= resources'[k].version
                      /\ basis[k].version = resources'[k].version => basis[k] = resources'[k]
    BY DEF PastBehind
  <2>1. CASE basis = resources'
    <3>1. basis[k] \in Resource
      BY <1>3, <2>1 DEF IsTable
    <3>2. basis[k].version \in Nat
      BY <3>1 DEF Resource
    <3> QED
      BY <2>1, <3>1, <3>2
  <2>2. CASE basis \in past
    <3>1. /\ k \in DOMAIN resources /\ basis[k] \in Resource
          /\ basis[k].version <= resources[k].version
          /\ basis[k].version = resources[k].version => basis[k] = resources[k]
      BY <2>2 DEF PastBehind
    <3>2. resources[k].version \in Nat /\ basis[k].version \in Nat
      BY <1>2, <3>1 DEF Resource
    <3>3. CASE k \in DOMAIN new
      <4>1. resources'[k].version = resources[k].version + 1
        BY <1>1, <3>1, <3>3
      <4>2. basis[k].version < resources'[k].version
        BY <3>1, <3>2, <4>1
      <4> QED
        BY <1>1, <3>1, <3>2, <4>1, <4>2
    <3>4. CASE k \notin DOMAIN new
      BY <1>1, <3>1, <3>4
    <3> QED
      BY <3>3, <3>4
  <2> QED
    BY <2>1, <2>2
<1>6. StoredValuesConform'
  BY <1>1 DEF StoredValuesConform, WritesValid
<1> QED
  BY <1>1, <1>3, <1>4, <1>5, <1>6

\* A commit under the current leases of what it read follows every commit that
\* read some of it.
LEMMA LeasesCommitted ==
  ASSUME LeasesBehind, LeasesInOrder, lease_sequence \in Nat,
         NEW n, NEW e, Appended(n, e), UNCHANGED <<lease_sequence, leases>>,
         e.lease_token \in 1..lease_sequence,
         \A k \in DOMAIN leases : leases[k].token \in Nat,
         \A k \in DOMAIN e.basis :
           k \in DOMAIN leases /\ leases[k].token = e.lease_token /\ leases[k].owner = e.owner
  PROVE  LeasesBehind' /\ LeasesInOrder'
<1>1. LeasesBehind'
  BY DEF LeasesBehind, Appended
<1>2. LeasesInOrder'
  <2> SUFFICES ASSUME NEW i \in DOMAIN journal', NEW j \in DOMAIN journal', i < j,
                      DOMAIN journal'[i].basis \intersect DOMAIN journal'[j].basis # {}
               PROVE  \/ journal'[i].lease_token < journal'[j].lease_token
                      \/ /\ journal'[i].lease_token = journal'[j].lease_token
                         /\ journal'[i].owner = journal'[j].owner
    BY DEF LeasesInOrder
  <2>1. i \in DOMAIN journal
    BY DEF Appended
  <2>2. CASE j \in DOMAIN journal
    BY <2>1, <2>2 DEF LeasesInOrder, Appended
  <2>3. CASE j = n
    <3>1. PICK k : k \in DOMAIN journal'[i].basis /\ k \in DOMAIN journal'[j].basis
      OBVIOUS
    <3>2. journal'[j] = e /\ journal'[i] = journal[i]
      BY <2>1, <2>3 DEF Appended
    <3> QED
      BY <2>1, <3>1, <3>2 DEF LeasesBehind
  <2> QED
    BY <2>2, <2>3 DEF Appended
<1> QED
  BY <1>1, <1>2

\* A commit of an attempt of the newest generation of its run follows every commit
\* of the run.
LEMMA TakeoversCommitted ==
  ASSUME GenerationsBehind, TakeoversInOrder, RunTablesOK,
         NEW n, NEW e, Appended(n, e), UNCHANGED run_jobs,
         e.generation = Generation(e.workflow)
  PROVE  GenerationsBehind' /\ TakeoversInOrder'
<1>1. \A w : Generation(w)' = Generation(w) /\ Generation(w) \in Nat
  BY GenerationType DEF Generation
<1>2. GenerationsBehind'
  BY <1>1 DEF GenerationsBehind, Appended
<1>3. TakeoversInOrder'
  BY <1>1 DEF TakeoversInOrder, GenerationsBehind, Appended
<1> QED
  BY <1>2, <1>3

\* What becomes of an attempt that commits.
LEMMA AttemptCommitted ==
  ASSUME RunsOK, NEW id \in DOMAIN attempts, attempts[id].status = "pending",
         attempts' = [attempts EXCEPT ![id].status = "committed"],
         UNCHANGED <<workflows, run_jobs, task_outcomes>>
  PROVE  /\ RunsOK'
         /\ \A w, op : AttemptsOf(w, op)' = AttemptsOf(w, op)
         /\ DOMAIN attempts' = DOMAIN attempts
         /\ \A i \in DOMAIN attempts :
              attempts'[i].status = IF i = id THEN "committed" ELSE attempts[i].status
<1> DEFINE new == [attempts[id] EXCEPT !.status = "committed"]
<1>1. attempts \in Seq(AttemptRow) /\ attempts[id] \in AttemptRow
  BY DEF RunsOK, RunTablesOK
<1>2. /\ new \in AttemptRow /\ new.status = "committed"
      /\ new.workflow = attempts[id].workflow /\ new.operation = attempts[id].operation
      /\ new.generation = attempts[id].generation
  BY <1>1 DEF AttemptRow
<1>3. attempts' = [attempts EXCEPT ![id] = new]
  BY <1>1
<1> HIDE DEF new
<1>4. /\ attempts' \in Seq(AttemptRow) /\ DOMAIN attempts' = DOMAIN attempts
      /\ \A i \in DOMAIN attempts : attempts'[i] = IF i = id THEN new ELSE attempts[i]
  BY <1>1, <1>2, <1>3
<1>5. \A w, op : AttemptsOf(w, op)' = AttemptsOf(w, op)
  BY <1>2, <1>4 DEF AttemptsOf
<1>6. RunTablesOK'
  BY <1>4 DEF RunsOK, RunTablesOK
<1>7. PendingCurrent'
  BY <1>2, <1>4 DEF RunsOK, PendingCurrent, Generation
<1> QED
  BY <1>2, <1>4, <1>5, <1>6, <1>7 DEF RunsOK

\* The first receipt of an operation, and the attempt that committed it.
LEMMA ReceiptCommitted ==
  ASSUME ReceiptsCounted, NEW n, NEW e, Appended(n, e), NEW receipt,
         <<e.workflow, e.operation>> \notin DOMAIN operations,
         operations' = Insert(operations, <<e.workflow, e.operation>>, receipt),
         e.attempt \in AttemptsOf(e.workflow, e.operation),
         \A w, op : AttemptsOf(w, op)' = AttemptsOf(w, op),
         \A i \in DOMAIN attempts :
           attempts'[i].status = IF i = e.attempt THEN "committed" ELSE attempts[i].status
  PROVE  ReceiptsCounted'
<1> SUFFICES ASSUME NEW w \in Workflow, NEW op \in Task
             PROVE  /\ Cardinality(CommitsOf(w, op)') =
                         (IF <<w, op>> \in DOMAIN operations' THEN 1 ELSE 0)
                    /\ {id \in AttemptsOf(w, op)' : attempts'[id].status = "committed"} =
                         {journal'[i].attempt : i \in CommitsOf(w, op)'}
  BY DEF ReceiptsCounted
<1>0. \A i \in AttemptsOf(w, op) : i \in DOMAIN attempts
  BY DEF AttemptsOf
<1>1. DOMAIN operations' = DOMAIN operations \union {<<e.workflow, e.operation>>}
  BY DEF Insert, Upsert
<1>2. \A i \in DOMAIN journal : journal'[i] = journal[i]
  BY DEF Appended
<1>3. IsFiniteSet(CommitsOf(w, op))
  BY FS_Subset DEF CommitsOf, Appended
<1>4. CASE w = e.workflow /\ op = e.operation
  <2>1. CommitsOf(w, op)' = CommitsOf(w, op) \union {n} /\ n \notin CommitsOf(w, op)
    BY <1>4 DEF CommitsOf, Appended
  <2>2. Cardinality(CommitsOf(w, op)) = 0
    BY <1>4 DEF ReceiptsCounted
  <2>3. Cardinality(CommitsOf(w, op)') = 1
    <3> DEFINE S == CommitsOf(w, op)
    <3>1. IsFiniteSet(S) /\ n \notin S /\ Cardinality(S) = 0 /\ CommitsOf(w, op)' = S \union {n}
      BY <1>3, <2>1, <2>2
    <3> HIDE DEF S
    <3>2. Cardinality(S \union {n}) = Cardinality(S) + 1
      BY <3>1, FS_AddElement
    <3> QED
      BY <3>1, <3>2
  <2>4. {journal'[i].attempt : i \in CommitsOf(w, op)'} =
          {journal[i].attempt : i \in CommitsOf(w, op)} \union {e.attempt}
    BY <1>2, <2>1 DEF Appended, CommitsOf
  <2>5. {id \in AttemptsOf(w, op)' : attempts'[id].status = "committed"} =
          {id \in AttemptsOf(w, op) : attempts[id].status = "committed"} \union {e.attempt}
    BY <1>0, <1>4
  <2> QED
    BY <1>1, <1>4, <2>3, <2>4, <2>5 DEF ReceiptsCounted
<1>5. CASE ~(w = e.workflow /\ op = e.operation)
  <2>0. e.attempt \notin AttemptsOf(w, op)
    BY <1>5 DEF AttemptsOf
  <2>1. CommitsOf(w, op)' = CommitsOf(w, op)
    BY <1>5 DEF CommitsOf, Appended
  <2>2. {journal'[i].attempt : i \in CommitsOf(w, op)'} =
          {journal[i].attempt : i \in CommitsOf(w, op)}
    BY <1>2, <2>1 DEF CommitsOf
  <2>3. {id \in AttemptsOf(w, op)' : attempts'[id].status = "committed"} =
          {id \in AttemptsOf(w, op) : attempts[id].status = "committed"}
    BY <1>0, <1>5, <2>0
  <2>4. <<w, op>> \in DOMAIN operations' <=> <<w, op>> \in DOMAIN operations
    BY <1>1, <1>5
  <2>5. /\ Cardinality(CommitsOf(w, op)) = (IF <<w, op>> \in DOMAIN operations THEN 1 ELSE 0)
        /\ {id \in AttemptsOf(w, op) : attempts[id].status = "committed"} =
             {journal[i].attempt : i \in CommitsOf(w, op)}
    BY DEF ReceiptsCounted
  <2>6. Cardinality(CommitsOf(w, op)') = Cardinality(CommitsOf(w, op))
    BY <2>1
  <2> QED
    BY <2>2, <2>3, <2>4, <2>5, <2>6
<1> QED
  BY <1>4, <1>5

\* The deliveries a commit stages are those its receipt lists.
LEMMA EnvelopesCommitted ==
  ASSUME EnvelopesQueued, NEW w, NEW op, NEW envelopes, NEW acknowledgements, NEW receipt,
         deliveries' = Consumed(StageEnvelopes(w, op, envelopes), acknowledgements),
         <<w, op>> \notin DOMAIN operations,
         operations' = Insert(operations, <<w, op>>, receipt),
         receipt.envelope_ids = {<<w, op, e.id>> : e \in envelopes}
  PROVE  EnvelopesQueued'
<1>1. DOMAIN deliveries' = DOMAIN deliveries \union receipt.envelope_ids
  BY DEF Consumed, StageEnvelopes, StagedRows, Upsert
<1>2. /\ DOMAIN operations' = DOMAIN operations \union {<<w, op>>}
      /\ operations'[<<w, op>>] = receipt
      /\ \A o \in DOMAIN operations : operations'[o] = operations[o]
  BY DEF Insert, Upsert
<1>3. \A d \in receipt.envelope_ids : <<d[1], d[2]>> = <<w, op>>
  OBVIOUS
<1> SUFFICES ASSUME NEW d \in DeliveryId, NEW o, o = <<d[1], d[2]>>
             PROVE  d \in DOMAIN deliveries' <=>
                      o \in DOMAIN operations' /\ d \in operations'[o].envelope_ids
  BY DEF EnvelopesQueued
<1>4. d \in DOMAIN deliveries <=> o \in DOMAIN operations /\ d \in operations[o].envelope_ids
  BY DEF EnvelopesQueued
<1>5. CASE o = <<w, op>>
  BY <1>1, <1>2, <1>4, <1>5
<1>6. CASE o # <<w, op>>
  <2>1. d \notin receipt.envelope_ids
    BY <1>3, <1>6
  <2> QED
    BY <1>1, <1>2, <1>4, <1>6, <2>1
<1> QED
  BY <1>5, <1>6

\* A commit moves no amount further than the rules of its run allow.
LEMMA DeltasCommitted ==
  ASSUME DeltasKept, Recorded, TransitionKeys, NEW n, NEW e, Appended(n, e), UNCHANGED workflows,
         NEW current, NEW new, DOMAIN new \subseteq DOMAIN current,
         e.basis = ContentOf(current), e.written = ContentOf(new),
         RulesAllow(workflows[e.workflow].specification.invariants, current, new)
  PROVE  DeltasKept'
<1>1. ASSUME NEW rule \in workflows[e.workflow].specification.invariants,
             rule.kind = "numeric_bounds", rule.max_delta # NoLimit,
             NEW k \in rule.resources \intersect DOMAIN e.written
      PROVE  AmountIn(rule, e.written[k]) - AmountIn(rule, e.basis[k])
               \in -rule.max_delta .. rule.max_delta
  <2>1. k \in DOMAIN new /\ k \in DOMAIN current
    BY DEF ContentOf
  <2>2. Respected(rule, current, new)
    BY <2>1 DEF RulesAllow, Concerned
  <2>3. Bounded(rule, AmountIn(rule, current[k]), AmountIn(rule, After(current, new, k)))
    BY <1>1, <2>2 DEF Respected
  <2>4. e.written[k].value = After(current, new, k).value /\ e.basis[k].value = current[k].value
    BY <2>1 DEF ContentOf, After
  <2>5. /\ AmountIn(rule, e.written[k]) = AmountIn(rule, After(current, new, k))
        /\ AmountIn(rule, e.basis[k]) = AmountIn(rule, current[k])
    BY <2>4 DEF AmountIn
  <2> QED
    BY <1>1, <2>3, <2>5 DEF Bounded
<1> SUFFICES ASSUME NEW i \in DOMAIN journal',
                    NEW rule \in workflows[journal'[i].workflow].specification.invariants,
                    rule.kind = "numeric_bounds", rule.max_delta # NoLimit,
                    NEW k \in rule.resources \intersect DOMAIN journal'[i].written
             PROVE  AmountIn(rule, journal'[i].written[k]) - AmountIn(rule, journal'[i].basis[k])
                      \in -rule.max_delta .. rule.max_delta
  BY DEF DeltasKept
<1>2. CASE i = n
  BY <1>1, <1>2 DEF Appended
<1>3. CASE i \in DOMAIN journal
  BY <1>3 DEF Appended, DeltasKept
<1> QED
  BY <1>2, <1>3 DEF Appended

\* The count of the transition a commit makes is that of the commits that made it,
\* and within the limit of the run.
LEMMA TransitionCommitted ==
  ASSUME TransitionsCounted, TransitionKeys, Recorded, NEW n, NEW e, Appended(n, e),
         \A t \in DOMAIN transitions : transitions[t] \in Nat \ {0},
         transitions' = Counted(e.workflow, [reads |-> e.basis, writes |-> e.written]),
         LoopAllowed(e.workflow, [reads |-> e.basis, writes |-> e.written]),
         e.workflow \in DOMAIN workflows, UNCHANGED workflows,
         workflows[e.workflow].specification.repeat_limit \in Nat \ {0}
  PROVE  /\ TransitionsCounted' /\ TransitionKeys'
         /\ DOMAIN transitions' =
              DOMAIN transitions \union {<<e.workflow, [reads |-> e.basis, writes |-> e.written]>>}
         /\ \A t \in DOMAIN transitions' : transitions'[t] \in Nat \ {0}
<1> DEFINE f == [reads |-> e.basis, writes |-> e.written]
           made == <<e.workflow, f>>
           count == IF made \in DOMAIN transitions THEN transitions[made] + 1 ELSE 1
           limit == workflows[e.workflow].specification.repeat_limit
<1>1. /\ DOMAIN transitions' = DOMAIN transitions \union {made}
      /\ transitions'[made] = count
      /\ \A t \in DOMAIN transitions \ {made} : transitions'[t] = transitions[t]
  BY DEF Counted, Insert, Upsert
<1>2. made[1] = e.workflow /\ made[2] = f /\ f.reads = e.basis /\ f.writes = e.written
  OBVIOUS
<1>3. count \in Nat \ {0} /\ count <= limit
  BY DEF LoopAllowed
<1>4. \A t \in DOMAIN transitions :
        /\ t = <<t[1], [reads |-> t[2].reads, writes |-> t[2].writes]>>
        /\ t[1] \in DOMAIN workflows
        /\ transitions[t] <= workflows[t[1]].specification.repeat_limit
  BY DEF TransitionKeys
<1>5. made = <<made[1], [reads |-> made[2].reads, writes |-> made[2].writes]>>
  OBVIOUS
<1>6. CommitsMaking(made) = {} \/ made \in DOMAIN transitions
  <2>1. \A i \in CommitsMaking(made) : TransitionOf(i) = made
    BY <1>2 DEF CommitsMaking, TransitionOf
  <2> QED
    BY <2>1 DEF Recorded, CommitsMaking
<1>7. \A t \in DOMAIN transitions \ {made} :
        ~(e.workflow = t[1] /\ e.basis = t[2].reads /\ e.written = t[2].writes)
  BY <1>4
<1>8. CommitsMaking(made)' = CommitsMaking(made) \union {n} /\ n \notin CommitsMaking(made)
  BY <1>2 DEF CommitsMaking, Appended
<1>9. \A t \in DOMAIN transitions \ {made} : CommitsMaking(t)' = CommitsMaking(t)
  BY <1>7 DEF CommitsMaking, Appended
<1>10. Cardinality(CommitsMaking(made)') = count
  <2> DEFINE S == CommitsMaking(made)
  <2>1. IsFiniteSet(S)
    BY FS_Subset DEF CommitsMaking, Appended
  <2>2. Cardinality(S) = IF made \in DOMAIN transitions THEN transitions[made] ELSE 0
    <3>1. CASE made \in DOMAIN transitions
      BY <3>1 DEF TransitionsCounted
    <3>2. CASE made \notin DOMAIN transitions
      <4>1. S = {}
        BY <1>6, <3>2
      <4> HIDE DEF S, made
      <4> QED
        BY <3>2, <4>1, FS_EmptySet
    <3> QED
      BY <3>1, <3>2
  <2>3. n \notin S /\ CommitsMaking(made)' = S \union {n}
    BY <1>8
  <2> HIDE DEF S, made
  <2>4. Cardinality(S \union {n}) = Cardinality(S) + 1
    BY <2>1, <2>3, FS_AddElement
  <2> QED
    BY <2>2, <2>3, <2>4
<1> HIDE DEF made, count, limit, f
<1>11. TransitionsCounted'
  <2> SUFFICES ASSUME NEW t \in DOMAIN transitions'
               PROVE  transitions'[t] = Cardinality(CommitsMaking(t)')
    BY DEF TransitionsCounted
  <2>1. CASE t = made
    BY <1>1, <1>10, <2>1
  <2>2. CASE t # made
    <3>1. CommitsMaking(t)' = CommitsMaking(t) /\ transitions'[t] = transitions[t]
          /\ t \in DOMAIN transitions
      BY <1>1, <1>9, <2>2
    <3> QED
      BY <3>1 DEF TransitionsCounted
  <2> QED
    BY <2>1, <2>2
<1>12. TransitionKeys'
  BY <1>1, <1>2, <1>3, <1>4, <1>5 DEF TransitionKeys, limit
<1>13. \A t \in DOMAIN transitions' : transitions'[t] \in Nat \ {0}
  BY <1>1, <1>3
<1> QED
  BY <1>1, <1>11, <1>12, <1>13 DEF made, f

\* A version stands for one commit that wrote the key, or for the creation.
LEMMA VersionCommitted ==
  ASSUME VersionsCounted, NEW n, NEW e, Appended(n, e),
         DOMAIN resources' = DOMAIN resources,
         \A k \in DOMAIN resources :
           resources'[k].version = resources[k].version + (IF k \in DOMAIN e.written THEN 1 ELSE 0),
         \A k \in DOMAIN resources : resources[k].version \in Nat
  PROVE  VersionsCounted'
<1> SUFFICES ASSUME NEW k \in DOMAIN resources
             PROVE  resources'[k].version = 1 + Cardinality(CommitsWriting(k)')
  BY DEF VersionsCounted
<1> DEFINE S == CommitsWriting(k)
<1>1. IsFiniteSet(S) /\ n \notin S
  BY FS_Subset DEF CommitsWriting, Appended
<1>2. resources[k].version = 1 + Cardinality(S)
  BY DEF VersionsCounted
<1>3. CommitsWriting(k)' = IF k \in DOMAIN e.written THEN S \union {n} ELSE S
  BY DEF CommitsWriting, Appended
<1> HIDE DEF S
<1>4. Cardinality(S) \in Nat
  BY <1>1, FS_CardinalityType
<1>5. CASE k \in DOMAIN e.written
  <2>1. Cardinality(S \union {n}) = Cardinality(S) + 1
    BY <1>1, FS_AddElement
  <2>2. CommitsWriting(k)' = S \union {n}
    BY <1>3, <1>5
  <2>3. Cardinality(CommitsWriting(k)') = Cardinality(S) + 1
    BY <2>1, <2>2
  <2>4. resources'[k].version = resources[k].version + 1
    BY <1>5
  <2> QED
    BY <1>2, <1>4, <2>3, <2>4
<1>6. CASE k \notin DOMAIN e.written
  <2>1. CommitsWriting(k)' = S
    BY <1>3, <1>6
  <2>2. Cardinality(CommitsWriting(k)') = Cardinality(S)
    BY <2>1
  <2>3. resources'[k].version = resources[k].version + 0
    BY <1>6
  <2> QED
    BY <1>2, <1>4, <2>2, <2>3
<1> QED
  BY <1>5, <1>6

\* New deliveries, and acknowledged ones.
LEMMA DeliveriesCommitted ==
  ASSUME MessagingTablesOK, clock \in Nat, NEW owner \in Owner, NEW w \in Workflow,
         NEW op \in Task, NEW envelopes \in SUBSET Envelope, NEW acknowledgements,
         deliveries' = Consumed(StageEnvelopes(w, op, envelopes), acknowledgements),
         UNCHANGED channels
  PROVE  MessagingTablesOK'
<1> DEFINE staged == StageEnvelopes(w, op, envelopes)
           rows == StagedRows(w, op, envelopes)
<1>1. IsTable(deliveries, DeliveryId, DeliveryRow) /\ IsTable(rows, DeliveryId, DeliveryRow)
  BY StagedRowsTypes DEF MessagingTablesOK
<1>2. staged = Upsert(deliveries, rows)
  BY DEF StageEnvelopes
<1> HIDE DEF rows, staged
<1>3. DOMAIN staged \subseteq DeliveryId /\ \A d \in DOMAIN staged : staged[d] \in DeliveryRow
  BY <1>1, <1>2 DEF IsTable, Upsert
<1>4. /\ DOMAIN deliveries' = DOMAIN staged
      /\ deliveries' = [d \in DOMAIN deliveries' |-> deliveries'[d]]
      /\ \A d \in DOMAIN staged : deliveries'[d] \in {Delivered(staged[d]), staged[d]}
  BY DEF Consumed, staged
<1>5. 0 \in Nat
  OBVIOUS
<1>6. \A row \in DeliveryRow : Delivered(row) \in DeliveryRow
  BY <1>5, RowUpdates
<1>7. IsTable(deliveries', DeliveryId, DeliveryRow)
  BY <1>3, <1>4, <1>6 DEF IsTable
<1> QED
  BY <1>7 DEF MessagingTablesOK

\* What an accepted commit has found: w and op are its run and operation, current is
\* what it read and new is what it writes.
Found(id, plan, lease_token, acknowledgements, w, op, current, new) ==
  /\ w \in DOMAIN workflows /\ attempts[id].status = "pending"
  /\ <<w, op>> \notin DOMAIN operations
  /\ DOMAIN plan.writes \subseteq plan.reads /\ plan.reads \subseteq DOMAIN resources
  /\ \A k \in plan.reads : /\ k \in DOMAIN leases
                           /\ leases[k].owner = attempts[id].owner
                           /\ leases[k].token = lease_token
  /\ WritesValid(new)
  /\ RulesAllow(workflows[w].specification.invariants, current, new)
  /\ LoopAllowed(w, Transition(current, new))
  /\ \A a \in acknowledgements : a.id \in DOMAIN deliveries

\* What it leaves.
Left(id, plan, lease_token, acknowledgements, w, op, current, new) ==
  /\ resources' = Upsert(resources, new)
  /\ transitions' = Counted(w, Transition(current, new))
  /\ deliveries' = Consumed(StageEnvelopes(w, op, plan.envelopes), acknowledgements)
  /\ \E receipt :
       /\ operations' = Insert(operations, <<w, op>>, receipt)
       /\ receipt.resources = new
       /\ receipt.envelope_ids = {<<w, op, e.id>> : e \in plan.envelopes}
       /\ DOMAIN receipt.fingerprint.reads = plan.reads
       /\ receipt.fingerprint.acknowledged = {a.id : a \in acknowledgements}
  /\ attempts' = [attempts EXCEPT ![id].status = "committed"]
  /\ \E e :
       /\ journal' = Append(journal, e)
       /\ e.workflow = w /\ e.operation = op /\ e.owner = attempts[id].owner
       /\ e.attempt = id /\ e.lease_token = lease_token
       /\ e.generation = attempts[id].generation
       /\ e.basis = ContentOf(current) /\ e.written = ContentOf(new)
  /\ past' = past \union {resources'}
  /\ UNCHANGED <<clock, lease_sequence, leases, workflows, run_jobs, task_outcomes, channels>>

\* An agent's stamps are current only if what it planned on is.
LEMMA CommitFacts ==
  ASSUME Inv, NEW id \in DOMAIN attempts, NEW plan \in Plans, NEW basis \in past,
         NEW lease_token, NEW execution_token, NEW acknowledgements,
         plan.reads \subseteq DOMAIN basis,
         SendCommit(id, plan, basis, lease_token, execution_token, acknowledgements),
         NEW w, w = attempts[id].workflow, NEW op, op = attempts[id].operation,
         NEW current, current = Snapshot(resources, plan.reads),
         NEW new, new = Prepared(plan.writes)
  PROVE  /\ current = Snapshot(basis, plan.reads)
         /\ Found(id, plan, lease_token, acknowledgements, w, op, current, new)
         /\ Left(id, plan, lease_token, acknowledgements, w, op, current, new)
<1> DEFINE r == Request(id, plan, basis, lease_token, execution_token, acknowledgements)
<1>1. /\ r.workflow = w /\ r.operation = op /\ r.owner = attempts[id].owner /\ r.attempt = id
      /\ r.lease_token = lease_token /\ r.acknowledgements = acknowledgements
      /\ r.reads = [k \in plan.reads |-> Stamp(basis[k])]
      /\ r.writes = plan.writes /\ r.envelopes = plan.envelopes
  BY DEF Request
<1>2. /\ Commit(r)
      /\ journal' = Append(journal, Entry(r, Snapshot(basis, plan.reads)))
      /\ past' = past \union {resources'}
      /\ UNCHANGED clock
  BY DEF SendCommit
<1> HIDE DEF r
<1>3. DOMAIN r.reads = plan.reads /\ \A k \in plan.reads : r.reads[k] = Stamp(basis[k])
  BY <1>1
<1>4. CurrentOf(r) = current /\ ProposedBy(r) = new
  BY <1>1, <1>3 DEF CurrentOf, ProposedBy
<1>5. /\ Unanswered(r) /\ CommitAuthorised(r) /\ ReadsFenced(r)
      /\ ContentAllowed(r, current, new)
  BY <1>2, <1>4 DEF Commit, CommitAllowed
<1>6. /\ w \in DOMAIN workflows /\ attempts[id].status = "pending"
      /\ <<w, op>> \notin DOMAIN operations
      /\ DOMAIN plan.writes \subseteq plan.reads
  BY <1>1, <1>3, <1>5 DEF Unanswered, CommitAuthorised, Active, Budgeted
<1>7. \A k \in plan.reads : /\ k \in DOMAIN resources /\ Stamp(resources[k]) = Stamp(basis[k])
                            /\ k \in DOMAIN leases
                            /\ leases[k].owner = attempts[id].owner
                            /\ leases[k].token = lease_token
  BY <1>1, <1>3, <1>5 DEF ReadsFenced, Leased, Current
<1>8. \A k \in plan.reads : basis[k] = resources[k]
  <2> SUFFICES ASSUME NEW k \in plan.reads PROVE basis[k] = resources[k]
    OBVIOUS
  <2>1. k \in Key /\ k \in DOMAIN basis
    BY DEF Inv, PastTables
  <2>2. basis[k].version = resources[k].version
    BY <1>7 DEF Stamp
  <2> QED
    BY <2>1, <2>2 DEF Inv, PastBehind
<1>9. current = Snapshot(basis, plan.reads)
  BY <1>8 DEF Snapshot
<1>10. /\ WritesValid(new) /\ LoopAllowed(w, Transition(current, new))
       /\ RulesAllow(workflows[w].specification.invariants, current, new)
       /\ \A a \in acknowledgements : a.id \in DOMAIN deliveries
  BY <1>1, <1>5 DEF ContentAllowed, AcknowledgeAllowed, Held
<1>11. /\ resources' = Upsert(resources, new)
       /\ transitions' = Counted(w, Transition(current, new))
       /\ deliveries' = Consumed(StageEnvelopes(w, op, plan.envelopes), acknowledgements)
       /\ attempts' = [attempts EXCEPT ![id].status = "committed"]
       /\ UNCHANGED <<lease_sequence, leases, workflows, run_jobs, task_outcomes, channels>>
  BY <1>1, <1>2, <1>4 DEF Commit, leaseVars
<1>12. \E receipt :
         /\ operations' = Insert(operations, <<w, op>>, receipt)
         /\ receipt.resources = new
         /\ receipt.envelope_ids = {<<w, op, e.id>> : e \in plan.envelopes}
         /\ DOMAIN receipt.fingerprint.reads = plan.reads
         /\ receipt.fingerprint.acknowledged = {a.id : a \in acknowledgements}
  <2> DEFINE receipt == [fingerprint |-> Fingerprint(r), resources |-> new,
                         envelope_ids |-> {<<w, op, e.id>> : e \in plan.envelopes}]
  <2>1. operations' = Insert(operations, <<w, op>>, receipt)
    BY <1>1, <1>2, <1>4 DEF Commit
  <2>2. /\ receipt.resources = new
        /\ receipt.envelope_ids = {<<w, op, e.id>> : e \in plan.envelopes}
        /\ receipt.fingerprint = Fingerprint(r)
    OBVIOUS
  <2>3. /\ Fingerprint(r).reads = r.reads
        /\ Fingerprint(r).acknowledged = {a.id : a \in acknowledgements}
    BY <1>1 DEF Fingerprint
  <2> HIDE DEF receipt
  <2> QED
    BY <1>3, <2>1, <2>2, <2>3
<1>13. \E e :
         /\ journal' = Append(journal, e)
         /\ e.workflow = w /\ e.operation = op /\ e.owner = attempts[id].owner
         /\ e.attempt = id /\ e.lease_token = lease_token
         /\ e.generation = attempts[id].generation
         /\ e.basis = ContentOf(current) /\ e.written = ContentOf(new)
  <2> DEFINE e == Entry(r, Snapshot(basis, plan.reads))
  <2>1. Prepared(r.writes) = new
    BY <1>1
  <2>2. /\ e.workflow = w /\ e.operation = op /\ e.owner = attempts[id].owner
        /\ e.attempt = id /\ e.lease_token = lease_token
        /\ e.generation = attempts[id].generation
        /\ e.basis = ContentOf(current) /\ e.written = ContentOf(new)
    BY <1>1, <1>9, <2>1 DEF Entry
  <2> HIDE DEF e
  <2>3. journal' = Append(journal, e)
    BY <1>2 DEF e
  <2> QED
    BY <2>2, <2>3
<1>14. Found(id, plan, lease_token, acknowledgements, w, op, current, new)
  BY <1>6, <1>7, <1>10 DEF Found
<1>15. Left(id, plan, lease_token, acknowledgements, w, op, current, new)
  BY <1>2, <1>11, <1>12, <1>13 DEF Left
<1> QED
  BY <1>9, <1>14, <1>15

\* An accepted commit keeps the invariant.
LEMMA CommitInv ==
  ASSUME Inv, NEW id \in DOMAIN attempts, NEW plan \in Plans, NEW basis \in past,
         NEW lease_token \in 1..lease_sequence, NEW execution_token, NEW acknowledgements,
         plan.reads \subseteq DOMAIN basis,
         SendCommit(id, plan, basis, lease_token, execution_token, acknowledgements)
  PROVE  Inv'
<1> DEFINE w == attempts[id].workflow
           op == attempts[id].operation
           current == Snapshot(resources, plan.reads)
           new == Prepared(plan.writes)
<1>0. /\ w = attempts[id].workflow /\ op = attempts[id].operation
      /\ current = Snapshot(resources, plan.reads) /\ new = Prepared(plan.writes)
  OBVIOUS
<1> HIDE DEF current, new, w, op
<1>00. /\ Found(id, plan, lease_token, acknowledgements, w, op, current, new)
      /\ Left(id, plan, lease_token, acknowledgements, w, op, current, new)
  BY <1>0, CommitFacts
<1>1. /\ w \in DOMAIN workflows /\ attempts[id].status = "pending"
      /\ <<w, op>> \notin DOMAIN operations
      /\ DOMAIN plan.writes \subseteq plan.reads /\ plan.reads \subseteq DOMAIN resources
      /\ \A k \in plan.reads : /\ k \in DOMAIN leases
                               /\ leases[k].owner = attempts[id].owner
                               /\ leases[k].token = lease_token
      /\ WritesValid(new)
      /\ LoopAllowed(w, Transition(current, new))
      /\ \A a \in acknowledgements : a.id \in DOMAIN deliveries
  BY <1>00 DEF Found
<1>2. /\ resources' = Upsert(resources, new)
      /\ transitions' = Counted(w, Transition(current, new))
      /\ deliveries' = Consumed(StageEnvelopes(w, op, plan.envelopes), acknowledgements)
      /\ attempts' = [attempts EXCEPT ![id].status = "committed"]
      /\ past' = past \union {resources'}
      /\ UNCHANGED <<clock, lease_sequence, leases, workflows, run_jobs, task_outcomes, channels>>
  BY <1>00 DEF Left
<1>3. PICK receipt :
        /\ operations' = Insert(operations, <<w, op>>, receipt)
        /\ receipt.resources = new
        /\ receipt.envelope_ids = {<<w, op, e.id>> : e \in plan.envelopes}
        /\ DOMAIN receipt.fingerprint.reads = plan.reads
        /\ receipt.fingerprint.acknowledged = {a.id : a \in acknowledgements}
  BY <1>00 DEF Left
<1>4. PICK e :
        /\ journal' = Append(journal, e)
        /\ e.workflow = w /\ e.operation = op /\ e.owner = attempts[id].owner
        /\ e.attempt = id /\ e.lease_token = lease_token
        /\ e.generation = attempts[id].generation
        /\ e.basis = ContentOf(current) /\ e.written = ContentOf(new)
  BY <1>00 DEF Left
<1>5. /\ IsTable(resources, Key, Resource) /\ LeaseTablesOK /\ RunTablesOK /\ MessagingTablesOK
      /\ CommitTablesOK /\ clock \in Nat /\ lease_sequence \in Nat /\ RunsOK
  BY DEF Inv, TypeOK, CoordinatorTablesOK, LeaseTablesOK, RunsOK
<1>6. /\ w \in Workflow /\ op \in Task
      /\ attempts[id].owner \in Owner
      /\ workflows[w].specification.repeat_limit \in Nat \ {0}
  <2>1. attempts[id] \in AttemptRow
    BY <1>5 DEF RunTablesOK
  <2>2. workflows[w] \in WorkflowRow
    BY <1>1, <1>5 DEF RunTablesOK, IsTable
  <2> QED
    BY <1>0, <2>1, <2>2 DEF AttemptRow, WorkflowRow
<1>7. /\ IsTable(new, Key, Resource)
      /\ DOMAIN new = DOMAIN plan.writes
      /\ \A k \in DOMAIN plan.writes : new[k].version = resources[k].version + 1
  <2>1. DOMAIN plan.writes \subseteq DOMAIN resources
    BY <1>1
  <2> QED
    BY <1>0, <1>1, <1>5, <2>1, PreparedTypes
<1>8. IsTable(current, Key, Resource) /\ DOMAIN current = plan.reads
  BY <1>0, <1>1, <1>5 DEF Snapshot, IsTable
<1>9. /\ IsTable(ContentOf(current), Key, Content) /\ DOMAIN ContentOf(current) = plan.reads
      /\ IsTable(ContentOf(new), Key, Content) /\ DOMAIN ContentOf(new) = DOMAIN plan.writes
  BY <1>7, <1>8, ContentOfTable
<1>10. PICK n : Appended(n, e) /\ Listed'
  BY <1>4, JournalGrows DEF Inv
<1>11. Transition(current, new) = [reads |-> e.basis, writes |-> e.written]
  BY <1>4 DEF Transition
<1>12. /\ IsTable(resources', Key, Resource)
       /\ DOMAIN resources' = DOMAIN resources
       /\ \A k \in DOMAIN resources :
            resources'[k] = IF k \in DOMAIN new THEN new[k] ELSE resources[k]
       /\ PastTables' /\ PastBehind' /\ StoredValuesConform'
  <2>1. DOMAIN new \subseteq DOMAIN resources
    BY <1>1, <1>7
  <2>2. \A k \in DOMAIN new : new[k].version = resources[k].version + 1
    BY <1>7
  <2> QED
    BY <1>1, <1>2, <1>5, <1>7, <2>1, <2>2, ResourcesWritten DEF Inv
<1>13. LeasesBehind' /\ LeasesInOrder'
  <2>1. \A k \in DOMAIN leases : leases[k].token \in Nat
    BY <1>5 DEF LeaseTablesOK, IsTable, LeaseRow
  <2>2. \A k \in DOMAIN e.basis :
          k \in DOMAIN leases /\ leases[k].token = e.lease_token /\ leases[k].owner = e.owner
    BY <1>1, <1>4, <1>9
  <2>3. e.lease_token \in 1..lease_sequence
    BY <1>4
  <2> QED
    BY <1>2, <1>5, <1>10, <2>1, <2>2, <2>3, LeasesCommitted DEF Inv
<1>14. GenerationsBehind' /\ TakeoversInOrder'
  <2>1. e.generation = Generation(e.workflow)
    BY <1>0, <1>1, <1>4 DEF Inv, PendingCurrent
  <2> QED
    BY <1>2, <1>5, <1>10, <2>1, TakeoversCommitted DEF Inv
<1>15. /\ RunsOK'
       /\ \A x, y : AttemptsOf(x, y)' = AttemptsOf(x, y)
       /\ \A i \in DOMAIN attempts :
            attempts'[i].status = IF i = id THEN "committed" ELSE attempts[i].status
  BY <1>1, <1>2, <1>5, AttemptCommitted
<1>16. ReceiptsCounted'
  <2>1. e.attempt \in AttemptsOf(e.workflow, e.operation)
    BY <1>0, <1>4 DEF AttemptsOf
  <2>2. <<e.workflow, e.operation>> \notin DOMAIN operations
    BY <1>1, <1>4
  <2>3. operations' = Insert(operations, <<e.workflow, e.operation>>, receipt)
    BY <1>3, <1>4
  <2>4. \A i \in DOMAIN attempts :
          attempts'[i].status = IF i = e.attempt THEN "committed" ELSE attempts[i].status
    BY <1>4, <1>15
  <2> QED
    BY <1>10, <1>15, <2>1, <2>2, <2>3, <2>4, ReceiptCommitted DEF Inv, AtomicCommits
<1>17. /\ TransitionsCounted' /\ TransitionKeys'
       /\ DOMAIN transitions' =
            DOMAIN transitions \union {<<e.workflow, [reads |-> e.basis, writes |-> e.written]>>}
       /\ \A t \in DOMAIN transitions' : transitions'[t] \in Nat \ {0}
  <2>1. \A t \in DOMAIN transitions : transitions[t] \in Nat \ {0}
    BY <1>5 DEF CommitTablesOK
  <2>2. /\ transitions' = Counted(e.workflow, [reads |-> e.basis, writes |-> e.written])
        /\ LoopAllowed(e.workflow, [reads |-> e.basis, writes |-> e.written])
        /\ e.workflow \in DOMAIN workflows
        /\ workflows[e.workflow].specification.repeat_limit \in Nat \ {0}
    BY <1>1, <1>2, <1>4, <1>6, <1>11
  <2> QED
    BY <1>2, <1>10, <2>1, <2>2, TransitionCommitted DEF Inv, AtomicCommits
<1>18. VersionsCounted'
  <2>1. \A k \in DOMAIN resources : resources[k].version \in Nat
    BY <1>5 DEF IsTable, Resource
  <2>2. \A k \in DOMAIN resources :
          resources'[k].version =
            resources[k].version + (IF k \in DOMAIN e.written THEN 1 ELSE 0)
    BY <1>4, <1>7, <1>9, <1>12, <2>1
  <2> QED
    BY <1>10, <1>12, <2>1, <2>2, VersionCommitted DEF Inv, AtomicCommits
<1>23. EnvelopesQueued'
  BY <1>1, <1>2, <1>3, EnvelopesCommitted DEF Inv, AtomicCommits
<1>24. DeltasKept'
  <2>1. DOMAIN new \subseteq DOMAIN current
    BY <1>1, <1>7, <1>8
  <2>2. RulesAllow(workflows[e.workflow].specification.invariants, current, new)
    BY <1>00, <1>4 DEF Found
  <2> QED
    BY <1>2, <1>4, <1>10, <2>1, <2>2, DeltasCommitted DEF Inv
<1>19. Recorded'
  <2> SUFFICES ASSUME NEW i \in DOMAIN journal'
               PROVE  /\ <<journal'[i].workflow, journal'[i].operation>> \in DOMAIN operations'
                      /\ TransitionOf(i)' \in DOMAIN transitions'
                      /\ DOMAIN journal'[i].written \subseteq DOMAIN resources'
                      /\ (journal[i].attempt \in
                            AttemptsOf(journal[i].workflow, journal[i].operation))'
    BY DEF Recorded
  <2>1. DOMAIN operations' = DOMAIN operations \union {<<w, op>>}
    BY <1>3 DEF Insert, Upsert
  <2>2. CASE i = n
    <3>1. journal'[i] = e
      BY <1>10, <2>2 DEF Appended
    <3>2. TransitionOf(i)' \in DOMAIN transitions'
      BY <1>17, <3>1 DEF TransitionOf
    <3>3. DOMAIN e.written \subseteq DOMAIN resources
      BY <1>1, <1>4, <1>9
    <3>4. id \in AttemptsOf(w, op)
      BY <1>0 DEF AttemptsOf
    <3> QED
      BY <1>4, <1>12, <1>15, <2>1, <3>1, <3>2, <3>3, <3>4
  <2>3. CASE i \in DOMAIN journal
    <3>1. journal'[i] = journal[i]
      BY <1>10, <2>3 DEF Appended
    <3>2. TransitionOf(i)' = TransitionOf(i)
      BY <3>1 DEF TransitionOf
    <3> QED
      BY <1>12, <1>15, <1>17, <2>1, <2>3, <3>1, <3>2 DEF Inv, Recorded
  <2> QED
    BY <1>10, <2>2, <2>3 DEF Appended
<1>20. MessagingTablesOK'
  BY <1>2, <1>5, <1>6, DeliveriesCommitted
<1>21. CommitTablesOK'
  <2>1. /\ DOMAIN operations' = DOMAIN operations \union {<<w, op>>}
        /\ operations'[<<w, op>>] = receipt
        /\ \A o \in DOMAIN operations \ {<<w, op>>} : operations'[o] = operations[o]
    BY <1>3 DEF Insert, Upsert
  <2>2. Receipt(receipt)
    <3>1. receipt.envelope_ids \subseteq DeliveryId
      BY <1>3, <1>6 DEF DeliveryId, Envelope
    <3>2. receipt.fingerprint.acknowledged \subseteq DeliveryId
      BY <1>1, <1>3, <1>5 DEF MessagingTablesOK, IsTable
    <3>3. DOMAIN receipt.fingerprint.reads \subseteq Key
      BY <1>1, <1>3, <1>5 DEF IsTable
    <3> QED
      BY <1>3, <1>7, <3>1, <3>2, <3>3 DEF Receipt
  <2>3. <<w, op>> \in Workflow \X Task
    BY <1>6
  <2>4. /\ DOMAIN operations' \subseteq Workflow \X Task
        /\ \A o \in DOMAIN operations' : Receipt(operations'[o])
    <3>1. /\ DOMAIN operations \subseteq Workflow \X Task
          /\ \A o \in DOMAIN operations : Receipt(operations[o])
      BY <1>5 DEF CommitTablesOK
    <3> QED
      BY <2>1, <2>2, <2>3, <3>1
  <2>5. \A t \in DOMAIN transitions' :
          /\ t[1] \in Workflow
          /\ IsTable(t[2].reads, Key, Content)
          /\ IsTable(t[2].writes, Key, Content)
          /\ transitions'[t] \in Nat \ {0}
    <3> DEFINE made == <<e.workflow, [reads |-> e.basis, writes |-> e.written]>>
    <3>1. made[1] = w /\ made[2].reads = ContentOf(current) /\ made[2].writes = ContentOf(new)
      BY <1>4
    <3>2. \A t \in DOMAIN transitions :
            t[1] \in Workflow /\ IsTable(t[2].reads, Key, Content)
            /\ IsTable(t[2].writes, Key, Content)
      BY <1>5 DEF CommitTablesOK
    <3> HIDE DEF made
    <3>3. DOMAIN transitions' = DOMAIN transitions \union {made}
      BY <1>17 DEF made
    <3> QED
      BY <1>6, <1>9, <1>17, <3>1, <3>2, <3>3
  <2> QED
    BY <2>4, <2>5 DEF CommitTablesOK, Receipt
<1>22. TypeOK'
  BY <1>2, <1>5, <1>12, <1>15, <1>20, <1>21
  DEF TypeOK, CoordinatorTablesOK, LeaseTablesOK, RunsOK
<1> QED
  BY <1>10, <1>12, <1>13, <1>14, <1>15, <1>16, <1>17, <1>18, <1>19, <1>22, <1>23, <1>24
  DEF Inv, AtomicCommits, RunsOK

-----------------------------------------------------------------------------
(* Every step.                                                               *)

\* A step on runs.
LEMMA RunStepInv ==
  ASSUME Inv, RunStep, RunsOK', RunsForward
  PROVE  Inv'
BY ElsewhereInv
DEF RunStep, Inv, TypeOK, CoordinatorTablesOK, MessagingTablesOK, messagingVars

\* A step on messages.
LEMMA MessageStepInv ==
  ASSUME Inv, MessageStep, MessagingTablesOK', DOMAIN deliveries' = DOMAIN deliveries
  PROVE  Inv'
<1>1. RunsOK
  BY DEF Inv, TypeOK, CoordinatorTablesOK, RunsOK
<1>2. /\ UNCHANGED <<workflows, attempts, run_jobs, task_outcomes>>
      /\ clock' \in Nat
      /\ UNCHANGED <<resources, leaseVars, commitVars, journal, past>>
  BY DEF MessageStep, runVars, Inv, TypeOK
<1>3. RunsOK' /\ RunsForward
  BY <1>1, <1>2, ClaimsKept DEF RunsOK, RunTablesOK
<1> QED
  BY <1>2, <1>3, ElsewhereInv

\* Time passes, or nothing happens.
LEMMA WaitInv ==
  ASSUME Inv, Wait \/ UNCHANGED vars
  PROVE  Inv'
<1>1. /\ RunsOK /\ MessagingTablesOK /\ clock \in Nat
  BY DEF Inv, TypeOK, CoordinatorTablesOK, RunsOK
<1>2. /\ UNCHANGED <<workflows, attempts, run_jobs, task_outcomes, channels, deliveries>>
      /\ UNCHANGED <<resources, leaseVars, commitVars, journal, past>>
      /\ clock' \in Nat
  BY <1>1 DEF Wait, Tick, vars, runVars, messagingVars
<1>3. RunsOK' /\ RunsForward /\ MessagingTablesOK'
  BY <1>1, <1>2, ClaimsKept DEF RunsOK, RunTablesOK, MessagingTablesOK
<1> QED
  BY <1>2, <1>3, ElsewhereInv

\* Every step keeps the invariant.
LEMMA NextInv == Inv /\ [Next]_vars => Inv'
<1> SUFFICES ASSUME Inv, [Next]_vars
             PROVE  Inv'
  OBVIOUS
<1>0. RunsOK /\ MessagingTablesOK /\ clock \in Nat
  BY DEF Inv, TypeOK, CoordinatorTablesOK, RunsOK
<1>1. ASSUME NEW key \in Key, NEW value \in Value, NEW s \in Schema, Create(key, value, s)
      PROVE  Inv'
  BY <1>1, CreateInv
<1>2. ASSUME NEW owner \in Owner, NEW plan \in Plans, NEW ttl \in LeaseTtl,
             Lease(owner, plan.reads, ttl)
      PROVE  Inv'
  BY <1>2, LeaseInv
<1>3. ASSUME NEW owner \in Owner, NEW token \in 1..lease_sequence, Unlease(owner, token)
      PROVE  Inv'
  BY <1>3, UnleaseInv
<1>4. ASSUME NEW w \in Workflow, NEW specification \in Specification, Start(w, specification)
      PROVE  Inv'
  BY <1>0, <1>4, CreateWorkflowForward, RunStepInv DEF Start
<1>5. ASSUME NEW w \in Workflow, NEW mode \in Mode, Submit(w, mode)
      PROVE  Inv'
  BY <1>0, <1>5, EnqueueForward, RunStepInv DEF Submit
<1>6. ASSUME NEW w \in Workflow, NEW scheduler \in Scheduler, NEW ttl \in ClaimTtl,
             TakeClaim(w, scheduler, ttl)
      PROVE  Inv'
  <2>1. ttl \in Nat
    BY RunAssumption
  <2> QED
    BY <1>0, <1>6, <2>1, ClaimRunForward, RunStepInv DEF TakeClaim
<1>7. ASSUME NEW w \in Workflow, NEW scheduler \in Scheduler, NEW generation \in 1..MaxGeneration,
             GiveUpClaim(w, scheduler, generation)
      PROVE  Inv'
  BY <1>0, <1>7, ReleaseRunForward, RunStepInv DEF GiveUpClaim
<1>8. ASSUME NEW w \in Workflow, NEW op \in Task, NEW owner \in Owner, NEW token \in ExecutionToken,
             Begin(w, op, owner, token)
      PROVE  Inv'
  BY <1>0, <1>8, BeginAttemptForward, RunStepInv DEF Begin
<1>9. ASSUME NEW id \in DOMAIN attempts, Abandon(id)
      PROVE  Inv'
  BY <1>0, <1>9, AbandonAttemptForward, RunStepInv DEF Abandon
<1>10. ASSUME NEW w \in DOMAIN workflows, NEW status \in Endings, NEW token \in ExecutionToken,
              End(w, status, token)
       PROVE  Inv'
  <2>1. status \in Terminal
    OBVIOUS
  <2>2. Finish(w, status, token) /\ RunStep
    BY <1>10 DEF End
  <2> QED
    BY <1>0, <2>1, <2>2, FinishForward, RunStepInv
<1>11. ASSUME Expire
       PROVE  Inv'
  BY <1>0, <1>11, ExpireRunsForward, RunStepInv DEF Expire
<1>12. ASSUME NEW destination \in Destination, NEW kind \in Kind, NEW version \in ChannelVersion,
              NEW s \in Schema, Register(destination, kind, version, s)
       PROVE  Inv'
  <2>1. RegisterChannel(destination, kind, version, s) /\ MessageStep
    BY <1>12 DEF Register
  <2>2. DOMAIN deliveries' = DOMAIN deliveries
    BY <2>1 DEF RegisterChannel
  <2> QED
    BY <1>0, <2>1, <2>2, RegisterChannelTypes, MessageStepInv
<1>13. ASSUME NEW id \in DOMAIN deliveries, NEW kind \in Kind, NEW destination \in Destination,
              NEW owner \in Owner, NEW ttl \in DeliveryTtl, NEW W \in Limits,
              Receive(id, kind, destination, owner, ttl, W)
       PROVE  Inv'
  <2>1. ClaimDelivery(id, kind, destination, owner, ttl, W) /\ MessageStep
    BY <1>13 DEF Receive
  <2>2. ttl \in Nat
    BY MessagingAssumption
  <2>3. DOMAIN deliveries' = DOMAIN deliveries
    BY <2>1 DEF ClaimDelivery, ClaimUpdate
  <2> QED
    BY <1>0, <2>1, <2>2, <2>3, ClaimDeliveryTypes, MessageStepInv
<1>14. ASSUME NEW id \in DOMAIN deliveries, NEW owner \in Owner,
              NEW token \in 1..MaxDeliveryAttempts, NEW retry_after \in RetryAfter,
              Refuse(id, owner, token, retry_after)
       PROVE  Inv'
  <2>1. RejectDelivery(id, owner, token, retry_after) /\ MessageStep
    BY <1>14 DEF Refuse
  <2>2. retry_after \in Nat
    BY MessagingAssumption
  <2>3. DOMAIN deliveries' = DOMAIN deliveries
    BY <2>1 DEF RejectDelivery
  <2> QED
    BY <1>0, <2>1, <2>2, <2>3, RejectDeliveryTypes, MessageStepInv
<1>15. ASSUME NEW id \in DOMAIN attempts, NEW plan \in Plans, NEW basis \in past,
              NEW lease_token \in 1..lease_sequence, NEW execution_token \in ExecutionToken,
              NEW acknowledgements \in Acknowledgements, plan.reads \subseteq DOMAIN basis,
              SendCommit(id, plan, basis, lease_token, execution_token, acknowledgements)
       PROVE  Inv'
  BY <1>15, CommitInv
<1>16. CASE Wait \/ UNCHANGED vars
  BY <1>16, WaitInv
<1>17. ASSUME NEW w \in Workflow, NEW scheduler \in Scheduler, NEW generation \in 1..MaxGeneration,
              NEW ttl \in ClaimTtl, Renew(w, scheduler, generation, ttl)
       PROVE  Inv'
  <2>1. ttl \in Nat
    BY RunAssumption
  <2> QED
    BY <1>0, <1>17, <2>1, RenewRunForward, RunStepInv DEF Renew
<1>18. ASSUME NEW w \in DOMAIN workflows, NEW op \in Task, NEW outcome \in Outcome,
              NEW generation \in ExecutionToken, Save(w, op, outcome, generation)
       PROVE  Inv'
  <2>1. w \in Workflow
    BY <1>0 DEF RunsOK, RunTablesOK, IsTable
  <2> QED
    BY <1>0, <1>18, <2>1, SaveOutcomeForward, RunStepInv DEF Save
<1>19. ASSUME NEW kind \in Kind, NEW destination \in Destination, NEW W \in Limits,
              FindNothing(kind, destination, W)
       PROVE  Inv'
  <2>1. ClaimNothing(kind, destination, W) /\ MessageStep
    BY <1>19 DEF FindNothing
  <2>2. DOMAIN deliveries' = DOMAIN deliveries
    BY <2>1 DEF ClaimNothing, ClaimUpdate
  <2> QED
    BY <1>0, <2>1, <2>2, ClaimNothingTypes, MessageStepInv
<1>20. ASSUME NEW id \in DOMAIN deliveries, NEW owner \in Owner,
              NEW token \in 1..MaxDeliveryAttempts, Confirm(id, owner, token)
       PROVE  Inv'
  <2>1. Acknowledge(id, owner, token) /\ MessageStep
    BY <1>20 DEF Confirm
  <2>2. DOMAIN deliveries' = DOMAIN deliveries
    BY <2>1 DEF Acknowledge
  <2> QED
    BY <1>0, <2>1, <2>2, AcknowledgeTypes, MessageStepInv
<1> QED
  BY <1>1, <1>2, <1>3, <1>4, <1>5, <1>6, <1>7, <1>8, <1>9, <1>10, <1>11, <1>12, <1>13, <1>14,
     <1>15, <1>16, <1>17, <1>18, <1>19, <1>20
  DEF Next

\* Inv is an invariant of the coordinator and its clients.
THEOREM InvHolds == Spec => []Inv
<1> QED
  BY InitInv, NextInv, PTL DEF Spec

-----------------------------------------------------------------------------
(* The properties.                                                           *)

\* Every table of the coordinator keeps its type, receipts and counters included,
\* whatever clients send.
THEOREM TypeCorrect == Spec => []TypeOK
<1>1. Inv => TypeOK
  BY DEF Inv
<1> QED
  BY <1>1, InvHolds, PTL

\* A commit leaves its receipt, its committed attempt, its loop count and the new
\* versions together, and an operation commits at most once, however many attempts,
\* owners and retries it has.
THEOREM CommitsAtomic == Spec => []AtomicCommits
<1>1. Inv => AtomicCommits
  BY DEF Inv
<1> QED
  BY <1>1, InvHolds, PTL

\* Lease tokens fence commits: an owner whose lease ran out and was granted anew
\* never commits after the new owner has.
THEOREM LeasesFence == Spec => []LeasesInOrder
<1>1. Inv => LeasesInOrder
  BY DEF Inv
<1> QED
  BY <1>1, InvHolds, PTL

\* Execution tokens fence commits: the attempts of a scheduler that lost a run do
\* not commit after those of the one that took it over.
THEOREM TakeoversFence == Spec => []TakeoversInOrder
<1>1. Inv => TakeoversInOrder
  BY DEF Inv
<1> QED
  BY <1>1, InvHolds, PTL

\* Resources conform to their schemas, through migrations that change both.
THEOREM ValuesConform == Spec => []StoredValuesConform
<1>1. Inv => StoredValuesConform
  BY DEF Inv
<1> QED
  BY <1>1, InvHolds, PTL

\* No run repeats a transition beyond its limit, whatever operations it uses.
THEOREM LoopsEnd == Spec => []LoopsBounded
<1>1. Inv => LoopsBounded
  <2> SUFFICES ASSUME Inv, NEW i \in DOMAIN journal
               PROVE  Cardinality(CommitsMaking(TransitionOf(i))) <=
                        workflows[journal[i].workflow].specification.repeat_limit
    BY DEF LoopsBounded, TransitionOf
  <2>1. TransitionOf(i) \in DOMAIN transitions /\ TransitionOf(i)[1] = journal[i].workflow
    BY DEF Inv, Recorded, TransitionOf
  <2>2. transitions[TransitionOf(i)] = Cardinality(CommitsMaking(TransitionOf(i)))
    BY <2>1 DEF Inv, AtomicCommits, TransitionsCounted
  <2>3. transitions[TransitionOf(i)] <= workflows[journal[i].workflow].specification.repeat_limit
    BY <2>1 DEF Inv, TransitionKeys
  <2> QED
    BY <2>2, <2>3
<1> QED
  BY <1>1, InvHolds, PTL

-----------------------------------------------------------------------------
(* The refinement.                                                           *)

\* Steps that are no commits and no creations change neither store nor log.
LEMMA OtherStepsStutter ==
  ASSUME UNCHANGED <<resources, journal>>
  PROVE  UNCHANGED <<ContentOf(resources), Log>>
BY DEF ContentOf, Log

\* A creation is one of the store.
LEMMA CreateRefines ==
  ASSUME Inv, NEW key \in Key, NEW value \in Value, NEW s \in Schema, Create(key, value, s)
  PROVE  Atomic!Next
<1> DEFINE content == [value |-> value, json_schema |-> s]
           row == [value |-> value, json_schema |-> s, version |-> 1, schema_version |-> 1]
<1>1. /\ key \notin DOMAIN resources
      /\ resources' = Insert(resources, key, row)
      /\ UNCHANGED journal
  BY DEF Create, CreateResource
<1>2. row.value = value /\ row.json_schema = s /\ content \in Content
  BY DEF Content
<1> HIDE DEF row
<1>3. /\ DOMAIN resources' = DOMAIN resources \union {key}
      /\ \A k \in DOMAIN resources' : resources'[k] = IF k = key THEN row ELSE resources[k]
  BY <1>1 DEF Insert, Upsert
<1>4. ContentOf(resources)' =
        [k \in DOMAIN ContentOf(resources) \union {key} |->
          IF k = key THEN content ELSE ContentOf(resources)[k]]
  BY <1>2, <1>3 DEF ContentOf
<1>5. key \notin DOMAIN ContentOf(resources) /\ UNCHANGED Log
  BY <1>1 DEF ContentOf, Log
<1>6. Atomic!Create(key, content)
  BY <1>4, <1>5 DEF Atomic!Create
<1> QED
  BY <1>2, <1>6 DEF Atomic!Next

\* A commit is an operation of the store that reads it as it is.
LEMMA CommitRefines ==
  ASSUME Inv, NEW id \in DOMAIN attempts, NEW plan \in Plans, NEW basis \in past,
         NEW lease_token, NEW execution_token, NEW acknowledgements,
         plan.reads \subseteq DOMAIN basis,
         SendCommit(id, plan, basis, lease_token, execution_token, acknowledgements)
  PROVE  Atomic!Next
<1> DEFINE w == attempts[id].workflow
           op == attempts[id].operation
           current == Snapshot(resources, plan.reads)
           new == Prepared(plan.writes)
           operation == <<w, op>>
           writes == ContentOf(new)
           logged == [operation |-> operation,
                      read |-> [k \in plan.reads |-> ContentOf(resources)[k]],
                      written |-> writes]
<1>0. /\ w = attempts[id].workflow /\ op = attempts[id].operation
      /\ current = Snapshot(resources, plan.reads) /\ new = Prepared(plan.writes)
  OBVIOUS
<1> HIDE DEF w, op, current, new
<1>1. /\ Found(id, plan, lease_token, acknowledgements, w, op, current, new)
      /\ Left(id, plan, lease_token, acknowledgements, w, op, current, new)
  BY <1>0, CommitFacts
<1>2. PICK e : /\ journal' = Append(journal, e)
               /\ e.workflow = w /\ e.operation = op
               /\ e.basis = ContentOf(current) /\ e.written = writes
  BY <1>1 DEF Left
<1>3. /\ IsTable(resources, Key, Resource) /\ attempts[id] \in AttemptRow
      /\ DOMAIN plan.writes \subseteq plan.reads /\ plan.reads \subseteq DOMAIN resources
      /\ WritesValid(new)
  BY <1>1 DEF Inv, TypeOK, CoordinatorTablesOK, RunTablesOK, Found
<1>4. IsTable(new, Key, Resource) /\ DOMAIN new = DOMAIN plan.writes
  <2>1. DOMAIN plan.writes \subseteq DOMAIN resources
    BY <1>3
  <2> QED
    BY <1>0, <1>3, <2>1, PreparedTypes
<1>5. IsTable(writes, Key, Content) /\ DOMAIN writes = DOMAIN plan.writes
  BY <1>4, ContentOfTable
<1>6. operation \in Workflow \X Task
  BY <1>0, <1>3 DEF AttemptRow
<1>7. ContentOf(current) = [k \in plan.reads |-> ContentOf(resources)[k]]
  BY <1>0, <1>3 DEF ContentOf, Snapshot
<1>8. \A i \in DOMAIN Log : Log[i].operation # operation
  <2>1. operation \notin DOMAIN operations
    BY <1>1 DEF Found
  <2>2. \A i \in DOMAIN journal : <<journal[i].workflow, journal[i].operation>> \in DOMAIN operations
    BY DEF Inv, Recorded
  <2>3. DOMAIN Log = DOMAIN journal
        /\ \A i \in DOMAIN journal : Log[i].operation = <<journal[i].workflow, journal[i].operation>>
    BY DEF Log
  <2> HIDE DEF operation
  <2> QED
    BY <2>1, <2>2, <2>3
<1>9. ContentOf(resources)' =
        [k \in DOMAIN ContentOf(resources) |->
          IF k \in DOMAIN writes THEN writes[k] ELSE ContentOf(resources)[k]]
  <2>1. resources' = Upsert(resources, new)
    BY <1>1 DEF Left
  <2>2. /\ DOMAIN resources' = DOMAIN resources
        /\ \A k \in DOMAIN resources :
             resources'[k] = IF k \in DOMAIN new THEN new[k] ELSE resources[k]
    BY <1>3, <1>4, <2>1 DEF Upsert
  <2> QED
    BY <2>2 DEF ContentOf
<1>10. Log' = Append(Log, logged)
  <2> DEFINE n == Len(journal) + 1
             S == {Log[i] : i \in DOMAIN Log}
  <2>1. Appended(n, e) /\ Listed' /\ Listed
    BY <1>2, JournalGrows DEF Inv
  <2>2. /\ DOMAIN journal = 1..Len(journal) /\ Len(journal) \in Nat
        /\ DOMAIN journal' = 1..n
    BY <2>1 DEF Listed, Appended
  <2>3. DOMAIN Log = 1..Len(journal) /\ DOMAIN Log' = 1..n
    BY <2>2 DEF Log
  <2>4. Log \in Seq(S) /\ Len(Log) = Len(journal)
    BY <2>2, <2>3 DEF Log
  <2>5. /\ DOMAIN Append(Log, logged) = 1..n
        /\ Append(Log, logged)[n] = logged
        /\ \A i \in 1..Len(journal) : Append(Log, logged)[i] = Log[i]
    BY <2>2, <2>4
  <2>6. Log'[n] = logged
    BY <1>2, <1>7, <2>1, <2>2 DEF Log, Appended
  <2>7. \A i \in 1..Len(journal) : Log'[i] = Log[i]
    BY <2>1, <2>2 DEF Log, Appended
  <2> DEFINE longer == Append(Log, logged)
  <2>8. longer = [i \in 1..n |-> longer[i]]
    BY <2>4, <2>5
  <2>9. Log' = [i \in 1..n |-> Log'[i]]
    BY <2>2 DEF Log
  <2>10. 1..n = 1..Len(journal) \union {n}
    BY <2>2
  <2>11. longer[n] = Log'[n] /\ \A i \in 1..Len(journal) : longer[i] = Log'[i]
    BY <2>5, <2>6, <2>7
  <2> HIDE DEF longer
  <2>12. \A i \in 1..n : Log'[i] = longer[i]
    BY <2>10, <2>11
  <2>13. Log' = longer
    BY <2>8, <2>9, <2>12
  <2> QED
    BY <2>13 DEF longer
<1>11. /\ plan.reads \in SUBSET Key
       /\ plan.reads \subseteq DOMAIN ContentOf(resources)
       /\ writes \in Atomic!Tables
  BY <1>3, <1>5 DEF IsTable, ContentOf, Atomic!Tables
<1>12. Atomic!Apply(operation, plan.reads, writes)
  BY <1>3, <1>5, <1>8, <1>9, <1>10, <1>11 DEF Atomic!Apply
<1> QED
  BY <1>6, <1>11, <1>12 DEF Atomic!Next

\* The coordinator implements AtomicStore: whatever its clients plan on, and however
\* leases, attempts, runs and claims come and go, every accepted commit is one
\* indivisible operation on the contents it read, and none is applied twice.
THEOREM Serial == Spec => SerialCommits
<1>1. Init => Atomic!Init
  <2> SUFFICES ASSUME Init PROVE Atomic!Init
    OBVIOUS
  <2>1. IsTable(ContentOf(resources), Key, Content)
    BY ContentOfTable DEF Init
  <2>2. Log = <<>>
    BY DEF Init, Log
  <2> QED
    BY <2>1, <2>2 DEF Atomic!Init, Atomic!Tables, IsTable
<1>2. Inv /\ [Next]_vars => [Atomic!Next]_<<ContentOf(resources), Log>>
  <2> SUFFICES ASSUME Inv, [Next]_vars
               PROVE  Atomic!Next \/ UNCHANGED <<ContentOf(resources), Log>>
    OBVIOUS
  <2>1. ASSUME NEW key \in Key, NEW value \in Value, NEW s \in Schema, Create(key, value, s)
        PROVE  Atomic!Next
    BY <2>1, CreateRefines
  <2>2. ASSUME NEW id \in DOMAIN attempts, NEW plan \in Plans, NEW basis \in past,
               NEW lease_token, NEW execution_token, NEW acknowledgements,
               plan.reads \subseteq DOMAIN basis,
               SendCommit(id, plan, basis, lease_token, execution_token, acknowledgements)
        PROVE  Atomic!Next
    BY <2>2, CommitRefines
  <2>3. \/ UNCHANGED <<resources, journal>>
        \/ \E key \in Key, value \in Value, s \in Schema : Create(key, value, s)
        \/ \E id \in DOMAIN attempts, plan \in Plans, basis \in past,
              lease_token \in 1..lease_sequence, execution_token \in ExecutionToken,
              acknowledgements \in Acknowledgements :
             /\ plan.reads \subseteq DOMAIN basis
             /\ SendCommit(id, plan, basis, lease_token, execution_token, acknowledgements)
    BY DEF Next, vars, Lease, Unlease, RunStep, Start, Submit, TakeClaim, GiveUpClaim, Renew,
           Save, Begin, Abandon, End, Expire, MessageStep, Register, Receive, FindNothing, Confirm,
           Refuse, Wait
  <2> QED
    BY <2>1, <2>2, <2>3, OtherStepsStutter
<1> QED
  BY <1>1, <1>2, InvHolds, PTL DEF Spec, SerialCommits, Atomic!Spec

-----------------------------------------------------------------------------
(* What messages need, beside Inv: a message is consumed after it was         *)
(* produced, and under one claim, whoever lost or refused it before.         *)

\* A delivery comes from an operation that has committed.
Produced == \A d \in DOMAIN deliveries : <<d[1], d[2]>> \in DOMAIN operations

\* What was acknowledged exists, so a new delivery has no consumer.
Acknowledged ==
  \A i \in DOMAIN journal : \A a \in journal[i].acknowledgements : a.id \in DOMAIN deliveries

ConsumptionInv == Produced /\ Acknowledged /\ ConsumedUnderOneClaim

\* A step that commits nothing leaves delivered rows alone.
DeliveredKept ==
  /\ DOMAIN deliveries' = DOMAIN deliveries
  /\ \A d \in DOMAIN deliveries :
       deliveries[d].status = "delivered" => deliveries'[d] = deliveries[d]

\* There are no deliveries at first.
LEMMA InitConsumption == Init => ConsumptionInv
<1> SUFFICES ASSUME Init PROVE ConsumptionInv
  OBVIOUS
<1>1. DOMAIN deliveries = {} /\ DOMAIN journal = {}
  BY DEF IsTable, EmptyTable, Init, MessagingTablesInit
<1> QED
  BY <1>1 DEF ConsumptionInv, Produced, Acknowledged, ConsumedUnderOneClaim

\* A step that commits nothing keeps the invariant.
LEMMA KeptConsumption ==
  ASSUME ConsumptionInv, DeliveredKept, UNCHANGED <<operations, journal>>
  PROVE  ConsumptionInv'
<1>1. Produced' /\ Acknowledged'
  BY DEF ConsumptionInv, Produced, Acknowledged, DeliveredKept
<1>2. \A d, w, op : Consumers(d)' = Consumers(d) /\ CommitsOf(w, op)' = CommitsOf(w, op)
  BY DEF Consumers, CommitsOf
<1>3. ConsumedUnderOneClaim'
  <2> SUFFICES ASSUME NEW d \in DOMAIN deliveries
               PROVE  /\ Consumers(d) # {} => deliveries'[d].status = "delivered"
                      /\ \A i \in Consumers(d) :
                           /\ \E j \in CommitsOf(d[1], d[2]) : j < i
                           /\ journal[i].workflow = d[1]
                           /\ \A a \in journal[i].acknowledgements : a.id = d =>
                                a.owner = deliveries'[d].owner /\ a.token = deliveries'[d].token
    BY <1>2 DEF ConsumedUnderOneClaim, DeliveredKept
  <2>1. /\ Consumers(d) # {} => deliveries[d].status = "delivered"
        /\ \A i \in Consumers(d) :
             /\ \E j \in CommitsOf(d[1], d[2]) : j < i
             /\ journal[i].workflow = d[1]
             /\ \A a \in journal[i].acknowledgements : a.id = d =>
                  a.owner = deliveries[d].owner /\ a.token = deliveries[d].token
    BY DEF ConsumptionInv, ConsumedUnderOneClaim
  <2> QED
    BY <2>1 DEF DeliveredKept
<1> QED
  BY <1>1, <1>3 DEF ConsumptionInv

\* Receiving takes and buries only what waits.
LEMMA ReceiveKeepsDelivered ==
  ASSUME MessagingTablesOK, clock \in Nat, NEW id, NEW kind, NEW destination,
         NEW owner \in Owner, NEW ttl \in DeliveryTtl, NEW W,
         ClaimDelivery(id, kind, destination, owner, ttl, W)
  PROVE  DeliveredKept
<1>1. /\ id \in Eligible(kind, destination, W)
      /\ DOMAIN deliveries' = DOMAIN deliveries
      /\ \A d \in DOMAIN deliveries :
           deliveries'[d] = IF d \in Exhausted(kind, destination) THEN Buried(deliveries[d])
                            ELSE IF d \in {id} THEN Claimed(deliveries[d], owner, ttl)
                            ELSE deliveries[d]
  BY DEF ClaimDelivery, ClaimUpdate, Oldest
<1>2. \A d \in Exhausted(kind, destination) \union {id} : deliveries[d].status # "delivered"
  BY <1>1 DEF Exhausted, Eligible, WaitingAt, Waiting
<1>3. \A d \in DOMAIN deliveries :
        /\ Buried(deliveries[d]).status = "dead"
        /\ Claimed(deliveries[d], owner, ttl).status = "inflight"
  <2>1. \A d \in DOMAIN deliveries : deliveries[d] \in DeliveryRow
    BY DEF MessagingTablesOK, IsTable
  <2>2. ttl \in Nat
    BY MessagingAssumption
  <2> QED
    BY <2>1, <2>2, RowUpdates
<1> QED
  BY <1>1, <1>2, <1>3 DEF DeliveredKept

\* Rejecting returns only what is in flight.
LEMMA RefuseKeepsDelivered ==
  ASSUME MessagingTablesOK, clock \in Nat, NEW id, NEW owner \in Owner, NEW token,
         NEW retry_after \in RetryAfter, RejectDelivery(id, owner, token, retry_after)
  PROVE  DeliveredKept
<1>1. /\ id \in DOMAIN deliveries /\ deliveries[id].status = "inflight"
      /\ deliveries' = [deliveries EXCEPT ![id] = Returned(deliveries[id], retry_after)]
  BY DEF RejectDelivery, Held, InFlight
<1>2. Returned(deliveries[id], retry_after).status # "delivered"
  <2>1. deliveries[id] \in DeliveryRow /\ retry_after \in Nat
    BY <1>1, MessagingAssumption DEF MessagingTablesOK, IsTable
  <2> QED
    BY <2>1, RowUpdates
<1> QED
  BY <1>1, <1>2 DEF DeliveredKept

\* Confirming delivers what is in flight, and leaves what is delivered.
LEMMA ConfirmKeepsDelivered ==
  ASSUME MessagingTablesOK, NEW id, NEW owner, NEW token, Acknowledge(id, owner, token)
  PROVE  DeliveredKept
<1>1. /\ id \in DOMAIN deliveries /\ deliveries[id] \in DeliveryRow
      /\ deliveries' = [deliveries EXCEPT ![id] = Delivered(deliveries[id])]
  BY DEF Acknowledge, AcknowledgeAllowed, Held, MessagingTablesOK, IsTable
<1>2. deliveries[id].status = "delivered" => Delivered(deliveries[id]) = deliveries[id]
  BY <1>1 DEF Delivered, DeliveryRow
<1> QED
  BY <1>1, <1>2 DEF DeliveredKept

\* A claim that takes nothing buries only what waits.
LEMMA FindNothingKeepsDelivered ==
  ASSUME NEW kind, NEW destination, NEW W, ClaimNothing(kind, destination, W)
  PROVE  DeliveredKept
BY DEF ClaimNothing, ClaimUpdate, Exhausted, WaitingAt, Waiting, DeliveredKept

-----------------------------------------------------------------------------
(* A commit that consumes.                                                   *)

\* What a commit acknowledges is of its run, and held under the claim it names.
LEMMA CommitAcknowledges ==
  ASSUME NEW id \in DOMAIN attempts, NEW plan, NEW basis, NEW lease_token,
         NEW execution_token, NEW acknowledgements,
         SendCommit(id, plan, basis, lease_token, execution_token, acknowledgements)
  PROVE  /\ \A a \in acknowledgements :
              /\ a.id \in DOMAIN deliveries
              /\ a.id[1] = attempts[id].workflow
              /\ deliveries[a.id].owner = a.owner /\ deliveries[a.id].token = a.token
         /\ \E e : /\ journal' = Append(journal, e)
                   /\ e.workflow = attempts[id].workflow /\ e.operation = attempts[id].operation
                   /\ e.acknowledgements = acknowledgements
<1> DEFINE r == Request(id, plan, basis, lease_token, execution_token, acknowledgements)
           e == Entry(r, Snapshot(basis, plan.reads))
<1>1. /\ r.workflow = attempts[id].workflow /\ r.operation = attempts[id].operation
      /\ r.acknowledgements = acknowledgements
  BY DEF Request
<1>2. Commit(r) /\ journal' = Append(journal, e)
  BY DEF SendCommit
<1> HIDE DEF r
<1>3. \A a \in acknowledgements :
        AcknowledgeAllowed(a.id, a.owner, a.token) /\ InScope(a.id, attempts[id].workflow)
  BY <1>1, <1>2 DEF Commit, CommitAllowed, ContentAllowed
<1>4. /\ e.workflow = attempts[id].workflow /\ e.operation = attempts[id].operation
      /\ e.acknowledgements = acknowledgements
  BY <1>1 DEF Entry
<1> HIDE DEF e
<1> QED
  BY <1>2, <1>3, <1>4 DEF AcknowledgeAllowed, Held, InScope

\* A commit that consumes messages and publishes others keeps it.
LEMMA CommitConsumption ==
  ASSUME Inv, ConsumptionInv, NEW id \in DOMAIN attempts, NEW plan \in Plans, NEW basis \in past,
         NEW lease_token, NEW execution_token, NEW acknowledgements,
         plan.reads \subseteq DOMAIN basis,
         SendCommit(id, plan, basis, lease_token, execution_token, acknowledgements)
  PROVE  ConsumptionInv'
<1> DEFINE w == attempts[id].workflow
           op == attempts[id].operation
           current == Snapshot(resources, plan.reads)
           new == Prepared(plan.writes)
           rows == StagedRows(w, op, plan.envelopes)
           acked(d) == \E a \in acknowledgements : a.id = d
<1>0. /\ w = attempts[id].workflow /\ op = attempts[id].operation
      /\ current = Snapshot(resources, plan.reads) /\ new = Prepared(plan.writes)
  OBVIOUS
<1> HIDE DEF w, op, current, new
<1>1. /\ Found(id, plan, lease_token, acknowledgements, w, op, current, new)
      /\ Left(id, plan, lease_token, acknowledgements, w, op, current, new)
  BY <1>0, CommitFacts
<1>2. \A a \in acknowledgements :
        /\ a.id \in DOMAIN deliveries /\ a.id[1] = w
        /\ deliveries[a.id].owner = a.owner /\ deliveries[a.id].token = a.token
  BY <1>0, CommitAcknowledges
<1>3. PICK e : /\ journal' = Append(journal, e)
               /\ e.workflow = w /\ e.acknowledgements = acknowledgements
  BY <1>0, CommitAcknowledges
<1>4. PICK n : Appended(n, e)
  BY <1>3, JournalGrows DEF Inv
<1>5. /\ IsTable(deliveries, DeliveryId, DeliveryRow) /\ clock \in Nat
      /\ attempts[id] \in AttemptRow
  BY DEF Inv, TypeOK, CoordinatorTablesOK, MessagingTablesOK, RunTablesOK
<1>6. /\ \A d \in DOMAIN rows : d[1] = w /\ d[2] = op /\ rows[d].status = "pending"
      /\ \A d \in DOMAIN rows : d \notin DOMAIN deliveries
  <2>1. w \in Workflow /\ op \in Task
    BY <1>0, <1>5 DEF AttemptRow
  <2>2. \A d \in DOMAIN rows : d[1] = w /\ d[2] = op /\ rows[d].status = "pending"
    BY <1>5, <2>1, StagedRowsTypes
  <2>3. <<w, op>> \notin DOMAIN operations
    BY <1>1 DEF Found
  <2> QED
    BY <2>2, <2>3 DEF ConsumptionInv, Produced
<1> HIDE DEF rows
<1>7. /\ DOMAIN deliveries' = DOMAIN deliveries \union DOMAIN rows
      /\ \A d \in DOMAIN deliveries :
           deliveries'[d] = IF acked(d) THEN Delivered(deliveries[d]) ELSE deliveries[d]
      /\ \A d \in DOMAIN rows : deliveries'[d] = rows[d]
  <2>1. deliveries' = Consumed(Upsert(deliveries, rows), acknowledgements)
    BY <1>1 DEF Left, StageEnvelopes, rows
  <2>2. \A d \in DOMAIN rows : ~acked(d)
    BY <1>2, <1>6
  <2> QED
    BY <1>6, <2>1, <2>2 DEF Consumed, Upsert
<1>8. DOMAIN operations' = DOMAIN operations \union {<<w, op>>}
  BY <1>1 DEF Left, Insert, Upsert
<1>9. Produced'
  BY <1>6, <1>7, <1>8 DEF ConsumptionInv, Produced
<1>10. Acknowledged'
  BY <1>2, <1>3, <1>4, <1>7 DEF ConsumptionInv, Acknowledged, Appended
<1>11. \A d : Consumers(d)' = IF acked(d) THEN Consumers(d) \union {n} ELSE Consumers(d)
  BY <1>3, <1>4 DEF Consumers, Appended
<1>12. \A x, y : CommitsOf(x, y) \subseteq CommitsOf(x, y)'
  BY <1>4 DEF CommitsOf, Appended
<1>13. ASSUME NEW d \in DOMAIN deliveries
       PROVE  \E j \in CommitsOf(d[1], d[2]) : j < n
  <2>1. <<d[1], d[2]>> \in DOMAIN operations /\ d[1] \in Workflow /\ d[2] \in Task
    BY <1>5 DEF ConsumptionInv, Produced, IsTable, DeliveryId
  <2>2. Cardinality(CommitsOf(d[1], d[2])) = 1
    BY <2>1 DEF Inv, AtomicCommits, ReceiptsCounted
  <2>3. CommitsOf(d[1], d[2]) # {}
    <3> DEFINE S == CommitsOf(d[1], d[2])
    <3>1. Cardinality(S) = 1
      BY <2>2
    <3> HIDE DEF S
    <3>2. Cardinality({}) = 0
      BY FS_EmptySet
    <3>3. S # {}
      BY <3>1, <3>2
    <3> QED
      BY <3>3 DEF S
  <2> QED
    BY <1>4, <2>3 DEF CommitsOf, Appended
<1> HIDE DEF acked
<1>14. ConsumedUnderOneClaim'
  <2> SUFFICES ASSUME NEW d \in DOMAIN deliveries'
               PROVE  /\ Consumers(d)' # {} => deliveries'[d].status = "delivered"
                      /\ \A i \in Consumers(d)' :
                           /\ \E j \in CommitsOf(d[1], d[2])' : j < i
                           /\ journal'[i].workflow = d[1]
                           /\ \A a \in journal'[i].acknowledgements : a.id = d =>
                                a.owner = deliveries'[d].owner /\ a.token = deliveries'[d].token
    BY DEF ConsumedUnderOneClaim
  <2>1. CASE d \in DOMAIN rows
    <3>1. Consumers(d)' = {}
      <4>1. ~acked(d)
        BY <1>2, <1>6, <2>1 DEF acked
      <4>2. Consumers(d) = {}
        BY <1>6, <2>1 DEF ConsumptionInv, Acknowledged, Consumers
      <4> QED
        BY <1>11, <4>1, <4>2
    <3> QED
      BY <1>6, <1>7, <2>1, <3>1
  <2>2. CASE d \in DOMAIN deliveries
    <3>1. /\ Consumers(d) # {} => deliveries[d].status = "delivered"
          /\ \A i \in Consumers(d) :
               /\ i \in DOMAIN journal
               /\ \E j \in CommitsOf(d[1], d[2]) : j < i
               /\ journal[i].workflow = d[1]
               /\ \A a \in journal[i].acknowledgements : a.id = d =>
                    a.owner = deliveries[d].owner /\ a.token = deliveries[d].token
      BY <2>2 DEF ConsumptionInv, ConsumedUnderOneClaim, Consumers
    <3>2. /\ deliveries'[d].status = IF acked(d) THEN "delivered" ELSE deliveries[d].status
          /\ deliveries'[d].owner = deliveries[d].owner
          /\ deliveries'[d].token = deliveries[d].token
      <4>1. deliveries[d] \in DeliveryRow
        BY <1>5, <2>2 DEF IsTable
      <4> QED
        BY <1>7, <2>2, <4>1 DEF Delivered, DeliveryRow
    <3>3. Consumers(d)' # {} => deliveries'[d].status = "delivered"
      BY <1>11, <3>1, <3>2
    <3>4. ASSUME NEW i \in Consumers(d)'
          PROVE  /\ \E j \in CommitsOf(d[1], d[2])' : j < i
                 /\ journal'[i].workflow = d[1]
                 /\ \A a \in journal'[i].acknowledgements : a.id = d =>
                      a.owner = deliveries'[d].owner /\ a.token = deliveries'[d].token
      <4>1. CASE i \in Consumers(d)
        <5>1. journal'[i] = journal[i]
          BY <1>4, <3>1, <4>1 DEF Appended
        <5> QED
          BY <1>12, <3>1, <3>2, <4>1, <5>1
      <4>2. CASE i = n /\ acked(d)
        <5>1. journal'[i] = e
          BY <1>4, <4>2 DEF Appended
        <5>2. d[1] = w
          BY <1>2, <4>2 DEF acked
        <5> QED
          BY <1>2, <1>3, <1>12, <1>13, <2>2, <3>2, <4>2, <5>1, <5>2
      <4> QED
        BY <1>11, <4>1, <4>2
    <3> QED
      BY <3>3, <3>4
  <2> QED
    BY <1>7, <2>1, <2>2
<1> QED
  BY <1>9, <1>10, <1>14 DEF ConsumptionInv

\* Every step keeps it.
LEMMA NextConsumption == Inv /\ ConsumptionInv /\ [Next]_vars => ConsumptionInv'
<1> SUFFICES ASSUME Inv, ConsumptionInv, [Next]_vars
             PROVE  ConsumptionInv'
  OBVIOUS
<1>0. MessagingTablesOK /\ clock \in Nat
  BY DEF Inv, TypeOK, CoordinatorTablesOK
<1>1. ASSUME NEW id \in DOMAIN deliveries, NEW kind \in Kind, NEW destination \in Destination,
             NEW owner \in Owner, NEW ttl \in DeliveryTtl, NEW W \in Limits,
             Receive(id, kind, destination, owner, ttl, W)
      PROVE  ConsumptionInv'
  <2>1. ClaimDelivery(id, kind, destination, owner, ttl, W) /\ UNCHANGED <<operations, journal>>
    BY <1>1 DEF Receive, MessageStep, commitVars
  <2>2. DeliveredKept
    BY <1>0, <2>1, ReceiveKeepsDelivered
  <2> QED
    BY <2>1, <2>2, KeptConsumption
<1>2. ASSUME NEW id \in DOMAIN deliveries, NEW owner \in Owner,
             NEW token \in 1..MaxDeliveryAttempts, NEW retry_after \in RetryAfter,
             Refuse(id, owner, token, retry_after)
      PROVE  ConsumptionInv'
  <2>1. RejectDelivery(id, owner, token, retry_after) /\ UNCHANGED <<operations, journal>>
    BY <1>2 DEF Refuse, MessageStep, commitVars
  <2>2. DeliveredKept
    BY <1>0, <2>1, RefuseKeepsDelivered
  <2> QED
    BY <2>1, <2>2, KeptConsumption
<1>3. ASSUME NEW id \in DOMAIN attempts, NEW plan \in Plans, NEW basis \in past,
             NEW lease_token \in 1..lease_sequence, NEW execution_token \in ExecutionToken,
             NEW acknowledgements \in Acknowledgements, plan.reads \subseteq DOMAIN basis,
             SendCommit(id, plan, basis, lease_token, execution_token, acknowledgements)
      PROVE  ConsumptionInv'
  BY <1>3, CommitConsumption
<1>4. CASE UNCHANGED <<operations, journal, deliveries>>
  BY <1>4, KeptConsumption DEF DeliveredKept
<1>6. ASSUME NEW kind \in Kind, NEW destination \in Destination, NEW W \in Limits,
             FindNothing(kind, destination, W)
      PROVE  ConsumptionInv'
  <2>1. ClaimNothing(kind, destination, W) /\ UNCHANGED <<operations, journal>>
    BY <1>6 DEF FindNothing, MessageStep, commitVars
  <2> QED
    BY <2>1, FindNothingKeepsDelivered, KeptConsumption
<1>7. ASSUME NEW id \in DOMAIN deliveries, NEW owner \in Owner,
             NEW token \in 1..MaxDeliveryAttempts, Confirm(id, owner, token)
      PROVE  ConsumptionInv'
  <2>1. Acknowledge(id, owner, token) /\ UNCHANGED <<operations, journal>>
    BY <1>7 DEF Confirm, MessageStep, commitVars
  <2> QED
    BY <1>0, <2>1, ConfirmKeepsDelivered, KeptConsumption
<1>5. \/ UNCHANGED <<operations, journal, deliveries>>
      \/ \E id \in DOMAIN deliveries, kind \in Kind, destination \in Destination,
            owner \in Owner, ttl \in DeliveryTtl, W \in Limits :
           Receive(id, kind, destination, owner, ttl, W)
      \/ \E kind \in Kind, destination \in Destination, W \in Limits :
           FindNothing(kind, destination, W)
      \/ \E id \in DOMAIN deliveries, owner \in Owner, token \in 1..MaxDeliveryAttempts :
           Confirm(id, owner, token)
      \/ \E id \in DOMAIN deliveries, owner \in Owner, token \in 1..MaxDeliveryAttempts,
            retry_after \in RetryAfter : Refuse(id, owner, token, retry_after)
      \/ \E id \in DOMAIN attempts, plan \in Plans, basis \in past,
            lease_token \in 1..lease_sequence, execution_token \in ExecutionToken,
            acknowledgements \in Acknowledgements :
           /\ plan.reads \subseteq DOMAIN basis
           /\ SendCommit(id, plan, basis, lease_token, execution_token, acknowledgements)
  BY DEF Next, vars, Create, Lease, Unlease, RunStep, Start, Submit, TakeClaim, GiveUpClaim, Renew,
         Save, Begin, Abandon, End, Expire, MessageStep, Register, RegisterChannel, Wait,
         messagingVars, commitVars
<1> QED
  BY <1>1, <1>2, <1>3, <1>4, <1>5, <1>6, <1>7

\* A message is consumed in the transaction of a commit of its own run, after the
\* commit that produced it, and all its consumers acted under one claim: what one
\* receiver lost or refused, and another consumed, is not consumed again.
THEOREM ConsumedOnce == Spec => []ConsumedUnderOneClaim
<1>1. Init => Inv /\ ConsumptionInv
  BY InitInv, InitConsumption
<1>2. Inv /\ ConsumptionInv /\ [Next]_vars => (Inv /\ ConsumptionInv)'
  BY NextInv, NextConsumption
<1>3. Inv /\ ConsumptionInv => ConsumedUnderOneClaim
  BY DEF ConsumptionInv
<1> QED
  BY <1>1, <1>2, <1>3, PTL DEF Spec

-----------------------------------------------------------------------------
(* The rules of runs.                                                        *)

\* A total depends on the rows of the rule's resources only.
LEMMA SameAmounts ==
  ASSUME NEW rule, NEW t, NEW u, \A k \in rule.resources : t[k] = u[k]
  PROVE  Amounts(rule, t) = Amounts(rule, u)
BY DEF Amounts

\* A table there has been has no more resources than there are now.
LEMMA PastWithin ==
  ASSUME Inv, NEW table \in past
  PROVE  DOMAIN table \subseteq DOMAIN resources
BY DEF Inv, PastTables, PastBehind

\* What RulesHold says of the rules that all runs carry; DeltasKept is part of Inv.
CommonRulesHold ==
  \A rule \in CommonRules :
    /\ rule.kind = "conserve_total" => TotalKept(rule)
    /\ rule.kind = "numeric_bounds" => WithinBounds(rule)
    /\ rule.kind = "schema_allowlist" =>
         \A k \in Written(rule) : resources[k].json_schema \in rule.allowed

\* There is one table at first, and nothing in it was written by a commit.
LEMMA InitRules == Init => CommonRulesHold
<1> SUFFICES ASSUME Init PROVE CommonRulesHold
  OBVIOUS
<1>1. past = {resources} /\ \A k \in DOMAIN resources : resources[k].version = 1
  BY DEF Init
<1>2. \A rule : Written(rule) = {}
  BY <1>1 DEF Written
<1> QED
  BY <1>1, <1>2 DEF CommonRulesHold, TotalKept, WithinBounds

\* No rule spoke of all its resources before the last of them was created.
LEMMA CreateRules ==
  ASSUME Inv, CommonRulesHold, NEW key \in Key, NEW value \in Value, NEW s \in Schema,
         Create(key, value, s)
  PROVE  CommonRulesHold'
<1>1. /\ key \notin DOMAIN resources
      /\ past' = past \union {resources'}
      /\ DOMAIN resources' = DOMAIN resources \union {key}
      /\ resources'[key].version = 1
      /\ \A k \in DOMAIN resources : resources'[k] = resources[k]
  BY DEF Create, CreateResource, Insert, Upsert
<1>2. \A rule : /\ Written(rule)' = Written(rule)
                /\ \A k \in Written(rule) : resources'[k] = resources[k]
  BY <1>1 DEF Written
<1>3. ASSUME NEW rule, TotalKept(rule)
      PROVE  TotalKept(rule)'
  <2> SUFFICES ASSUME NEW table \in past, rule.resources \subseteq DOMAIN table
               PROVE  SumFunction(Amounts(rule, table)) = SumFunction(Amounts(rule, resources'))
    BY <1>1 DEF TotalKept
  <2>1. \A k \in rule.resources : resources'[k] = resources[k]
    BY <1>1, PastWithin
  <2>2. Amounts(rule, resources') = Amounts(rule, resources)
    BY <2>1, SameAmounts
  <2> QED
    BY <1>3, <2>2 DEF TotalKept
<1>4. \A rule \in CommonRules :
        /\ rule.kind = "numeric_bounds" => WithinBounds(rule)'
        /\ rule.kind = "schema_allowlist" =>
             \A k \in Written(rule)' : resources'[k].json_schema \in rule.allowed
  BY <1>2 DEF CommonRulesHold, WithinBounds
<1> QED
  BY <1>3, <1>4 DEF CommonRulesHold

\* A commit respects the rules it is concerned by, for what it leaves as for what it writes.
LEMMA CommitRules ==
  ASSUME Inv, CommonRulesHold, NEW id \in DOMAIN attempts, NEW plan \in Plans, NEW basis \in past,
         NEW lease_token, NEW execution_token, NEW acknowledgements,
         plan.reads \subseteq DOMAIN basis,
         SendCommit(id, plan, basis, lease_token, execution_token, acknowledgements)
  PROVE  CommonRulesHold'
<1> DEFINE w == attempts[id].workflow
           op == attempts[id].operation
           current == Snapshot(resources, plan.reads)
           new == Prepared(plan.writes)
<1>0. /\ w = attempts[id].workflow /\ op = attempts[id].operation
      /\ current = Snapshot(resources, plan.reads) /\ new = Prepared(plan.writes)
  OBVIOUS
<1> HIDE DEF w, op, current, new
<1>1. /\ Found(id, plan, lease_token, acknowledgements, w, op, current, new)
      /\ Left(id, plan, lease_token, acknowledgements, w, op, current, new)
  BY <1>0, CommitFacts
<1>2. /\ DOMAIN plan.writes \subseteq plan.reads /\ plan.reads \subseteq DOMAIN resources
      /\ RulesAllow(workflows[w].specification.invariants, current, new)
      /\ resources' = Upsert(resources, new) /\ past' = past \union {resources'}
      /\ w \in DOMAIN workflows
  BY <1>1 DEF Found, Left
<1>3. DOMAIN new = DOMAIN plan.writes
  BY <1>0 DEF Prepared
<1>4. /\ DOMAIN resources' = DOMAIN resources
      /\ \A k \in DOMAIN resources :
           resources'[k] = IF k \in DOMAIN new THEN new[k] ELSE resources[k]
  BY <1>2, <1>3 DEF Upsert
<1>5. ASSUME NEW rule \in CommonRules
      PROVE  \/ rule.resources \intersect DOMAIN new = {}
             \/ rule.resources \subseteq plan.reads /\ Respected(rule, current, new)
  <2>1. workflows[w].specification \in Specification
    BY <1>2 DEF Inv, TypeOK, CoordinatorTablesOK, RunTablesOK, IsTable, WorkflowRow
  <2>2. rule \in workflows[w].specification.invariants
    BY <2>1 DEF CommonRules
  <2>3. DOMAIN current = plan.reads
    BY <1>0 DEF Snapshot
  <2> QED
    BY <1>2, <2>2, <2>3 DEF RulesAllow, Concerned
<1>6. ASSUME NEW rule \in CommonRules, rule.resources \subseteq plan.reads
      PROVE  \A k \in rule.resources : /\ k \in DOMAIN resources
                                       /\ current[k] = resources[k]
                                       /\ After(current, new, k) = resources'[k]
  BY <1>0, <1>2, <1>4, <1>6 DEF Snapshot, After
<1>7. ASSUME NEW rule \in CommonRules, rule.resources \intersect DOMAIN new = {}
      PROVE  /\ \A k \in rule.resources \intersect DOMAIN resources : resources'[k] = resources[k]
             /\ Written(rule)' = Written(rule)
  BY <1>4, <1>7 DEF Written
<1>8. ASSUME NEW rule \in CommonRules, rule.kind = "conserve_total"
      PROVE  TotalKept(rule)'
  <2>1. ASSUME rule.resources \subseteq DOMAIN resources
        PROVE  SumFunction(Amounts(rule, resources')) = SumFunction(Amounts(rule, resources))
    <3>1. CASE rule.resources \intersect DOMAIN new = {}
      <4>1. Amounts(rule, resources') = Amounts(rule, resources)
        BY <1>7, <2>1, <3>1, SameAmounts
      <4> QED
        BY <4>1
    <3>2. CASE rule.resources \subseteq plan.reads /\ Respected(rule, current, new)
      <4> DEFINE left == [k \in rule.resources |-> After(current, new, k)]
      <4>1. SumFunction(Amounts(rule, current)) = SumFunction(Amounts(rule, left))
        BY <1>8, <3>2 DEF Respected, Conserved
      <4>2. /\ \A k \in rule.resources : current[k] = resources[k]
            /\ \A k \in rule.resources : left[k] = resources'[k]
        BY <1>6, <3>2
      <4> HIDE DEF left
      <4>3. /\ Amounts(rule, current) = Amounts(rule, resources)
            /\ Amounts(rule, left) = Amounts(rule, resources')
        BY <4>2, SameAmounts
      <4> QED
        BY <4>1, <4>3
    <3> QED
      BY <1>5, <3>1, <3>2
  <2> SUFFICES ASSUME NEW table \in past, rule.resources \subseteq DOMAIN table
               PROVE  SumFunction(Amounts(rule, table)) = SumFunction(Amounts(rule, resources'))
    BY <1>2 DEF TotalKept
  <2>2. SumFunction(Amounts(rule, table)) = SumFunction(Amounts(rule, resources))
    BY <1>8 DEF CommonRulesHold, TotalKept
  <2> QED
    BY <2>1, <2>2, PastWithin
<1>9. ASSUME NEW rule \in CommonRules, rule.kind = "numeric_bounds"
      PROVE  WithinBounds(rule)'
  <2>1. CASE rule.resources \intersect DOMAIN new = {}
    BY <1>7, <1>9, <2>1 DEF CommonRulesHold, WithinBounds, Written
  <2>2. CASE rule.resources \subseteq plan.reads /\ Respected(rule, current, new)
    <3>1. \A k \in rule.resources :
            Bounded(rule, AmountIn(rule, current[k]), AmountIn(rule, After(current, new, k)))
      BY <1>9, <2>2 DEF Respected
    <3>2. \A k \in rule.resources :
            /\ rule.minimum # NoLimit => AmountIn(rule, resources'[k]) >= rule.minimum
            /\ rule.maximum # NoLimit => AmountIn(rule, resources'[k]) <= rule.maximum
      BY <1>6, <2>2, <3>1 DEF Bounded
    <3> QED
      BY <3>2 DEF WithinBounds, Written
  <2> QED
    BY <1>5, <2>1, <2>2
<1>10. ASSUME NEW rule \in CommonRules, rule.kind = "schema_allowlist", NEW k \in Written(rule)'
       PROVE  resources'[k].json_schema \in rule.allowed
  <2>1. CASE rule.resources \intersect DOMAIN new = {}
    BY <1>7, <1>10, <2>1 DEF CommonRulesHold, Written
  <2>2. CASE rule.resources \subseteq plan.reads /\ Respected(rule, current, new)
    <3>1. \A x \in rule.resources : After(current, new, x).json_schema \in rule.allowed
      BY <1>10, <2>2 DEF Respected
    <3> QED
      BY <1>6, <1>10, <2>2, <3>1 DEF Written
  <2> QED
    BY <1>5, <2>1, <2>2
<1> QED
  BY <1>8, <1>9, <1>10 DEF CommonRulesHold

\* Every step keeps the rules.
LEMMA NextRules == Inv /\ CommonRulesHold /\ [Next]_vars => CommonRulesHold'
<1> SUFFICES ASSUME Inv, CommonRulesHold, [Next]_vars
             PROVE  CommonRulesHold'
  OBVIOUS
<1>1. ASSUME NEW key \in Key, NEW value \in Value, NEW s \in Schema, Create(key, value, s)
      PROVE  CommonRulesHold'
  BY <1>1, CreateRules
<1>2. ASSUME NEW id \in DOMAIN attempts, NEW plan \in Plans, NEW basis \in past,
             NEW lease_token, NEW execution_token, NEW acknowledgements,
             plan.reads \subseteq DOMAIN basis,
             SendCommit(id, plan, basis, lease_token, execution_token, acknowledgements)
      PROVE  CommonRulesHold'
  BY <1>2, CommitRules
<1>3. CASE UNCHANGED <<resources, past>>
  <2>1. \A rule : Written(rule)' = Written(rule)
    BY <1>3 DEF Written
  <2> QED
    BY <1>3, <2>1 DEF CommonRulesHold, TotalKept, WithinBounds
<1>4. \/ UNCHANGED <<resources, past>>
      \/ \E key \in Key, value \in Value, s \in Schema : Create(key, value, s)
      \/ \E id \in DOMAIN attempts, plan \in Plans, basis \in past,
            lease_token \in 1..lease_sequence, execution_token \in ExecutionToken,
            acknowledgements \in Acknowledgements :
           /\ plan.reads \subseteq DOMAIN basis
           /\ SendCommit(id, plan, basis, lease_token, execution_token, acknowledgements)
  BY DEF Next, vars, Lease, Unlease, RunStep, Start, Submit, TakeClaim, GiveUpClaim, Renew,
         Save, Begin, Abandon, End, Expire, MessageStep, Register, Receive, FindNothing, Confirm,
         Refuse, Wait
<1> QED
  BY <1>1, <1>2, <1>3, <1>4

\* Rules hold of the state for good: agents may plan on states that are no longer true,
\* and their commits come in any order, but by the rules all runs carry no total moves,
\* no amount that was written is out of bounds and no schema out of its list, and no
\* commit moves an amount further than the rules of its own run allow.
THEOREM RulesKept == Spec => []RulesHold
<1>1. Init => Inv /\ CommonRulesHold
  BY InitInv, InitRules
<1>2. Inv /\ CommonRulesHold /\ [Next]_vars => (Inv /\ CommonRulesHold)'
  BY NextInv, NextRules
<1>3. Inv /\ CommonRulesHold => RulesHold
  BY DEF Inv, CommonRulesHold, RulesHold
<1> QED
  BY <1>1, <1>2, <1>3, PTL DEF Spec
=============================================================================
