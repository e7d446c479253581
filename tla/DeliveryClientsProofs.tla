------------------------ MODULE DeliveryClientsProofs ------------------------
(***************************************************************************)
(* Proofs about DeliveryClients, for any receivers, destinations, delays    *)
(* and limits.  The inductive invariant Inv joins the properties with three *)
(* facts about the history: claims are numbered by the tokens their rows    *)
(* have had, each delivery has finitely many, and its operation committed.  *)
(* A claim is replaced only when its row has expired, and a row whose token *)
(* was raised no longer knows the claims under the older ones.              *)
(***************************************************************************)
EXTENDS DeliveryClients, MessagingProofs, FiniteSetTheorems

ClaimsNumbered ==
  \A c \in DOMAIN claims : c[1] \in DOMAIN deliveries /\ c[2] <= deliveries[c[1]].token

ClaimsFinite == \A id \in DOMAIN deliveries : IsFiniteSet(ClaimsOf(id))

StagedByCommits == \A id \in DOMAIN deliveries : <<id[1], id[2]>> \in published

Inv ==
  /\ TypeOK
  /\ LiveClaimIntact
  /\ AttemptsCountClaims
  /\ DeadAfterAllAttempts
  /\ DeliveredByLastClaim
  /\ ClaimsNumbered
  /\ ClaimsFinite
  /\ StagedByCommits

USE StorageAssumption, MessagingAssumption

-----------------------------------------------------------------------------
\* What the type invariant says of the tables.
LEMMA TableTypes ==
  ASSUME TypeOK
  PROVE  /\ clock \in Nat
         /\ IsTable(deliveries, DeliveryId, DeliveryRow)
         /\ \A id \in DOMAIN deliveries : deliveries[id] \in DeliveryRow
         /\ IsTable(claims, DeliveryId \X (Nat \ {0}), Claim)
         /\ \A c \in DOMAIN claims :
              /\ c \in DeliveryId \X (Nat \ {0})
              /\ c = <<c[1], c[2]>> /\ c[2] \in Nat \ {0}
              /\ claims[c] \in Claim
BY DEF TypeOK, MessagingTablesOK, IsTable

\* A delivery that waits to be claimed has no live claim and no acknowledged one.
LEMMA WaitingIsFree ==
  ASSUME Inv, NEW id \in DOMAIN deliveries, Waiting(id)
  PROVE  \A c \in ClaimsOf(id) :
           /\ ~(claims[c].answer = "none" /\ clock < claims[c].expires_at)
           /\ claims[c].answer # "acknowledged"
<1> SUFFICES ASSUME NEW c \in ClaimsOf(id)
             PROVE  /\ ~(claims[c].answer = "none" /\ clock < claims[c].expires_at)
                    /\ claims[c].answer # "acknowledged"
  OBVIOUS
<1>1. c \in DOMAIN claims /\ c[1] = id
  BY DEF ClaimsOf
<1>2. ~(claims[c].answer = "none" /\ clock < claims[c].expires_at)
  <2> SUFFICES ASSUME claims[c].answer = "none", clock < claims[c].expires_at
               PROVE  FALSE
    OBVIOUS
  <2>1. deliveries[id].expires_at = claims[c].expires_at
    BY <1>1 DEF Inv, LiveClaimIntact
  <2>2. /\ clock \in Nat /\ claims[c].expires_at \in Nat
        /\ ~(deliveries[id].expires_at > clock)
    BY <1>1, TableTypes DEF Inv, Claim, Waiting, Unexpired
  <2> QED
    BY <2>1, <2>2
<1>3. claims[c].answer # "acknowledged"
  <2>1. deliveries[id].status # "delivered"
    BY DEF Waiting
  <2> QED
    BY <2>1 DEF Inv, DeliveredByLastClaim
<1> QED
  BY <1>2, <1>3

\* Init establishes the invariant.
LEMMA InitInv == Init => Inv
<1> SUFFICES ASSUME Init PROVE Inv
  OBVIOUS
<1>1. deliveries = EmptyTable /\ claims = EmptyTable
  BY DEF Init, MessagingTablesInit
<1>2. TypeOK
  BY DEF IsTable, EmptyTable, Init, MessagingTablesInit, TypeOK, MessagingTablesOK
<1>3. DOMAIN deliveries = {} /\ DOMAIN claims = {}
  BY <1>1 DEF IsTable, EmptyTable
<1> QED
  BY <1>2, <1>3 DEF Inv, LiveClaimIntact, AttemptsCountClaims, DeadAfterAllAttempts,
     DeliveredByLastClaim, ClaimsNumbered, ClaimsFinite, StagedByCommits

\* Registering a channel touches no delivery.
LEMMA RegisterInv ==
  ASSUME Inv, NEW destination \in Destination, NEW kind \in Kind, NEW version \in ChannelVersion,
         NEW s \in Schema, Register(destination, kind, version, s)
  PROVE  Inv'
<1>1. channels' = Insert(channels, <<destination, kind, version>>, s)
  BY DEF Register, RegisterChannel
<1>2. UNCHANGED <<clock, deliveries, claims, published>>
  BY DEF Register, RegisterChannel
<1>3. <<destination, kind, version>> \in Destination \X Kind \X ChannelVersion
  OBVIOUS
<1>4. IsTable(channels', Destination \X Kind \X ChannelVersion, Schema)
  BY <1>1, <1>3 DEF IsTable, Insert, Upsert, Inv, TypeOK, MessagingTablesOK
<1>5. TypeOK'
  BY <1>2, <1>4 DEF Inv, TypeOK, MessagingTablesOK
<1>6. \A d : ClaimsOf(d)' = ClaimsOf(d)
  BY <1>2 DEF ClaimsOf
<1>7. LiveClaimIntact' /\ ClaimsNumbered' /\ StagedByCommits'
  BY <1>2 DEF Inv, LiveClaimIntact, ClaimsNumbered, StagedByCommits
<1>8. AttemptsCountClaims' /\ ClaimsFinite'
  BY <1>2, <1>6 DEF Inv, AttemptsCountClaims, ClaimsFinite
<1>9. DeadAfterAllAttempts' /\ DeliveredByLastClaim'
  BY <1>2, <1>6 DEF Inv, DeadAfterAllAttempts, DeliveredByLastClaim
<1> QED
  BY <1>5, <1>7, <1>8, <1>9 DEF Inv

\* The rows a commit stages are new deliveries without a claim.
LEMMA PublishInv ==
  ASSUME Inv, NEW w \in Workflow, NEW op \in Task, NEW envelopes \in Envelopes,
         Publish(w, op, envelopes)
  PROVE  Inv'
<1> DEFINE rows == StagedRows(w, op, envelopes)
           ids == DOMAIN rows
<1>1. envelopes \in SUBSET Envelope
  BY DeliveryAssumption
<1>2. deliveries' = Upsert(deliveries, rows)
  BY DEF Publish, StageEnvelopes
<1>3. /\ UNCHANGED <<clock, channels, claims>>
      /\ published' = published \union {<<w, op>>}
      /\ <<w, op>> \notin published
  BY DEF Publish
<1>4. clock \in Nat
  BY TableTypes DEF Inv
<1>5. /\ IsTable(rows, DeliveryId, DeliveryRow)
      /\ \A d \in ids : /\ d[1] = w /\ d[2] = op
                        /\ rows[d].status = "pending" /\ rows[d].attempts = 0
                        /\ rows[d].token = 0
  BY <1>1, <1>4, StagedRowsTypes
<1>6. ids = DOMAIN rows
  OBVIOUS
<1> HIDE DEF rows, ids
<1>7. ids \intersect DOMAIN deliveries = {}
  BY <1>3, <1>5 DEF Inv, StagedByCommits
<1>8. /\ IsTable(deliveries', DeliveryId, DeliveryRow)
      /\ DOMAIN deliveries' = DOMAIN deliveries \union ids
      /\ \A d \in ids : deliveries'[d] = rows[d]
      /\ \A d \in DOMAIN deliveries : deliveries'[d] = deliveries[d]
  <2>1. IsTable(deliveries, DeliveryId, DeliveryRow)
    BY TableTypes DEF Inv
  <2>2. /\ IsTable(deliveries', DeliveryId, DeliveryRow)
        /\ DOMAIN deliveries' = DOMAIN deliveries \union DOMAIN rows
        /\ \A d \in DOMAIN rows : deliveries'[d] = rows[d]
        /\ \A d \in DOMAIN deliveries \ DOMAIN rows : deliveries'[d] = deliveries[d]
    <3>1. /\ IsTable(Upsert(deliveries, rows), DeliveryId, DeliveryRow)
          /\ DOMAIN Upsert(deliveries, rows) = DOMAIN deliveries \union DOMAIN rows
          /\ \A d \in DOMAIN rows : Upsert(deliveries, rows)[d] = rows[d]
          /\ \A d \in DOMAIN deliveries \ DOMAIN rows :
               Upsert(deliveries, rows)[d] = deliveries[d]
      BY <1>5, <2>1 DEF IsTable, Upsert
    <3> QED
      BY <1>2, <3>1
  <2> QED
    BY <1>6, <1>7, <2>2
<1>9. TypeOK'
  BY <1>3, <1>8 DEF Inv, TypeOK, MessagingTablesOK
<1>10. \A d : ClaimsOf(d)' = ClaimsOf(d)
  BY <1>3 DEF ClaimsOf
<1>11. \A d \in ids : ClaimsOf(d) = {}
  BY <1>7 DEF Inv, ClaimsNumbered, ClaimsOf
<1>12. LiveClaimIntact' /\ ClaimsNumbered'
  BY <1>3, <1>8 DEF Inv, LiveClaimIntact, ClaimsNumbered
<1>13. AttemptsCountClaims' /\ ClaimsFinite'
  <2>1. IsFiniteSet({}) /\ Cardinality({}) = 0 /\ 0 <= MaxDeliveryAttempts
    BY FS_EmptySet
  <2> QED
    BY <1>5, <1>8, <1>10, <1>11, <2>1 DEF Inv, AttemptsCountClaims, ClaimsFinite
<1>14. DeadAfterAllAttempts' /\ DeliveredByLastClaim'
  BY <1>3, <1>5, <1>8, <1>10, <1>11 DEF Inv, DeadAfterAllAttempts, DeliveredByLastClaim
<1>15. StagedByCommits'
  BY <1>3, <1>5, <1>8 DEF Inv, StagedByCommits
<1> QED
  BY <1>9, <1>12, <1>13, <1>14, <1>15 DEF Inv

-----------------------------------------------------------------------------
\* A claim buries rows that wait after their last attempt, and those only.
LEMMA ClaimUpdateRows ==
  ASSUME Inv, NEW kind, NEW destination, NEW owner, NEW ttl, NEW D,
         ClaimUpdate(kind, destination, owner, ttl, D)
  PROVE  /\ DOMAIN deliveries' = DOMAIN deliveries
         /\ deliveries' = [d \in DOMAIN deliveries' |-> deliveries'[d]]
         /\ \A d \in DOMAIN deliveries :
              \/ /\ Waiting(d) /\ deliveries[d].attempts = MaxDeliveryAttempts
                 /\ deliveries'[d] = Buried(deliveries[d])
              \/ d \in D /\ deliveries'[d] = Claimed(deliveries[d], owner, ttl)
              \/ d \notin D /\ deliveries'[d] = deliveries[d]
<1>1. /\ DOMAIN deliveries' = DOMAIN deliveries
      /\ deliveries' = [d \in DOMAIN deliveries' |-> deliveries'[d]]
      /\ \A d \in DOMAIN deliveries : deliveries'[d] =
           IF d \in Exhausted(kind, destination) THEN Buried(deliveries[d])
           ELSE IF d \in D THEN Claimed(deliveries[d], owner, ttl)
           ELSE deliveries[d]
  BY DEF ClaimUpdate
<1>2. \A d \in Exhausted(kind, destination) :
        Waiting(d) /\ deliveries[d].attempts = MaxDeliveryAttempts
  <2> SUFFICES ASSUME NEW d \in Exhausted(kind, destination)
               PROVE  Waiting(d) /\ deliveries[d].attempts = MaxDeliveryAttempts
    OBVIOUS
  <2>1. d \in DOMAIN deliveries /\ Waiting(d) /\ deliveries[d].attempts >= MaxDeliveryAttempts
    BY DEF Exhausted, WaitingAt
  <2>2. deliveries[d] \in DeliveryRow
    BY <2>1, TableTypes DEF Inv
  <2>3. deliveries[d].attempts \in Nat /\ deliveries[d].attempts <= MaxDeliveryAttempts
    BY <2>1, <2>2 DEF DeliveryRow, Inv, AttemptsCountClaims
  <2> QED
    BY <2>1, <2>3
<1> QED
  BY <1>1, <1>2

\* Burying alone keeps the invariant.
LEMMA ReceiveNothingInv ==
  ASSUME Inv, NEW kind \in Kind, NEW destination \in Destination, NEW W,
         ReceiveNothing(kind, destination, W)
  PROVE  Inv'
<1>1. UNCHANGED <<clock, channels, claims, published>>
  BY DEF ReceiveNothing, ClaimNothing
<1>2. /\ DOMAIN deliveries' = DOMAIN deliveries
      /\ deliveries' = [d \in DOMAIN deliveries' |-> deliveries'[d]]
      /\ \A d \in DOMAIN deliveries :
           \/ /\ Waiting(d) /\ deliveries[d].attempts = MaxDeliveryAttempts
              /\ deliveries'[d] = Buried(deliveries[d])
           \/ deliveries'[d] = deliveries[d]
  BY ClaimUpdateRows DEF ReceiveNothing, ClaimNothing
<1>3. \A d \in DOMAIN deliveries :
        /\ d \in DeliveryId /\ deliveries[d] \in DeliveryRow
        /\ Buried(deliveries[d]) \in DeliveryRow
        /\ Buried(deliveries[d]).status = "dead"
        /\ Buried(deliveries[d]).token = deliveries[d].token
        /\ Buried(deliveries[d]).attempts = deliveries[d].attempts
  BY TableTypes DEF Inv, IsTable, DeliveryRow, Buried
<1>4. TypeOK'
  <2>1. IsTable(deliveries', DeliveryId, DeliveryRow)
    BY <1>2, <1>3 DEF IsTable
  <2> QED
    BY <1>1, <2>1 DEF Inv, TypeOK, MessagingTablesOK
<1>5. /\ \A d : ClaimsOf(d)' = ClaimsOf(d)
      /\ \A d \in DOMAIN deliveries :
           /\ deliveries'[d].token = deliveries[d].token
           /\ deliveries'[d].attempts = deliveries[d].attempts
  BY <1>1, <1>2, <1>3 DEF ClaimsOf
<1>6. LiveClaimIntact'
  <2> SUFFICES ASSUME NEW c \in DOMAIN claims, claims[c].answer = "none",
                      clock < claims[c].expires_at
               PROVE  c[1] \in DOMAIN deliveries /\ deliveries'[c[1]] = deliveries[c[1]]
    BY <1>1, <1>2 DEF Inv, LiveClaimIntact
  <2>1. c[1] \in DOMAIN deliveries /\ c \in ClaimsOf(c[1])
    BY DEF Inv, LiveClaimIntact, ClaimsOf
  <2>2. ~Waiting(c[1])
    BY <2>1, WaitingIsFree
  <2> QED
    BY <1>2, <2>1, <2>2
<1>7. AttemptsCountClaims' /\ ClaimsFinite'
  BY <1>2, <1>5 DEF Inv, AttemptsCountClaims, ClaimsFinite
<1>8. DeadAfterAllAttempts' /\ DeliveredByLastClaim'
  <2> SUFFICES ASSUME NEW d \in DOMAIN deliveries
               PROVE  /\ deliveries'[d].status = "dead" =>
                           /\ deliveries'[d].attempts = MaxDeliveryAttempts
                           /\ \A c \in ClaimsOf(d) : claims[c].answer # "acknowledged"
                      /\ deliveries'[d].status = "delivered" <=>
                           \E c \in ClaimsOf(d) : claims[c].answer = "acknowledged"
                      /\ \A c \in ClaimsOf(d) : claims[c].answer = "acknowledged" =>
                           c[2] = deliveries'[d].token
    BY <1>1, <1>2, <1>5 DEF DeadAfterAllAttempts, DeliveredByLastClaim
  <2>1. CASE Waiting(d) /\ deliveries[d].attempts = MaxDeliveryAttempts
             /\ deliveries'[d] = Buried(deliveries[d])
    <3>1. \A c \in ClaimsOf(d) : claims[c].answer # "acknowledged"
      BY <2>1, WaitingIsFree
    <3> QED
      BY <1>3, <2>1, <3>1
  <2>2. CASE deliveries'[d] = deliveries[d]
    BY <2>2 DEF Inv, DeadAfterAllAttempts, DeliveredByLastClaim
  <2> QED
    BY <1>2, <2>1, <2>2
<1>9. ClaimsNumbered' /\ StagedByCommits'
  BY <1>1, <1>2, <1>5 DEF Inv, ClaimsNumbered, StagedByCommits
<1> QED
  BY <1>4, <1>6, <1>7, <1>8, <1>9 DEF Inv

\* A claim on a waiting row begins its next token: no claim has it yet, and the
\* claims under older tokens are over.
LEMMA ReceiveInv ==
  ASSUME Inv, NEW id \in DOMAIN deliveries, NEW kind \in Kind, NEW destination \in Destination,
         NEW owner \in Owner, NEW ttl \in DeliveryTtl, NEW W,
         Receive(id, kind, destination, owner, ttl, W)
  PROVE  Inv'
<1> DEFINE key == <<id, deliveries[id].token + 1>>
           told == [owner |-> owner, expires_at |-> clock + ttl, answer |-> "none"]
<1>1. UNCHANGED <<clock, channels, published>> /\ claims' = Insert(claims, key, told)
  BY DEF Receive, ClaimDelivery
<1>2. Waiting(id) /\ deliveries[id].attempts < MaxDeliveryAttempts
  BY DEF Receive, ClaimDelivery, Oldest, Eligible, WaitingAt
<1>3. /\ \A d \in DOMAIN deliveries : d \in DeliveryId /\ deliveries[d] \in DeliveryRow
      /\ clock \in Nat /\ ttl \in Nat
      /\ IsTable(claims, DeliveryId \X (Nat \ {0}), Claim)
  BY TableTypes DEF Inv, IsTable
<1>4. \A d \in DOMAIN deliveries :
        /\ Claimed(deliveries[d], owner, ttl) \in DeliveryRow
        /\ Claimed(deliveries[d], owner, ttl).status = "inflight"
        /\ Claimed(deliveries[d], owner, ttl).owner = owner
        /\ Claimed(deliveries[d], owner, ttl).token = deliveries[d].token + 1
        /\ Claimed(deliveries[d], owner, ttl).expires_at = clock + ttl
        /\ Claimed(deliveries[d], owner, ttl).attempts = deliveries[d].attempts + 1
        /\ Buried(deliveries[d]) \in DeliveryRow
        /\ Buried(deliveries[d]).status = "dead"
        /\ Buried(deliveries[d]).token = deliveries[d].token
        /\ Buried(deliveries[d]).attempts = deliveries[d].attempts
  BY <1>3, RowUpdates
<1>5. /\ DOMAIN deliveries' = DOMAIN deliveries
      /\ deliveries' = [d \in DOMAIN deliveries' |-> deliveries'[d]]
      /\ deliveries'[id] = Claimed(deliveries[id], owner, ttl)
      /\ \A d \in DOMAIN deliveries \ {id} :
           \/ /\ Waiting(d) /\ deliveries[d].attempts = MaxDeliveryAttempts
              /\ deliveries'[d] = Buried(deliveries[d])
           \/ deliveries'[d] = deliveries[d]
  <2>1. ClaimUpdate(kind, destination, owner, ttl, {id})
    BY DEF Receive, ClaimDelivery
  <2>2. deliveries[id].attempts # MaxDeliveryAttempts
    BY <1>2, <1>3 DEF DeliveryRow
  <2>3. \A d \in DOMAIN deliveries :
          \/ /\ Waiting(d) /\ deliveries[d].attempts = MaxDeliveryAttempts
             /\ deliveries'[d] = Buried(deliveries[d])
          \/ d \in {id} /\ deliveries'[d] = Claimed(deliveries[d], owner, ttl)
          \/ d \notin {id} /\ deliveries'[d] = deliveries[d]
    BY <2>1, ClaimUpdateRows
  <2> QED
    BY <2>1, <2>2, <2>3, ClaimUpdateRows
<1>6. deliveries[id].token \in Nat /\ deliveries[id].attempts \in Nat
  BY <1>3 DEF DeliveryRow
<1>7. key \in DeliveryId \X (Nat \ {0}) /\ key[1] = id /\ key[2] = deliveries[id].token + 1
  BY <1>3, <1>6
<1>8. key \notin DOMAIN claims
  BY <1>6, <1>7 DEF Inv, ClaimsNumbered
<1>9. told \in Claim
  BY <1>3 DEF Claim
<1>10. told.owner = owner /\ told.expires_at = clock + ttl /\ told.answer = "none"
  OBVIOUS
<1> HIDE DEF key, told
<1>11. /\ IsTable(claims', DeliveryId \X (Nat \ {0}), Claim)
       /\ DOMAIN claims' = DOMAIN claims \union {key}
       /\ claims'[key] = told
       /\ \A c \in DOMAIN claims : c # key /\ claims'[c] = claims[c]
  <2>1. /\ IsTable(Insert(claims, key, told), DeliveryId \X (Nat \ {0}), Claim)
        /\ DOMAIN Insert(claims, key, told) = DOMAIN claims \union {key}
        /\ Insert(claims, key, told)[key] = told
        /\ \A c \in DOMAIN claims \ {key} : Insert(claims, key, told)[c] = claims[c]
    BY <1>3, <1>7, <1>9 DEF IsTable, Insert, Upsert
  <2> QED
    BY <1>1, <1>8, <2>1
<1>12. /\ ClaimsOf(id)' = ClaimsOf(id) \union {key} /\ key \notin ClaimsOf(id)
       /\ \A d : d # id => ClaimsOf(d)' = ClaimsOf(d)
       /\ \A d : ClaimsOf(d) \subseteq DOMAIN claims
  BY <1>7, <1>8, <1>11 DEF ClaimsOf
<1>13. TypeOK'
  <2>1. \A d \in DOMAIN deliveries' : d \in DeliveryId /\ deliveries'[d] \in DeliveryRow
    BY <1>3, <1>4, <1>5
  <2>2. IsTable(deliveries', DeliveryId, DeliveryRow)
    BY <1>5, <2>1 DEF IsTable
  <2> QED
    BY <1>1, <1>11, <2>2 DEF Inv, TypeOK, MessagingTablesOK
<1>14. LiveClaimIntact'
  <2> SUFFICES ASSUME NEW c \in DOMAIN claims', claims'[c].answer = "none",
                      clock < claims'[c].expires_at
               PROVE  /\ c[1] \in DOMAIN deliveries
                      /\ deliveries'[c[1]].status = "inflight"
                      /\ deliveries'[c[1]].owner = claims'[c].owner
                      /\ deliveries'[c[1]].token = c[2]
                      /\ deliveries'[c[1]].expires_at = claims'[c].expires_at
    BY <1>1, <1>5 DEF LiveClaimIntact
  <2>1. CASE c = key
    BY <1>4, <1>5, <1>7, <1>10, <1>11, <2>1
  <2>2. CASE c \in DOMAIN claims
    <3>1. claims[c].answer = "none" /\ clock < claims[c].expires_at /\ claims'[c] = claims[c]
      BY <1>11, <2>2
    <3>2. c[1] \in DOMAIN deliveries /\ c \in ClaimsOf(c[1])
      BY <2>2, <3>1 DEF Inv, LiveClaimIntact, ClaimsOf
    <3>3. ~Waiting(c[1])
      BY <3>1, <3>2, WaitingIsFree
    <3>4. deliveries'[c[1]] = deliveries[c[1]]
      BY <1>2, <1>5, <3>2, <3>3
    <3> QED
      BY <2>2, <3>1, <3>2, <3>4 DEF Inv, LiveClaimIntact
  <2> QED
    BY <1>11, <2>1, <2>2
<1>15. AttemptsCountClaims' /\ ClaimsFinite'
  <2> SUFFICES ASSUME NEW d \in DOMAIN deliveries
               PROVE  /\ deliveries'[d].attempts = Cardinality(ClaimsOf(d)')
                      /\ deliveries'[d].attempts = deliveries'[d].token
                      /\ deliveries'[d].attempts <= MaxDeliveryAttempts
                      /\ IsFiniteSet(ClaimsOf(d)')
    BY <1>5 DEF AttemptsCountClaims, ClaimsFinite
  <2>1. /\ IsFiniteSet(ClaimsOf(d))
        /\ deliveries[d].attempts = Cardinality(ClaimsOf(d))
        /\ deliveries[d].attempts = deliveries[d].token
        /\ deliveries[d].attempts <= MaxDeliveryAttempts
    BY DEF Inv, AttemptsCountClaims, ClaimsFinite
  <2>2. CASE d = id
    <3>1. /\ IsFiniteSet(ClaimsOf(id) \union {key})
          /\ Cardinality(ClaimsOf(id) \union {key}) = Cardinality(ClaimsOf(id)) + 1
      BY <1>12, <2>1, <2>2, FS_AddElement
    <3>2. deliveries[id].attempts + 1 <= MaxDeliveryAttempts
      BY <1>2, <1>6
    <3>3. /\ deliveries'[id].attempts = deliveries[id].attempts + 1
          /\ deliveries'[id].token = deliveries[id].token + 1
      BY <1>4, <1>5
    <3>4. /\ IsFiniteSet(ClaimsOf(id)')
          /\ Cardinality(ClaimsOf(id)') = Cardinality(ClaimsOf(id)) + 1
      BY <1>12, <3>1
    <3> QED
      BY <2>1, <2>2, <3>2, <3>3, <3>4
  <2>3. CASE d # id
    <3>1. /\ deliveries'[d].token = deliveries[d].token
          /\ deliveries'[d].attempts = deliveries[d].attempts
      BY <1>4, <1>5, <2>3
    <3> QED
      BY <1>12, <2>1, <2>3, <3>1
  <2> QED
    BY <2>2, <2>3
<1>16. DeadAfterAllAttempts' /\ DeliveredByLastClaim'
  <2> SUFFICES ASSUME NEW d \in DOMAIN deliveries
               PROVE  /\ deliveries'[d].status = "dead" =>
                           /\ deliveries'[d].attempts = MaxDeliveryAttempts
                           /\ \A c \in ClaimsOf(d)' : claims'[c].answer # "acknowledged"
                      /\ deliveries'[d].status = "delivered" <=>
                           \E c \in ClaimsOf(d)' : claims'[c].answer = "acknowledged"
                      /\ \A c \in ClaimsOf(d)' : claims'[c].answer = "acknowledged" =>
                           c[2] = deliveries'[d].token
    BY <1>5 DEF DeadAfterAllAttempts, DeliveredByLastClaim
  <2>1. CASE d = id
    <3>1. \A c \in ClaimsOf(id)' : claims'[c].answer # "acknowledged"
      BY <1>2, <1>10, <1>11, <1>12, WaitingIsFree
    <3> QED
      BY <1>4, <1>5, <2>1, <3>1
  <2>2. CASE d # id /\ Waiting(d) /\ deliveries[d].attempts = MaxDeliveryAttempts
             /\ deliveries'[d] = Buried(deliveries[d])
    <3>1. \A c \in ClaimsOf(d)' : claims'[c].answer # "acknowledged"
      BY <1>11, <1>12, <2>2, WaitingIsFree
    <3> QED
      BY <1>4, <2>2, <3>1
  <2>3. CASE d # id /\ deliveries'[d] = deliveries[d]
    <3>1. ClaimsOf(d)' = ClaimsOf(d) /\ \A c \in ClaimsOf(d) : claims'[c] = claims[c]
      BY <1>11, <1>12, <2>3
    <3> QED
      BY <2>3, <3>1 DEF Inv, DeadAfterAllAttempts, DeliveredByLastClaim
  <2> QED
    BY <1>5, <2>1, <2>2, <2>3
<1>17. ClaimsNumbered' /\ StagedByCommits'
  <2>1. \A d \in DOMAIN deliveries : deliveries[d].token <= deliveries'[d].token
    BY <1>3, <1>4, <1>5 DEF DeliveryRow
  <2>2. ASSUME NEW c \in DOMAIN claims'
        PROVE  c[1] \in DOMAIN deliveries' /\ c[2] <= deliveries'[c[1]].token
    <3>1. CASE c = key
      BY <1>4, <1>5, <1>6, <1>7, <3>1
    <3>2. CASE c \in DOMAIN claims
      <4>1. /\ c[1] \in DOMAIN deliveries /\ c[2] <= deliveries[c[1]].token
            /\ c[2] \in Nat /\ deliveries[c[1]].token \in Nat /\ deliveries'[c[1]].token \in Nat
        BY <1>3, <1>4, <1>5, <3>2, TableTypes DEF Inv, ClaimsNumbered, DeliveryRow
      <4> QED
        BY <1>5, <2>1, <4>1
    <3> QED
      BY <1>11, <3>1, <3>2
  <2> QED
    BY <1>1, <1>5, <2>2 DEF Inv, ClaimsNumbered, StagedByCommits
<1> QED
  BY <1>13, <1>14, <1>15, <1>16, <1>17 DEF Inv

\* An answer under the row's own token: the claim it closes is the row's newest.
LEMMA AnswerInv ==
  ASSUME Inv, NEW c \in DOMAIN claims, Held(c[1], claims[c].owner, c[2]),
         NEW row \in DeliveryRow, row.token = deliveries[c[1]].token,
         row.attempts = deliveries[c[1]].attempts,
         NEW answer \in {"acknowledged", "rejected"},
         row.status = "delivered" <=> answer = "acknowledged",
         answer = "rejected" => deliveries[c[1]].status # "delivered",
         row.status = "dead" => row.attempts >= MaxDeliveryAttempts,
         deliveries' = [deliveries EXCEPT ![c[1]] = row],
         claims' = [claims EXCEPT ![c].answer = answer],
         UNCHANGED <<clock, channels, published>>
  PROVE  Inv'
<1> DEFINE id == c[1]
<1>1. id \in DOMAIN deliveries /\ deliveries[id].token = c[2]
  BY DEF Held
<1>2. /\ IsTable(deliveries, DeliveryId, DeliveryRow)
      /\ IsTable(claims, DeliveryId \X (Nat \ {0}), Claim)
      /\ \A b \in DOMAIN claims : b = <<b[1], b[2]>> /\ claims[b] \in Claim
  BY TableTypes DEF Inv
<1>3. /\ DOMAIN deliveries' = DOMAIN deliveries
      /\ deliveries'[id] = row
      /\ \A d \in DOMAIN deliveries \ {id} : deliveries'[d] = deliveries[d]
  BY <1>1
<1>4. /\ DOMAIN claims' = DOMAIN claims
      /\ claims'[c].answer = answer
      /\ \A b \in DOMAIN claims \ {c} : claims'[b] = claims[b]
      /\ claims'[c] \in Claim
  BY <1>2 DEF Claim
<1>5. \A d : ClaimsOf(d)' = ClaimsOf(d)
  BY <1>4 DEF ClaimsOf
<1>6. TypeOK'
  <2>1. IsTable(deliveries', DeliveryId, DeliveryRow)
    BY <1>2, <1>3 DEF IsTable
  <2>2. IsTable(claims', DeliveryId \X (Nat \ {0}), Claim)
    BY <1>2, <1>4 DEF IsTable
  <2> QED
    BY <2>1, <2>2 DEF Inv, TypeOK, MessagingTablesOK
<1>7. LiveClaimIntact'
  <2> SUFFICES ASSUME NEW b \in DOMAIN claims, claims'[b].answer = "none",
                      clock < claims'[b].expires_at
               PROVE  /\ claims'[b] = claims[b]
                      /\ b[1] \in DOMAIN deliveries
                      /\ deliveries'[b[1]] = deliveries[b[1]]
    BY <1>3, <1>4 DEF Inv, LiveClaimIntact
  <2>1. b # c /\ claims'[b] = claims[b]
    BY <1>4
  <2>2. b[1] \in DOMAIN deliveries /\ deliveries[b[1]].token = b[2]
    BY <2>1 DEF Inv, LiveClaimIntact
  <2>3. b[1] # id
    BY <1>1, <1>2, <2>1, <2>2
  <2> QED
    BY <1>3, <2>1, <2>2, <2>3
<1>8. \A d \in DOMAIN deliveries :
        /\ deliveries'[d].token = deliveries[d].token
        /\ deliveries'[d].attempts = deliveries[d].attempts
  BY <1>3
<1>9. AttemptsCountClaims' /\ ClaimsFinite'
  BY <1>3, <1>5, <1>8 DEF Inv, AttemptsCountClaims, ClaimsFinite
<1>10. DeadAfterAllAttempts' /\ DeliveredByLastClaim'
  <2> SUFFICES ASSUME NEW d \in DOMAIN deliveries
               PROVE  /\ deliveries'[d].status = "dead" =>
                           /\ deliveries'[d].attempts = MaxDeliveryAttempts
                           /\ \A b \in ClaimsOf(d) : claims'[b].answer # "acknowledged"
                      /\ deliveries'[d].status = "delivered" <=>
                           \E b \in ClaimsOf(d) : claims'[b].answer = "acknowledged"
                      /\ \A b \in ClaimsOf(d) : claims'[b].answer = "acknowledged" =>
                           b[2] = deliveries'[d].token
    BY <1>3, <1>5 DEF DeadAfterAllAttempts, DeliveredByLastClaim
  <2>1. CASE d # id
    <3>1. \A b \in ClaimsOf(d) : b # c /\ claims'[b] = claims[b]
      BY <1>4, <2>1 DEF ClaimsOf
    <3> QED
      BY <1>3, <2>1, <3>1 DEF Inv, DeadAfterAllAttempts, DeliveredByLastClaim
  <2>2. CASE d = id /\ answer = "acknowledged"
    <3>1. c \in ClaimsOf(d) /\ row.status = "delivered"
      BY <2>2 DEF ClaimsOf
    <3>2. \A b \in ClaimsOf(d) : claims'[b].answer = "acknowledged" => b[2] = deliveries[d].token
      BY <1>1, <1>4, <2>2 DEF Inv, DeliveredByLastClaim, ClaimsOf
    <3> QED
      BY <1>3, <1>4, <1>8, <2>2, <3>1, <3>2
  <2>3. CASE d = id /\ answer = "rejected"
    <3>1. \A b \in ClaimsOf(d) : claims'[b].answer # "acknowledged"
      BY <1>4, <2>3 DEF Inv, DeliveredByLastClaim, ClaimsOf
    <3>2. row.status = "dead" => row.attempts = MaxDeliveryAttempts
      <4>1. row.attempts \in Nat /\ row.attempts <= MaxDeliveryAttempts
        BY <1>1 DEF Inv, AttemptsCountClaims, DeliveryRow
      <4> QED
        BY <4>1
    <3> QED
      BY <1>3, <2>3, <3>1, <3>2
  <2> QED
    BY <2>1, <2>2, <2>3
<1>11. ClaimsNumbered' /\ StagedByCommits'
  BY <1>3, <1>4, <1>8 DEF Inv, ClaimsNumbered, StagedByCommits
<1> QED
  BY <1>6, <1>7, <1>9, <1>10, <1>11 DEF Inv

\* Acknowledging, once or again.
LEMMA ConfirmInv ==
  ASSUME Inv, NEW c \in DOMAIN claims, Confirm(c)
  PROVE  Inv'
<1> DEFINE old == deliveries[c[1]]
<1>1. /\ Held(c[1], claims[c].owner, c[2])
      /\ deliveries' = [deliveries EXCEPT ![c[1]] = Delivered(old)]
      /\ claims' = [claims EXCEPT ![c].answer = "acknowledged"]
      /\ UNCHANGED <<clock, channels, published>>
  BY DEF Confirm, Acknowledge, AcknowledgeAllowed
<1>2. old \in DeliveryRow
  BY <1>1, TableTypes DEF Inv, Held
<1>3. /\ Delivered(old) \in DeliveryRow
      /\ Delivered(old).status = "delivered"
      /\ Delivered(old).token = old.token
      /\ Delivered(old).attempts = old.attempts
  BY <1>2 DEF Delivered, DeliveryRow
<1> QED
  BY <1>1, <1>3, AnswerInv

\* Rejecting, while the claim is live.
LEMMA RefuseInv ==
  ASSUME Inv, NEW c \in DOMAIN claims, NEW retry_after \in RetryAfter, Refuse(c, retry_after)
  PROVE  Inv'
<1> DEFINE old == deliveries[c[1]]
           new == Returned(old, retry_after)
<1>1. /\ Held(c[1], claims[c].owner, c[2])
      /\ old.status = "inflight"
      /\ deliveries' = [deliveries EXCEPT ![c[1]] = new]
      /\ claims' = [claims EXCEPT ![c].answer = "rejected"]
      /\ UNCHANGED <<clock, channels, published>>
  BY DEF Refuse, RejectDelivery, InFlight
<1>2. old \in DeliveryRow /\ clock \in Nat /\ retry_after \in Nat
  BY <1>1, TableTypes DEF Inv, Held
<1>3. /\ new \in DeliveryRow
      /\ new.status # "delivered"
      /\ new.status = "dead" => old.attempts >= MaxDeliveryAttempts
      /\ new.token = old.token
      /\ new.attempts = old.attempts
  <2>1. PICK owner \in Owner : TRUE
    BY TableTypes DEF Inv, Claim
  <2> QED
    BY <1>2, <2>1, RowUpdates
<1> QED
  BY <1>1, <1>3, AnswerInv

\* Time only ends claims.
LEMMA WaitInv ==
  ASSUME Inv, Wait
  PROVE  Inv'
<1>1. /\ UNCHANGED <<channels, deliveries, claims, published>>
      /\ clock \in Nat /\ clock' = clock + 1
  BY TableTypes DEF Inv, Wait, Tick
<1>2. TypeOK'
  BY <1>1 DEF Inv, TypeOK, MessagingTablesOK
<1>3. \A d : ClaimsOf(d)' = ClaimsOf(d)
  BY <1>1 DEF ClaimsOf
<1>4. \A c \in DOMAIN claims : claims[c].expires_at \in Nat
  BY TableTypes DEF Inv, Claim
<1>5. LiveClaimIntact'
  BY <1>1, <1>4 DEF Inv, LiveClaimIntact
<1>6. AttemptsCountClaims' /\ ClaimsFinite'
  BY <1>1, <1>3 DEF Inv, AttemptsCountClaims, ClaimsFinite
<1>7. DeadAfterAllAttempts' /\ DeliveredByLastClaim'
  BY <1>1, <1>3 DEF Inv, DeadAfterAllAttempts, DeliveredByLastClaim
<1>8. ClaimsNumbered' /\ StagedByCommits'
  BY <1>1 DEF Inv, ClaimsNumbered, StagedByCommits
<1> QED
  BY <1>2, <1>5, <1>6, <1>7, <1>8 DEF Inv

\* A step that changes nothing.
LEMMA StutterInv ==
  ASSUME Inv, UNCHANGED vars
  PROVE  Inv'
<1>1. UNCHANGED <<clock, channels, deliveries, claims, published>>
  BY DEF vars
<1>2. \A d : ClaimsOf(d)' = ClaimsOf(d)
  BY <1>1 DEF ClaimsOf
<1>3. TypeOK' /\ LiveClaimIntact'
  BY <1>1 DEF Inv, TypeOK, MessagingTablesOK, LiveClaimIntact
<1>4. AttemptsCountClaims' /\ ClaimsFinite'
  BY <1>1, <1>2 DEF Inv, AttemptsCountClaims, ClaimsFinite
<1>5. DeadAfterAllAttempts' /\ DeliveredByLastClaim'
  BY <1>1, <1>2 DEF Inv, DeadAfterAllAttempts, DeliveredByLastClaim
<1>6. ClaimsNumbered' /\ StagedByCommits'
  BY <1>1 DEF Inv, ClaimsNumbered, StagedByCommits
<1> QED
  BY <1>3, <1>4, <1>5, <1>6 DEF Inv

-----------------------------------------------------------------------------
\* The invariant holds throughout every behaviour of publishers, receivers that
\* answer or die, and time.
THEOREM InvHolds == Spec => []Inv
<1>1. Inv /\ [Next]_vars => Inv'
  <2> SUFFICES ASSUME Inv, [Next]_vars PROVE Inv'
    OBVIOUS
  <2>1. ASSUME NEW destination \in Destination, NEW kind \in Kind,
               NEW version \in ChannelVersion, NEW s \in Schema,
               Register(destination, kind, version, s)
        PROVE  Inv'
    BY <2>1, RegisterInv
  <2>2. ASSUME NEW w \in Workflow, NEW op \in Task, NEW envelopes \in Envelopes,
               Publish(w, op, envelopes)
        PROVE  Inv'
    BY <2>2, PublishInv
  <2>3. ASSUME NEW id \in DOMAIN deliveries, NEW kind \in Kind, NEW destination \in Destination,
               NEW owner \in Owner, NEW ttl \in DeliveryTtl,
               NEW W \in {Workflow} \union {{w} : w \in Workflow},
               Receive(id, kind, destination, owner, ttl, W)
        PROVE  Inv'
    BY <2>3, ReceiveInv
  <2>4. ASSUME NEW kind \in Kind, NEW destination \in Destination,
               NEW W \in {Workflow} \union {{w} : w \in Workflow},
               ReceiveNothing(kind, destination, W)
        PROVE  Inv'
    BY <2>4, ReceiveNothingInv
  <2>5. ASSUME NEW c \in DOMAIN claims, Confirm(c)
        PROVE  Inv'
    BY <2>5, ConfirmInv
  <2>6. ASSUME NEW c \in DOMAIN claims, NEW retry_after \in RetryAfter, Refuse(c, retry_after)
        PROVE  Inv'
    BY <2>6, RefuseInv
  <2>7. ASSUME Wait PROVE Inv'
    BY <2>7, WaitInv
  <2>8. ASSUME UNCHANGED vars PROVE Inv'
    BY <2>8, StutterInv
  <2> QED
    BY <2>1, <2>2, <2>3, <2>4, <2>5, <2>6, <2>7, <2>8 DEF Next
<1> QED
  BY InitInv, <1>1, PTL DEF Spec

\* Every row and every claim has its type.
THEOREM TypeCorrect == Spec => []TypeOK
BY InvHolds, PTL DEF Inv

\* While a receiver handles a delivery under an unexpired claim, nobody else is
\* given it, for any delays and numbers of receivers.
THEOREM ReceiversExclusive == Spec => []LiveClaimIntact
BY InvHolds, PTL DEF Inv

\* The attempts of a delivery are its claims, whatever became of their receivers,
\* and never more than max_attempts.
THEOREM AttemptsBounded == Spec => []AttemptsCountClaims
BY InvHolds, PTL DEF Inv

\* Only a delivery that was handed out max_attempts times without success is dead.
THEOREM NoneDropped == Spec => []DeadAfterAllAttempts
BY InvHolds, PTL DEF Inv

\* A delivery is delivered by the acknowledgement of its last claim.
THEOREM DeliveredOnce == Spec => []DeliveredByLastClaim
BY InvHolds, PTL DEF Inv
=============================================================================
