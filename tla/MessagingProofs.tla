---------------------------- MODULE MessagingProofs ----------------------------
(***************************************************************************)
(* What publishing, receiving and answering make of the rows of channels    *)
(* and deliveries, whoever does it.                                         *)
(***************************************************************************)
EXTENDS Messaging, TLAPS

USE StorageAssumption, MessagingAssumption

-----------------------------------------------------------------------------
\* What receiving and answering make of one row.
LEMMA RowUpdates ==
  ASSUME NEW row \in DeliveryRow, NEW owner \in Owner, NEW delay \in Nat, clock \in Nat
  PROVE  /\ Claimed(row, owner, delay) \in DeliveryRow
         /\ Claimed(row, owner, delay).status = "inflight"
         /\ Claimed(row, owner, delay).owner = owner
         /\ Claimed(row, owner, delay).token = row.token + 1
         /\ Claimed(row, owner, delay).expires_at = clock + delay
         /\ Claimed(row, owner, delay).attempts = row.attempts + 1
         /\ Buried(row) \in DeliveryRow
         /\ Buried(row).status = "dead"
         /\ Buried(row).token = row.token
         /\ Buried(row).attempts = row.attempts
         /\ Delivered(row) \in DeliveryRow
         /\ Delivered(row).status = "delivered"
         /\ Delivered(row).token = row.token
         /\ Delivered(row).attempts = row.attempts
         /\ Returned(row, delay) \in DeliveryRow
         /\ Returned(row, delay).status # "delivered"
         /\ Returned(row, delay).status = "dead" => row.attempts >= MaxDeliveryAttempts
         /\ Returned(row, delay).token = row.token
         /\ Returned(row, delay).attempts = row.attempts
<1>0. /\ row.kind \in Kind /\ row.destination \in Destination
      /\ row.token \in Nat /\ row.expires_at \in Nat /\ row.available_at \in Nat
      /\ row.attempts \in Nat /\ row.created_at \in Nat
  BY DEF DeliveryRow
<1>1. /\ Claimed(row, owner, delay) \in DeliveryRow
      /\ Claimed(row, owner, delay).status = "inflight"
      /\ Claimed(row, owner, delay).owner = owner
      /\ Claimed(row, owner, delay).token = row.token + 1
      /\ Claimed(row, owner, delay).expires_at = clock + delay
      /\ Claimed(row, owner, delay).attempts = row.attempts + 1
  <2> DEFINE token == row.token + 1
             expiry == clock + delay
             attempts == row.attempts + 1
  <2>1. Claimed(row, owner, delay) =
          [row EXCEPT !.status = "inflight", !.owner = owner, !.token = token,
                      !.expires_at = expiry, !.attempts = attempts]
    BY DEF Claimed
  <2>2. token \in Nat /\ expiry \in Nat /\ attempts \in Nat
    BY <1>0
  <2> HIDE DEF token, expiry, attempts
  <2>3. /\ Claimed(row, owner, delay) \in DeliveryRow
        /\ Claimed(row, owner, delay).status = "inflight"
        /\ Claimed(row, owner, delay).owner = owner
        /\ Claimed(row, owner, delay).token = token
        /\ Claimed(row, owner, delay).expires_at = expiry
        /\ Claimed(row, owner, delay).attempts = attempts
    BY <2>1, <2>2 DEF DeliveryRow
  <2> QED
    BY <2>3 DEF token, expiry, attempts
<1>2. /\ Buried(row) \in DeliveryRow
      /\ Buried(row).status = "dead"
      /\ Buried(row).token = row.token
      /\ Buried(row).attempts = row.attempts
  BY DEF DeliveryRow, Buried
<1>3. /\ Delivered(row) \in DeliveryRow
      /\ Delivered(row).status = "delivered"
      /\ Delivered(row).token = row.token
      /\ Delivered(row).attempts = row.attempts
  BY DEF DeliveryRow, Delivered
<1>4. /\ Returned(row, delay) \in DeliveryRow
      /\ Returned(row, delay).status # "delivered"
      /\ Returned(row, delay).status = "dead" => row.attempts >= MaxDeliveryAttempts
      /\ Returned(row, delay).token = row.token
      /\ Returned(row, delay).attempts = row.attempts
  <2> DEFINE status == IF row.attempts >= MaxDeliveryAttempts THEN "dead" ELSE "pending"
             available == clock + delay
  <2>1. Returned(row, delay) =
          [row EXCEPT !.status = status, !.owner = NoOwner, !.expires_at = 0,
                      !.available_at = available]
    BY DEF Returned
  <2>2. /\ status \in {"dead", "pending"} /\ available \in Nat
        /\ status = "dead" => row.attempts >= MaxDeliveryAttempts
    OBVIOUS
  <2> HIDE DEF status, available
  <2>3. /\ Returned(row, delay).status = status
        /\ Returned(row, delay).token = row.token
        /\ Returned(row, delay).attempts = row.attempts
    BY <2>1 DEF DeliveryRow
  <2>4. Returned(row, delay) \in DeliveryRow
    <3>1. /\ status \in {"pending", "inflight", "delivered", "dead"}
          /\ NoOwner \in Owner \union {NoOwner} /\ 0 \in Nat
      BY <2>2
    <3> QED
      BY <2>1, <2>2, <3>1 DEF DeliveryRow
  <2> QED
    BY <2>2, <2>3, <2>4
<1> QED
  BY <1>1, <1>2, <1>3, <1>4

\* The rows a commit stages: new deliveries of its run and operation.
LEMMA StagedRowsTypes ==
  ASSUME clock \in Nat, NEW w \in Workflow, NEW op \in Task, NEW envelopes \in SUBSET Envelope
  PROVE  /\ IsTable(StagedRows(w, op, envelopes), DeliveryId, DeliveryRow)
         /\ \A d \in DOMAIN StagedRows(w, op, envelopes) :
              /\ d[1] = w /\ d[2] = op
              /\ StagedRows(w, op, envelopes)[d].status = "pending"
              /\ StagedRows(w, op, envelopes)[d].attempts = 0
              /\ StagedRows(w, op, envelopes)[d].token = 0
<1> DEFINE rows == StagedRows(w, op, envelopes)
           ids == {<<w, op, e.id>> : e \in envelopes}
<1>1. DOMAIN rows = ids /\ rows = [d \in DOMAIN rows |-> rows[d]]
  BY DEF StagedRows
<1>2. \A d \in ids :
        /\ d \in DeliveryId /\ d[1] = w /\ d[2] = op
        /\ rows[d] \in DeliveryRow
        /\ rows[d].status = "pending" /\ rows[d].attempts = 0 /\ rows[d].token = 0
  <2> SUFFICES ASSUME NEW d \in ids
               PROVE  /\ d \in DeliveryId /\ d[1] = w /\ d[2] = op
                      /\ rows[d] \in DeliveryRow
                      /\ rows[d].status = "pending" /\ rows[d].attempts = 0
                      /\ rows[d].token = 0
    OBVIOUS
  <2>1. PICK e \in envelopes : d = <<w, op, e.id>>
    OBVIOUS
  <2> DEFINE chosen == CHOOSE x \in envelopes : x.id = d[3]
  <2>2. chosen \in envelopes
    <3>1. e.id = d[3]
      BY <2>1
    <3> QED
      BY <3>1
  <2>3. chosen \in Envelope /\ e \in Envelope
    BY <2>2
  <2>4. d \in DeliveryId /\ d[1] = w /\ d[2] = op
    BY <2>1, <2>3 DEF DeliveryId, Envelope
  <2>5. rows[d] = [kind |-> chosen.kind, destination |-> chosen.destination,
                   status |-> "pending", owner |-> NoOwner, token |-> 0, expires_at |-> 0,
                   available_at |-> 0, attempts |-> 0, created_at |-> clock]
    BY DEF StagedRows
  <2> HIDE DEF chosen, rows
  <2>6. clock \in Nat /\ chosen.kind \in Kind /\ chosen.destination \in Destination
    BY <2>3 DEF Envelope
  <2>7. rows[d] \in DeliveryRow
    BY <2>5, <2>6 DEF DeliveryRow
  <2> QED
    BY <2>4, <2>5, <2>7
<1> HIDE DEF rows, ids
<1>3. IsTable(rows, DeliveryId, DeliveryRow)
  BY <1>1, <1>2 DEF IsTable
<1> QED
  BY <1>1, <1>2, <1>3 DEF rows

-----------------------------------------------------------------------------
(* The operations keep the types of their tables.                            *)

\* Registering a channel.
LEMMA RegisterChannelTypes ==
  ASSUME MessagingTablesOK, NEW destination \in Destination, NEW kind \in Kind,
         NEW version \in ChannelVersion, NEW s \in Schema,
         RegisterChannel(destination, kind, version, s)
  PROVE  MessagingTablesOK'
<1>1. /\ channels' = Insert(channels, <<destination, kind, version>>, s)
      /\ UNCHANGED deliveries
  BY DEF RegisterChannel
<1>2. <<destination, kind, version>> \in Destination \X Kind \X ChannelVersion
  OBVIOUS
<1>3. IsTable(channels', Destination \X Kind \X ChannelVersion, Schema)
  BY <1>1, <1>2 DEF IsTable, Insert, Upsert, MessagingTablesOK
<1> QED
  BY <1>1, <1>3 DEF MessagingTablesOK

\* Receiving: any row may be buried, claimed or left.
LEMMA ClaimDeliveryTypes ==
  ASSUME MessagingTablesOK, clock \in Nat, NEW id, NEW kind, NEW destination,
         NEW owner \in Owner, NEW ttl \in Nat, NEW W,
         ClaimDelivery(id, kind, destination, owner, ttl, W)
  PROVE  MessagingTablesOK'
<1>1. IsTable(deliveries, DeliveryId, DeliveryRow) /\ ttl \in Nat
  BY DEF MessagingTablesOK
<1>2. /\ UNCHANGED channels
      /\ DOMAIN deliveries' = DOMAIN deliveries
      /\ deliveries' = [d \in DOMAIN deliveries' |-> deliveries'[d]]
      /\ \A d \in DOMAIN deliveries :
           deliveries'[d] \in {Buried(deliveries[d]), Claimed(deliveries[d], owner, ttl), deliveries[d]}
  BY DEF ClaimDelivery, ClaimUpdate
<1>3. \A d \in DOMAIN deliveries :
        /\ d \in DeliveryId /\ deliveries[d] \in DeliveryRow
        /\ Buried(deliveries[d]) \in DeliveryRow
        /\ Claimed(deliveries[d], owner, ttl) \in DeliveryRow
  BY <1>1, RowUpdates DEF IsTable
<1>4. IsTable(deliveries', DeliveryId, DeliveryRow)
  BY <1>2, <1>3 DEF IsTable
<1> QED
  BY <1>2, <1>4 DEF MessagingTablesOK

\* Receiving nothing: rows may be buried.
LEMMA ClaimNothingTypes ==
  ASSUME MessagingTablesOK, NEW kind, NEW destination, NEW W,
         ClaimNothing(kind, destination, W)
  PROVE  MessagingTablesOK'
<1>1. /\ UNCHANGED channels
      /\ DOMAIN deliveries' = DOMAIN deliveries
      /\ deliveries' = [d \in DOMAIN deliveries' |-> deliveries'[d]]
      /\ \A d \in DOMAIN deliveries : deliveries'[d] \in {Buried(deliveries[d]), deliveries[d]}
  BY DEF ClaimNothing, ClaimUpdate
<1>2. \A row \in DeliveryRow : Buried(row) \in DeliveryRow
  BY DEF Buried, DeliveryRow
<1>3. IsTable(deliveries', DeliveryId, DeliveryRow)
  BY <1>1, <1>2 DEF MessagingTablesOK, IsTable
<1> QED
  BY <1>1, <1>3 DEF MessagingTablesOK

\* Acknowledging outside a commit.
LEMMA AcknowledgeTypes ==
  ASSUME MessagingTablesOK, NEW id, NEW owner, NEW token, Acknowledge(id, owner, token)
  PROVE  MessagingTablesOK'
<1> DEFINE new == Delivered(deliveries[id])
<1>1. /\ IsTable(deliveries, DeliveryId, DeliveryRow)
      /\ id \in DOMAIN deliveries /\ deliveries[id] \in DeliveryRow
  BY DEF MessagingTablesOK, Acknowledge, AcknowledgeAllowed, Held, IsTable
<1>2. new \in DeliveryRow
  BY <1>1 DEF Delivered, DeliveryRow
<1>3. UNCHANGED channels /\ deliveries' = [deliveries EXCEPT ![id] = new]
  BY DEF Acknowledge
<1> HIDE DEF new
<1>4. IsTable(deliveries', DeliveryId, DeliveryRow)
  BY <1>1, <1>2, <1>3 DEF IsTable
<1> QED
  BY <1>3, <1>4 DEF MessagingTablesOK

\* Rejecting.
LEMMA RejectDeliveryTypes ==
  ASSUME MessagingTablesOK, clock \in Nat, NEW id, NEW owner \in Owner, NEW token,
         NEW retry_after \in Nat, RejectDelivery(id, owner, token, retry_after)
  PROVE  MessagingTablesOK'
<1> DEFINE new == Returned(deliveries[id], retry_after)
<1>1. /\ IsTable(deliveries, DeliveryId, DeliveryRow)
      /\ id \in DOMAIN deliveries /\ deliveries[id] \in DeliveryRow
      /\ retry_after \in Nat
  BY DEF MessagingTablesOK, RejectDelivery, Held, IsTable
<1>2. new \in DeliveryRow
  BY <1>1, RowUpdates
<1>3. UNCHANGED channels /\ deliveries' = [deliveries EXCEPT ![id] = new]
  BY DEF RejectDelivery
<1> HIDE DEF new
<1>4. IsTable(deliveries', DeliveryId, DeliveryRow)
  BY <1>1, <1>2, <1>3 DEF IsTable
<1> QED
  BY <1>3, <1>4 DEF MessagingTablesOK
=============================================================================
