------------------------------ MODULE Messaging ------------------------------
(***************************************************************************)
(* Mailboxes and the effect outbox (messaging.py): channels are published   *)
(* schemas, deliveries the envelopes that commits staged.  A receiver       *)
(* claims a delivery for a time under a token, handles it outside any       *)
(* transaction, and acknowledges or rejects it.                             *)
(***************************************************************************)
EXTENDS Schemas

CONSTANTS
  Destination,       \* names of mailboxes and effect endpoints
  ChannelVersion,    \* schema_version of channels
  EnvelopeId,        \* ids a task gives its envelopes
  DeliveryTtl,       \* ttl of claims on deliveries
  RetryAfter,        \* delays of rejected deliveries
  MaxDeliveryAttempts    \* the column max_attempts, 5 by default

ASSUME MessagingAssumption ==
  /\ DeliveryTtl \subseteq Nat \ {0}
  /\ RetryAfter \subseteq Nat
  /\ MaxDeliveryAttempts \in Nat \ {0}

VARIABLES
  channels,          \* <<destination, kind, schema_version>> -> schema
  deliveries         \* delivery id -> row

Kind == {"message", "effect"}

Envelope ==
  [id : EnvelopeId, kind : Kind, destination : Destination,
   schema_version : ChannelVersion, payload : Value]

\* The digest of the run, the operation and the envelope's own id.
DeliveryId == Workflow \X Task \X EnvelopeId

DeliveryRow ==
  [kind : Kind, destination : Destination,
   status : {"pending", "inflight", "delivered", "dead"},
   owner : Owner \union {NoOwner}, token : Nat, expires_at : Nat,
   available_at : Nat, attempts : Nat, created_at : Nat]

MessagingTablesOK ==
  /\ IsTable(channels, Destination \X Kind \X ChannelVersion, Schema)
  /\ IsTable(deliveries, DeliveryId, DeliveryRow)

MessagingTablesInit ==
  /\ channels = EmptyTable
  /\ deliveries = EmptyTable

-----------------------------------------------------------------------------
(* Faulty variants, which the runs put in the place of the operator each names. *)

\* Returned, which buries a delivery on any rejection.
BuriedAtOnce(row, retry_after) ==
  [row EXCEPT !.status = "dead", !.owner = NoOwner, !.expires_at = 0,
              !.available_at = clock + retry_after]

\* Held, without the token.
HeldByOwner(id, owner, token) ==
  /\ id \in DOMAIN deliveries
  /\ deliveries[id].owner = owner

\* Waiting, without looking at the expiry.
WaitingAnyTime(id) == deliveries[id].status \in {"pending", "inflight"}

\* StageEnvelopes, forgetting to insert the rows.
NothingStaged(w, op, envelopes) == deliveries

\* Exhausted, an attempt too late: what Eligible no longer takes is never buried.
ExhaustedLate(kind, destination) ==
  {d \in DOMAIN deliveries :
     /\ deliveries[d].kind = kind /\ deliveries[d].destination = destination
     /\ WaitingAnyTime(d) /\ ~Unexpired(deliveries[d].expires_at)
     /\ deliveries[d].attempts > MaxDeliveryAttempts}

\* Claimed, for a destination whose attempts are counted when they are rejected.
ClaimedUncounted(row, owner, ttl) ==
  [row EXCEPT !.status = "inflight", !.owner = owner, !.token = @ + 1,
              !.expires_at = clock + ttl]

\* Buried, with a status that no other part of the program knows.
ExpiredLetter(row) == [row EXCEPT !.status = "expired", !.owner = NoOwner]

-----------------------------------------------------------------------------
(* Publishing.                                                               *)

\* Registering a channel again with the same schema changes nothing, and with
\* another schema it is channel_immutable.
RegisterChannel(destination, kind, version, json_schema) ==
  /\ <<destination, kind, version>> \notin DOMAIN channels
  /\ channels' = Insert(channels, <<destination, kind, version>>, json_schema)
  /\ UNCHANGED deliveries

ChannelOf(e) == <<e.destination, e.kind, e.schema_version>>

\* The checks of stage_envelopes, for an operation of a run whose specification
\* lists tasks (a table, possibly empty).
EnvelopesAllowed(tasks, op, envelopes) ==
  /\ \A e, f \in envelopes : e.id = f.id => e = f
  /\ envelopes # {} =>
       /\ op \in DOMAIN tasks
       /\ \A e \in envelopes : e.destination \in tasks[op].destinations
  /\ op \in DOMAIN tasks =>
       \A r \in tasks[op].emits :
         \E e \in envelopes : e.id = r.id /\ ChannelOf(e) = ChannelOf(r)
  /\ \A e \in envelopes :
       /\ ChannelOf(e) \in DOMAIN channels
       /\ Validates(e.payload, channels[ChannelOf(e)])

\* The rows stage_envelopes inserts.
StagedRows(w, op, envelopes) ==
  [d \in {<<w, op, e.id>> : e \in envelopes} |->
    LET e == CHOOSE x \in envelopes : x.id = d[3] IN
      [kind |-> e.kind, destination |-> e.destination, status |-> "pending",
       owner |-> NoOwner, token |-> 0, expires_at |-> 0, available_at |-> 0,
       attempts |-> 0, created_at |-> clock]]

StageEnvelopes(w, op, envelopes) == Upsert(deliveries, StagedRows(w, op, envelopes))

-----------------------------------------------------------------------------
(* Receiving.                                                                *)

\* Neither done nor under a live claim.
Waiting(id) ==
  /\ deliveries[id].status \in {"pending", "inflight"}
  /\ ~Unexpired(deliveries[id].expires_at)

WaitingAt(kind, destination) ==
  {d \in DOMAIN deliveries :
     deliveries[d].kind = kind /\ deliveries[d].destination = destination /\ Waiting(d)}

\* Waiting after their last attempt.
Exhausted(kind, destination) ==
  {d \in WaitingAt(kind, destination) : deliveries[d].attempts >= MaxDeliveryAttempts}

\* What a claim may take; W is the run it asks for, or all of them.
Eligible(kind, destination, W) ==
  {d \in WaitingAt(kind, destination) :
     /\ deliveries[d].attempts < MaxDeliveryAttempts
     /\ deliveries[d].available_at <= clock
     /\ d[1] \in W}

\* ORDER BY created_at; the order of ids of the same moment is left open.
Oldest(D) == {d \in D : \A e \in D : deliveries[d].created_at <= deliveries[e].created_at}

Claimed(row, owner, ttl) ==
  [row EXCEPT !.status = "inflight", !.owner = owner, !.token = @ + 1,
              !.expires_at = clock + ttl, !.attempts = @ + 1]

Buried(row) == [row EXCEPT !.status = "dead", !.owner = NoOwner]

\* The exhausted deliveries of the destination become dead letters, of whatever
\* run they are, and in the same transaction those in D are claimed.
ClaimUpdate(kind, destination, owner, ttl, D) ==
  deliveries' = [d \in DOMAIN deliveries |->
    IF d \in Exhausted(kind, destination) THEN Buried(deliveries[d])
    ELSE IF d \in D THEN Claimed(deliveries[d], owner, ttl)
    ELSE deliveries[d]]

ClaimDelivery(id, kind, destination, owner, ttl, W) ==
  /\ id \in Oldest(Eligible(kind, destination, W))
  /\ ClaimUpdate(kind, destination, owner, ttl, {id})
  /\ UNCHANGED channels

\* A claim that finds nothing to take still buries what is exhausted.
ClaimNothing(kind, destination, W) ==
  /\ Eligible(kind, destination, W) = {}
  /\ Exhausted(kind, destination) # {}
  /\ ClaimUpdate(kind, destination, NoOwner, 0, {})
  /\ UNCHANGED channels

\* The row names this owner and this token.
Held(id, owner, token) ==
  /\ id \in DOMAIN deliveries
  /\ deliveries[id].owner = owner
  /\ deliveries[id].token = token

InFlight(id) == deliveries[id].status = "inflight" /\ Unexpired(deliveries[id].expires_at)

\* acknowledge_in_transaction: acknowledging again what this claim delivered is no
\* error and changes nothing.
AcknowledgeAllowed(id, owner, token) ==
  /\ Held(id, owner, token)
  /\ deliveries[id].status = "delivered" \/ InFlight(id)

\* Within a commit, only messages of the committing run may be acknowledged.
InScope(id, w) == id[1] = w /\ deliveries[id].kind = "message"

Delivered(row) == [row EXCEPT !.status = "delivered"]

Acknowledge(id, owner, token) ==
  /\ AcknowledgeAllowed(id, owner, token)
  /\ deliveries' = [deliveries EXCEPT ![id] = Delivered(@)]
  /\ UNCHANGED channels

\* A rejected delivery waits for its delay, or is dead after its last attempt.
Returned(row, retry_after) ==
  [row EXCEPT !.status = IF row.attempts >= MaxDeliveryAttempts THEN "dead" ELSE "pending",
              !.owner = NoOwner, !.expires_at = 0, !.available_at = clock + retry_after]

RejectDelivery(id, owner, token, retry_after) ==
  /\ Held(id, owner, token)
  /\ InFlight(id)
  /\ deliveries' = [deliveries EXCEPT ![id] = Returned(@, retry_after)]
  /\ UNCHANGED channels
=============================================================================
