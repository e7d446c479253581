--------------------------- MODULE DeliveryClients ---------------------------
(***************************************************************************)
(* Deliveries with the receivers that handle them.  claims is the history   *)
(* of what claim_delivery told each receiver and what became of it, as a    *)
(* receiver may crash, answer late, or answer twice.  Publishing is the     *)
(* part of a commit that stages envelopes, once for each operation.         *)
(***************************************************************************)
EXTENDS Messaging, Sequences

CONSTANTS
  Tasks,         \* the tasks of every run: operation id -> what it may publish
  Envelopes      \* the sets of envelopes a commit may carry

ASSUME DeliveryAssumption == \A envelopes \in Envelopes : envelopes \subseteq Envelope

VARIABLES
  claims,        \* <<delivery id, token>> -> what the receiver was told
  published      \* the operations that have committed

vars == <<clock, channels, deliveries, claims, published>>

Claim ==
  [owner : Owner, expires_at : Nat, answer : {"none", "acknowledged", "rejected"}]

TypeOK ==
  /\ clock \in Nat
  /\ MessagingTablesOK
  /\ IsTable(claims, DeliveryId \X (Nat \ {0}), Claim)
  /\ published \subseteq Workflow \X Task

Init ==
  /\ clock = 0
  /\ MessagingTablesInit
  /\ claims = EmptyTable
  /\ published = {}

-----------------------------------------------------------------------------
Register(destination, kind, version, json_schema) ==
  /\ RegisterChannel(destination, kind, version, json_schema)
  /\ UNCHANGED <<clock, claims, published>>

Publish(w, op, envelopes) ==
  /\ <<w, op>> \notin published
  /\ EnvelopesAllowed(Tasks, op, envelopes)
  /\ deliveries' = StageEnvelopes(w, op, envelopes)
  /\ published' = published \union {<<w, op>>}
  /\ UNCHANGED <<clock, channels, claims>>

Receive(id, kind, destination, owner, ttl, W) ==
  /\ ClaimDelivery(id, kind, destination, owner, ttl, W)
  /\ claims' = Insert(claims, <<id, deliveries[id].token + 1>>,
                 [owner |-> owner, expires_at |-> clock + ttl, answer |-> "none"])
  /\ UNCHANGED <<clock, published>>

ReceiveNothing(kind, destination, W) ==
  ClaimNothing(kind, destination, W) /\ UNCHANGED <<clock, claims, published>>

\* A receiver answers for a claim it was given, however long ago.
Confirm(c) ==
  /\ Acknowledge(c[1], claims[c].owner, c[2])
  /\ claims' = [claims EXCEPT ![c].answer = "acknowledged"]
  /\ UNCHANGED <<clock, published>>

Refuse(c, retry_after) ==
  /\ RejectDelivery(c[1], claims[c].owner, c[2], retry_after)
  /\ claims' = [claims EXCEPT ![c].answer = "rejected"]
  /\ UNCHANGED <<clock, published>>

Wait == Tick /\ UNCHANGED <<channels, deliveries, claims, published>>

\* A claim is for one run or, in an effect dispatcher, for any.
Next ==
  \/ \E destination \in Destination, kind \in Kind, version \in ChannelVersion, s \in Schema :
       Register(destination, kind, version, s)
  \/ \E w \in Workflow, op \in Task, envelopes \in Envelopes : Publish(w, op, envelopes)
  \/ \E id \in DOMAIN deliveries, kind \in Kind, destination \in Destination, owner \in Owner,
        ttl \in DeliveryTtl, W \in {Workflow} \union {{w} : w \in Workflow} :
       Receive(id, kind, destination, owner, ttl, W)
  \/ \E kind \in Kind, destination \in Destination,
        W \in {Workflow} \union {{w} : w \in Workflow} : ReceiveNothing(kind, destination, W)
  \/ \E c \in DOMAIN claims : Confirm(c)
  \/ \E c \in DOMAIN claims, retry_after \in RetryAfter : Refuse(c, retry_after)
  \/ Wait

Spec == Init /\ [][Next]_vars

-----------------------------------------------------------------------------
(* Properties.                                                              *)

ClaimsOf(id) == {c \in DOMAIN claims : c[1] = id}

\* A receiver that has not answered and whose claim has not expired is the only
\* one that handles the delivery: the row is in flight under its token.
LiveClaimIntact ==
  \A c \in DOMAIN claims : claims[c].answer = "none" /\ clock < claims[c].expires_at =>
    /\ c[1] \in DOMAIN deliveries
    /\ deliveries[c[1]].status = "inflight"
    /\ deliveries[c[1]].owner = claims[c].owner
    /\ deliveries[c[1]].token = c[2]
    /\ deliveries[c[1]].expires_at = claims[c].expires_at

\* Every claim ever given counts as an attempt and has a token of its own, also
\* when its receiver died: no delivery is handed out more often than allowed.
AttemptsCountClaims ==
  \A id \in DOMAIN deliveries :
    /\ deliveries[id].attempts = Cardinality(ClaimsOf(id))
    /\ deliveries[id].attempts = deliveries[id].token
    /\ deliveries[id].attempts <= MaxDeliveryAttempts

\* A delivery is dropped only after all its attempts, none of which succeeded.
DeadAfterAllAttempts ==
  \A id \in DOMAIN deliveries : deliveries[id].status = "dead" =>
    /\ deliveries[id].attempts = MaxDeliveryAttempts
    /\ \A c \in ClaimsOf(id) : claims[c].answer # "acknowledged"

\* A delivery is delivered exactly when one of its claims was acknowledged, and
\* that is its last claim: a delivered envelope is never handed out again.
DeliveredByLastClaim ==
  \A id \in DOMAIN deliveries :
    /\ deliveries[id].status = "delivered" <=>
         \E c \in ClaimsOf(id) : claims[c].answer = "acknowledged"
    /\ \A c \in ClaimsOf(id) : claims[c].answer = "acknowledged" => c[2] = deliveries[id].token
=============================================================================
