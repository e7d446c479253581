----------------------- MODULE EffectDispatchersProofs -----------------------
(***************************************************************************)
(* The outbox with its dispatchers: what a claim and the timeout around the *)
(* handler guarantee while calls, requests and rows go their own ways, and  *)
(* that all of it together is the channel of EffectChannel.                 *)
(***************************************************************************)
EXTENDS EffectDispatchers, MessagingProofs, FiniteSetTheorems

USE DispatcherAssumption, MessagingAssumption

-----------------------------------------------------------------------------
(* The inductive invariant.                                                  *)

\* A claim lasts longer than the call made under it: until it ends, the row is still
\* the caller's, in flight under the call's token.
Covered(d) ==
  /\ calls[d].since <= clock
  /\ calls[d].id \in DOMAIN deliveries
  /\ clock < calls[d].since + DispatchTtl =>
       /\ deliveries[calls[d].id].owner = d
       /\ deliveries[calls[d].id].token = calls[d].token
       /\ deliveries[calls[d].id].status = "inflight"
       /\ deliveries[calls[d].id].expires_at = calls[d].since + DispatchTtl

ClaimCovers == \A d \in Dispatcher : Calling(d) => Covered(d)

\* A success that a dispatcher waits to report has happened.
SuccessesHappened ==
  \A d \in Dispatcher : Calling(d) /\ calls[d].answer = "ok" => happened[calls[d].id] > 0

\* Every claim takes one attempt and one token, and there are so many of them.
AttemptsBounded ==
  \A id \in DOMAIN deliveries :
    /\ deliveries[id].token = deliveries[id].attempts
    /\ deliveries[id].attempts <= MaxDeliveryAttempts

\* An effect has rows only from a commit, and requests only from its claims.
FromCommits == \A id \in DOMAIN deliveries : <<id[1], id[2]>> \in published

FromClaims ==
  /\ IsFiniteSet(requests)
  /\ \A q \in requests : q[1] \in DOMAIN deliveries /\ q[2] <= deliveries[q[1]].token

OnTheirWay(id) == {q \in requests : q[1] = id}

\* What happened and what may still happen is paid for by the attempts.
HappeningsPaid ==
  \A id \in DeliveryId : happened[id] + Cardinality(OnTheirWay(id)) <= TriesOf(id)

Inv ==
  /\ TypeOK
  /\ ClaimCovers
  /\ SuccessesHappened
  /\ AttemptsBounded
  /\ FromCommits
  /\ FromClaims
  /\ HappeningsPaid

-----------------------------------------------------------------------------
(* Calls and positions.                                                      *)

\* A call in progress is a record, and knows what it is for.
LEMMA CallTypes ==
  ASSUME TypeOK, NEW d \in Dispatcher, calls[d] # Idle
  PROVE  /\ calls[d] \in Call
         /\ calls[d].id \in DeliveryId /\ calls[d].token \in Nat \ {0}
         /\ calls[d].attempts \in Nat /\ calls[d].since \in Nat
<1>1. calls[d] \in Call
  BY DEF TypeOK
<1> QED
  BY <1>1 DEF Call

\* The next destination, or the first one, is a destination of the round.
LEMMA PositionTypes ==
  ASSUME position \in [Dispatcher -> 1..Len(Handled)], NEW d \in Dispatcher,
         NextInRound(d) \/ RoundAborted(d)
  PROVE  position' \in [Dispatcher -> 1..Len(Handled)]
<1>1. Len(Handled) \in Nat \ {0}
  OBVIOUS
<1>2. \A p \in 1..Len(Handled) : (p % Len(Handled)) + 1 \in 1..Len(Handled)
  BY <1>1
<1>3. position[d] \in 1..Len(Handled) /\ 1 \in 1..Len(Handled)
  BY <1>1
<1>4. PICK p \in 1..Len(Handled) : position' = [position EXCEPT ![d] = p]
  BY <1>2, <1>3 DEF NextInRound, RoundAborted
<1> QED
  BY <1>4

\* A dispatcher that is done is idle, and the calls of the others go on.
LEMMA DoneCalls ==
  ASSUME calls \in [Dispatcher -> Call \union {Idle}], NEW d \in Dispatcher, Done(d)
  PROVE  /\ calls' \in [Dispatcher -> Call \union {Idle}]
         /\ calls'[d] = Idle
         /\ \A o \in Dispatcher \ {d} : calls'[o] = calls[o]
BY DEF Done

\* A dispatcher that rejects keeps its call, as do the others.
LEMMA RejectingCalls ==
  ASSUME calls \in [Dispatcher -> Call \union {Idle}], NEW d \in Dispatcher, calls[d] # Idle,
         Rejecting(d)
  PROVE  /\ calls' \in [Dispatcher -> Call \union {Idle}]
         /\ calls'[d].phase = "rejecting"
         /\ \A o \in Dispatcher \ {d} : calls'[o] = calls[o]
<1> DEFINE new == [calls[d] EXCEPT !.phase = "rejecting"]
<1>1. calls[d] \in Call
  OBVIOUS
<1>2. new \in Call /\ new.phase = "rejecting"
  BY <1>1 DEF Call
<1>3. calls' = [calls EXCEPT ![d] = new]
  BY DEF Rejecting
<1> HIDE DEF new
<1> QED
  BY <1>2, <1>3

\* The delay of a rejected effect.
LEMMA DelayType == ASSUME NEW n PROVE RetryDelay(n) \in Nat
BY DEF RetryDelay

-----------------------------------------------------------------------------
(* What claims, acknowledgements and rejections make of the rows.            *)

\* A claim of the rows in D takes rows that still have attempts, buries rows that have
\* none, and touches no row under a live claim.
RowsTaken(destination, owner, ttl, D) ==
  /\ DOMAIN deliveries' = DOMAIN deliveries
  /\ \A id \in DOMAIN deliveries :
       /\ InFlight(id) => deliveries'[id] = deliveries[id]
       /\ id \in D =>
            /\ id \notin Exhausted("effect", destination)
            /\ deliveries[id].status \in {"pending", "inflight"}
            /\ deliveries[id].attempts < MaxDeliveryAttempts
            /\ deliveries'[id] = Claimed(deliveries[id], owner, ttl)
       /\ id \in Exhausted("effect", destination) =>
            /\ deliveries[id].status \in {"pending", "inflight"}
            /\ deliveries[id].attempts = MaxDeliveryAttempts
            /\ deliveries'[id] = Buried(deliveries[id])
       /\ id \notin D \union Exhausted("effect", destination) =>
            deliveries'[id] = deliveries[id]

\* Claims do so, also those that find nothing.
LEMMA ClaimRows ==
  ASSUME MessagingTablesOK, AttemptsBounded, clock \in Nat, NEW destination,
         NEW owner \in Owner, NEW ttl \in Nat, NEW D,
         D \subseteq Eligible("effect", destination, Workflow),
         ClaimUpdate("effect", destination, owner, ttl, D), UNCHANGED channels
  PROVE  MessagingTablesOK' /\ RowsTaken(destination, owner, ttl, D)
<1> DEFINE gone == Exhausted("effect", destination)
<1>1. IsTable(deliveries, DeliveryId, DeliveryRow)
  BY DEF MessagingTablesOK
<1>2. /\ DOMAIN deliveries' = DOMAIN deliveries
      /\ deliveries' = [d \in DOMAIN deliveries' |-> deliveries'[d]]
      /\ \A d \in DOMAIN deliveries :
           deliveries'[d] = IF d \in gone THEN Buried(deliveries[d])
                            ELSE IF d \in D THEN Claimed(deliveries[d], owner, ttl)
                            ELSE deliveries[d]
  BY DEF ClaimUpdate
<1>3. \A d \in gone : /\ d \in DOMAIN deliveries
                      /\ deliveries[d].status \in {"pending", "inflight"}
                      /\ ~Unexpired(deliveries[d].expires_at)
                      /\ deliveries[d].attempts >= MaxDeliveryAttempts
  BY DEF Exhausted, WaitingAt, Waiting
<1>4. \A d \in D : /\ d \in DOMAIN deliveries
                   /\ deliveries[d].status \in {"pending", "inflight"}
                   /\ ~Unexpired(deliveries[d].expires_at)
                   /\ deliveries[d].attempts < MaxDeliveryAttempts
  BY DEF Eligible, WaitingAt, Waiting
<1> HIDE DEF gone
<1>5. \A d \in DOMAIN deliveries :
        /\ d \in DeliveryId /\ deliveries[d] \in DeliveryRow
        /\ deliveries[d].attempts \in Nat /\ deliveries[d].attempts <= MaxDeliveryAttempts
  BY <1>1 DEF IsTable, DeliveryRow, AttemptsBounded
<1>6. \A d \in DOMAIN deliveries : /\ Buried(deliveries[d]) \in DeliveryRow
                                   /\ Claimed(deliveries[d], owner, ttl) \in DeliveryRow
  BY <1>5, RowUpdates
<1>7. MessagingTablesOK'
  <2>1. IsTable(deliveries', DeliveryId, DeliveryRow)
    BY <1>2, <1>5, <1>6 DEF IsTable
  <2> QED
    BY <2>1 DEF MessagingTablesOK
<1>8. ASSUME NEW d \in DOMAIN deliveries
      PROVE  /\ InFlight(d) => d \notin gone /\ d \notin D
             /\ d \in D => d \notin gone
             /\ d \in gone => deliveries[d].attempts = MaxDeliveryAttempts
  BY <1>3, <1>4, <1>5 DEF InFlight
<1> QED
  BY <1>2, <1>3, <1>4, <1>7, <1>8 DEF gone, RowsTaken

\* One row takes another value.
RowPut(id, row) ==
  /\ id \in DOMAIN deliveries /\ DOMAIN deliveries' = DOMAIN deliveries
  /\ deliveries'[id] = row
  /\ \A i \in DOMAIN deliveries \ {id} : deliveries'[i] = deliveries[i]

\* What it makes of the row it takes.
LEMMA ClaimedRow ==
  ASSUME NEW row \in DeliveryRow, NEW owner \in Owner, NEW ttl \in Nat, clock \in Nat
  PROVE  /\ Claimed(row, owner, ttl).status = "inflight"
         /\ Claimed(row, owner, ttl).owner = owner
         /\ Claimed(row, owner, ttl).token = row.token + 1
         /\ Claimed(row, owner, ttl).attempts = row.attempts + 1
         /\ Claimed(row, owner, ttl).expires_at = clock + ttl
BY RowUpdates

\* Acknowledging settles the row, or leaves what is settled.
LEMMA AcknowledgeRows ==
  ASSUME MessagingTablesOK, clock \in Nat, NEW id, NEW owner \in Owner, NEW token,
         Acknowledge(id, owner, token)
  PROVE  /\ MessagingTablesOK' /\ RowPut(id, Delivered(deliveries[id]))
         /\ deliveries[id].owner = owner
         /\ deliveries[id].status \in {"inflight", "delivered"}
<1> DEFINE new == Delivered(deliveries[id])
<1>1. /\ IsTable(deliveries, DeliveryId, DeliveryRow)
      /\ id \in DOMAIN deliveries /\ deliveries[id] \in DeliveryRow
      /\ deliveries[id].owner = owner /\ deliveries[id].token = token
      /\ deliveries[id].status \in {"inflight", "delivered"}
  BY DEF MessagingTablesOK, IsTable, Acknowledge, AcknowledgeAllowed, Held, InFlight
<1>2. new \in DeliveryRow
  BY <1>1 DEF Delivered, DeliveryRow
<1>3. UNCHANGED channels /\ deliveries' = [deliveries EXCEPT ![id] = new]
  BY DEF Acknowledge
<1>4. new = Delivered(deliveries[id])
  OBVIOUS
<1> HIDE DEF new
<1>5. IsTable(deliveries', DeliveryId, DeliveryRow)
  BY <1>1, <1>2, <1>3 DEF IsTable
<1> QED
  BY <1>1, <1>3, <1>4, <1>5 DEF MessagingTablesOK, RowPut

\* Rejecting gives the row back, or buries it after its last attempt.
LEMMA RejectRows ==
  ASSUME MessagingTablesOK, clock \in Nat, NEW id, NEW owner \in Owner, NEW token,
         NEW delay \in Nat, RejectDelivery(id, owner, token, delay)
  PROVE  /\ MessagingTablesOK' /\ RowPut(id, Returned(deliveries[id], delay))
         /\ deliveries[id].owner = owner
         /\ deliveries[id].status = "inflight"
<1>1. MessagingTablesOK'
  BY RejectDeliveryTypes
<1>2. /\ IsTable(deliveries, DeliveryId, DeliveryRow)
      /\ id \in DOMAIN deliveries
      /\ deliveries[id].owner = owner /\ deliveries[id].status = "inflight"
      /\ deliveries' = [deliveries EXCEPT ![id] = Returned(deliveries[id], delay)]
  BY DEF MessagingTablesOK, RejectDelivery, Held, InFlight
<1> QED
  BY <1>1, <1>2 DEF RowPut

-----------------------------------------------------------------------------
(* Steps at whose end no dispatcher begins a call or gets an answer.         *)

\* Calls end or go on as they are.
CallsEnd == \A d \in Dispatcher : Calling(d)' => calls'[d] = calls[d]

\* Rows gain attempts at most.
RowsGoOn ==
  /\ DOMAIN deliveries \subseteq DOMAIN deliveries'
  /\ \A id \in DOMAIN deliveries :
       /\ deliveries'[id].attempts \in Nat /\ deliveries'[id].token \in Nat
       /\ deliveries'[id].attempts >= deliveries[id].attempts
       /\ deliveries'[id].token >= deliveries[id].token

\* The row of a dispatcher that holds a live claim stays as it is.
ClaimKept(d) ==
  calls[d].id \in DOMAIN deliveries /\ InFlight(calls[d].id)
    /\ deliveries[calls[d].id].owner = d =>
  deliveries'[calls[d].id] = deliveries[calls[d].id]

ClaimsKept == \A d \in Dispatcher : Calling(d)' => ClaimKept(d)

\* A call that goes on stays covered.
LEMMA CoverKept ==
  ASSUME TypeOK, NEW d \in Dispatcher, Calling(d), Covered(d), ClaimKept(d),
         calls'[d].id = calls[d].id, calls'[d].token = calls[d].token,
         calls'[d].since = calls[d].since,
         DOMAIN deliveries \subseteq DOMAIN deliveries', clock' \in Nat, clock' >= clock
  PROVE  Covered(d)'
<1>1. calls[d].since \in Nat /\ clock \in Nat
  BY CallTypes DEF Calling, TypeOK
<1>2. calls[d].since <= clock /\ calls[d].id \in DOMAIN deliveries
  BY DEF Covered
<1>3. ASSUME clock' < calls[d].since + DispatchTtl
      PROVE  /\ deliveries'[calls[d].id].owner = d
             /\ deliveries'[calls[d].id].token = calls[d].token
             /\ deliveries'[calls[d].id].status = "inflight"
             /\ deliveries'[calls[d].id].expires_at = calls[d].since + DispatchTtl
  <2>1. clock < calls[d].since + DispatchTtl
    BY <1>1, <1>3
  <2>2. /\ deliveries[calls[d].id].owner = d
        /\ deliveries[calls[d].id].token = calls[d].token
        /\ deliveries[calls[d].id].status = "inflight"
        /\ deliveries[calls[d].id].expires_at = calls[d].since + DispatchTtl
    BY <2>1 DEF Covered
  <2>3. InFlight(calls[d].id)
    BY <1>1, <2>1, <2>2 DEF InFlight, Unexpired
  <2> QED
    BY <1>2, <2>2, <2>3 DEF ClaimKept
<1> QED
  BY <1>1, <1>2, <1>3 DEF Covered

\* And the whole invariant, if the rows do.
LEMMA EndInv ==
  ASSUME Inv, TypeOK', AttemptsBounded', FromCommits', CallsEnd, RowsGoOn, ClaimsKept,
         clock' >= clock, UNCHANGED <<requests, happened>>
  PROVE  Inv'
<1>1. ClaimCovers'
  <2> SUFFICES ASSUME NEW d \in Dispatcher, Calling(d)'
               PROVE  Covered(d)'
    BY DEF ClaimCovers
  <2>1. calls'[d] = calls[d] /\ Calling(d) /\ ClaimKept(d)
    BY DEF CallsEnd, ClaimsKept, Calling
  <2>2. /\ TypeOK /\ Covered(d) /\ DOMAIN deliveries \subseteq DOMAIN deliveries'
        /\ clock' \in Nat
    BY <2>1 DEF Inv, ClaimCovers, RowsGoOn, TypeOK
  <2> QED
    BY <2>1, <2>2, CoverKept
<1>2. SuccessesHappened'
  <2> SUFFICES ASSUME NEW d \in Dispatcher, Calling(d)', calls'[d].answer = "ok"
               PROVE  happened[calls'[d].id] > 0
    BY DEF SuccessesHappened
  <2>1. calls'[d] = calls[d] /\ Calling(d)
    BY DEF CallsEnd, Calling
  <2> QED
    BY <2>1 DEF Inv, SuccessesHappened
<1>3. FromClaims'
  <2> SUFFICES ASSUME NEW q \in requests
               PROVE  q[1] \in DOMAIN deliveries' /\ q[2] <= deliveries'[q[1]].token
    BY DEF Inv, FromClaims
  <2>1. q[1] \in DOMAIN deliveries /\ q[2] <= deliveries[q[1]].token /\ q[2] \in Nat
    BY DEF Inv, FromClaims, TypeOK
  <2>2. deliveries[q[1]].token \in Nat
    BY <2>1 DEF Inv, TypeOK, MessagingTablesOK, IsTable, DeliveryRow
  <2> QED
    BY <2>1, <2>2 DEF RowsGoOn
<1>4. HappeningsPaid'
  <2> SUFFICES ASSUME NEW id \in DeliveryId
               PROVE  happened[id] + Cardinality(OnTheirWay(id)') <= TriesOf(id)'
    BY DEF HappeningsPaid
  <2>1. OnTheirWay(id)' = OnTheirWay(id)
    BY DEF OnTheirWay
  <2>2. happened[id] + Cardinality(OnTheirWay(id)) <= TriesOf(id)
    BY DEF Inv, HappeningsPaid
  <2>3. TriesOf(id) \in Nat /\ TriesOf(id)' \in Nat /\ TriesOf(id)' >= TriesOf(id)
    <3>1. id \in DOMAIN deliveries => deliveries[id].attempts \in Nat
      BY DEF Inv, TypeOK, MessagingTablesOK, IsTable, DeliveryRow
    <3>2. id \in DOMAIN deliveries' => deliveries'[id].attempts \in Nat
      BY DEF TypeOK, MessagingTablesOK, IsTable, DeliveryRow
    <3> QED
      BY <3>1, <3>2 DEF TriesOf, RowsGoOn
  <2>4. happened[id] \in Nat /\ Cardinality(OnTheirWay(id)) \in Nat
    <3>1. IsFiniteSet(OnTheirWay(id))
      <4>1. IsFiniteSet(requests) /\ OnTheirWay(id) \subseteq requests
        BY DEF Inv, FromClaims, OnTheirWay
      <4> QED
        BY <4>1, FS_Subset
    <3> QED
      BY <3>1, FS_CardinalityType DEF Inv, TypeOK
  <2> QED
    BY <2>1, <2>2, <2>3, <2>4
<1> QED
  BY <1>1, <1>2, <1>3, <1>4 DEF Inv

\* The rows are left alone.
LEMMA RowsAlone ==
  ASSUME Inv, UNCHANGED <<channels, deliveries, published>>
  PROVE  MessagingTablesOK' /\ AttemptsBounded' /\ FromCommits' /\ RowsGoOn /\ ClaimsKept
<1>1. \A id \in DOMAIN deliveries : deliveries[id].attempts \in Nat /\ deliveries[id].token \in Nat
  BY DEF Inv, TypeOK, MessagingTablesOK, IsTable, DeliveryRow
<1> QED
  BY <1>1
  DEF Inv, TypeOK, MessagingTablesOK, AttemptsBounded, FromCommits, RowsGoOn, ClaimsKept,
      ClaimKept

\* One row changes, and keeps its token and attempts.
LEMMA RowAnswered ==
  ASSUME Inv, MessagingTablesOK', NEW id \in DOMAIN deliveries, UNCHANGED published,
         DOMAIN deliveries' = DOMAIN deliveries,
         \A i \in DOMAIN deliveries \ {id} : deliveries'[i] = deliveries[i],
         deliveries'[id].token = deliveries[id].token,
         deliveries'[id].attempts = deliveries[id].attempts,
         NEW owner, deliveries[id].owner = owner, ~Calling(owner)'
  PROVE  AttemptsBounded' /\ FromCommits' /\ RowsGoOn /\ ClaimsKept
<1>1. \A i \in DOMAIN deliveries : deliveries[i].attempts \in Nat /\ deliveries[i].token \in Nat
  BY DEF Inv, TypeOK, MessagingTablesOK, IsTable, DeliveryRow
<1>2. \A i \in DOMAIN deliveries : /\ deliveries'[i].token = deliveries[i].token
                                   /\ deliveries'[i].attempts = deliveries[i].attempts
  OBVIOUS
<1>3. AttemptsBounded' /\ FromCommits' /\ RowsGoOn
  BY <1>1, <1>2 DEF Inv, AttemptsBounded, FromCommits, RowsGoOn
<1>4. ClaimsKept
  BY DEF ClaimsKept, ClaimKept
<1> QED
  BY <1>3, <1>4

\* A claim that nobody is told of.
LEMMA RowsClaimed ==
  ASSUME Inv, NEW destination, NEW owner \in Owner, NEW ttl \in Nat, NEW D,
         D \subseteq Eligible("effect", destination, Workflow),
         ClaimUpdate("effect", destination, owner, ttl, D), UNCHANGED <<channels, published>>
  PROVE  MessagingTablesOK' /\ AttemptsBounded' /\ FromCommits' /\ RowsGoOn /\ ClaimsKept
<1>1. MessagingTablesOK /\ AttemptsBounded /\ clock \in Nat /\ UNCHANGED channels
  BY DEF Inv, TypeOK
<1>2. \A id \in DOMAIN deliveries :
        /\ deliveries[id] \in DeliveryRow
        /\ deliveries[id].attempts \in Nat /\ deliveries[id].token \in Nat
        /\ deliveries[id].token = deliveries[id].attempts
        /\ deliveries[id].attempts <= MaxDeliveryAttempts
  BY <1>1 DEF MessagingTablesOK, IsTable, DeliveryRow, AttemptsBounded
<1>3. /\ MessagingTablesOK'
      /\ DOMAIN deliveries' = DOMAIN deliveries
      /\ \A id \in DOMAIN deliveries :
           /\ InFlight(id) => deliveries'[id] = deliveries[id]
           /\ \/ /\ deliveries[id].attempts < MaxDeliveryAttempts
                 /\ deliveries'[id] = Claimed(deliveries[id], owner, ttl)
              \/ deliveries'[id] = Buried(deliveries[id])
              \/ deliveries'[id] = deliveries[id]
  <2>1. MessagingTablesOK' /\ RowsTaken(destination, owner, ttl, D)
    BY <1>1, ClaimRows
  <2> QED
    BY <2>1 DEF RowsTaken
<1>4. \A id \in DOMAIN deliveries :
        /\ Claimed(deliveries[id], owner, ttl).token = deliveries[id].token + 1
        /\ Claimed(deliveries[id], owner, ttl).attempts = deliveries[id].attempts + 1
        /\ Buried(deliveries[id]).token = deliveries[id].token
        /\ Buried(deliveries[id]).attempts = deliveries[id].attempts
  BY <1>1, <1>2, RowUpdates
<1>5. \A id \in DOMAIN deliveries :
        \/ /\ deliveries'[id].token = deliveries[id].token + 1
           /\ deliveries'[id].attempts = deliveries[id].attempts + 1
           /\ deliveries[id].attempts < MaxDeliveryAttempts
        \/ /\ deliveries'[id].token = deliveries[id].token
           /\ deliveries'[id].attempts = deliveries[id].attempts
  BY <1>3, <1>4
<1>6. AttemptsBounded' /\ RowsGoOn
  BY <1>2, <1>3, <1>5 DEF AttemptsBounded, RowsGoOn
<1>7. FromCommits' /\ ClaimsKept
  BY <1>3 DEF Inv, FromCommits, ClaimsKept, ClaimKept
<1> QED
  BY <1>3, <1>6, <1>7

-----------------------------------------------------------------------------
(* The steps.                                                                *)

\* At first there is nothing.
LEMMA InitInv == Init => Inv
<1> SUFFICES ASSUME Init PROVE Inv
  OBVIOUS
<1>1. DOMAIN deliveries = {} /\ MessagingTablesOK
  BY DEF IsTable, EmptyTable, Init, MessagingTablesOK
<1>2. \A d \in Dispatcher : calls[d] = Idle /\ ~Calling(d)
  BY DEF Init, Calling
<1>3. TypeOK
  <2>1. 1 \in 1..Len(Handled)
    OBVIOUS
  <2>2. faults \in 0..MaxFaults
    BY DEF Init
  <2> QED
    BY <1>1, <2>1, <2>2 DEF Init, TypeOK
<1>4. ClaimCovers /\ SuccessesHappened
  BY <1>2 DEF ClaimCovers, SuccessesHappened
<1>5. AttemptsBounded /\ FromCommits
  BY <1>1 DEF AttemptsBounded, FromCommits
<1>6. FromClaims
  BY FS_EmptySet DEF Init, FromClaims
<1>7. HappeningsPaid
  <2> SUFFICES ASSUME NEW id \in DeliveryId
               PROVE  happened[id] + Cardinality(OnTheirWay(id)) <= TriesOf(id)
    BY DEF HappeningsPaid
  <2>1. OnTheirWay(id) = {}
    BY DEF Init, OnTheirWay
  <2>2. Cardinality(OnTheirWay(id)) = 0
    BY <2>1, FS_EmptySet
  <2>3. happened[id] = 0 /\ TriesOf(id) = 0
    BY <1>1 DEF Init, TriesOf
  <2> QED
    BY <2>2, <2>3
<1> QED
  BY <1>3, <1>4, <1>5, <1>6, <1>7 DEF Inv

\* The rows a commit publishes are new, and there are no requests for them.
LEMMA PublishInv ==
  ASSUME Inv, NEW w \in Workflow, NEW op \in Task, NEW envelopes \in Envelopes,
         Publish(w, op, envelopes)
  PROVE  Inv'
<1> DEFINE rows == StagedRows(w, op, envelopes)
<1>1. /\ UNCHANGED <<clock, channels, calls, position, requests, happened, faults>>
      /\ <<w, op>> \notin published /\ published' = published \union {<<w, op>>}
      /\ deliveries' = Upsert(deliveries, rows)
  BY DEF Publish, StageEnvelopes
<1>2. /\ IsTable(rows, DeliveryId, DeliveryRow)
      /\ \A d \in DOMAIN rows : /\ d[1] = w /\ d[2] = op
                                /\ rows[d].attempts = 0 /\ rows[d].token = 0
  BY StagedRowsTypes DEF Inv, TypeOK
<1> HIDE DEF rows
<1>3. IsTable(deliveries, DeliveryId, DeliveryRow)
  BY DEF Inv, TypeOK, MessagingTablesOK
<1>4. /\ DOMAIN deliveries' = DOMAIN deliveries \union DOMAIN rows
      /\ DOMAIN deliveries \intersect DOMAIN rows = {}
      /\ \A d \in DOMAIN rows : deliveries'[d] = rows[d]
      /\ \A d \in DOMAIN deliveries : deliveries'[d] = deliveries[d]
  <2>1. DOMAIN deliveries \intersect DOMAIN rows = {}
    BY <1>1, <1>2 DEF Inv, FromCommits
  <2> QED
    BY <1>1, <2>1 DEF Upsert
<1>5. TypeOK'
  <2>1. IsTable(deliveries', DeliveryId, DeliveryRow)
    BY <1>1, <1>2, <1>3 DEF IsTable, Upsert
  <2> QED
    BY <1>1, <2>1 DEF Inv, TypeOK, MessagingTablesOK
<1>6. \A d \in DOMAIN deliveries : deliveries[d].attempts \in Nat /\ deliveries[d].token \in Nat
  BY <1>3 DEF IsTable, DeliveryRow
<1>7. AttemptsBounded' /\ FromCommits' /\ RowsGoOn /\ ClaimsKept
  BY <1>1, <1>2, <1>4, <1>6
  DEF Inv, AttemptsBounded, FromCommits, RowsGoOn, ClaimsKept, ClaimKept
<1>8. CallsEnd /\ clock' >= clock
  BY <1>1 DEF CallsEnd, Inv, TypeOK
<1> QED
  BY <1>1, <1>5, <1>7, <1>8, EndInv

\* Going on with the round.
LEMMA PassByInv == ASSUME Inv, NEW d \in Dispatcher, PassBy(d) PROVE Inv'
<1>1. UNCHANGED <<clock, published, calls, requests, happened, faults>> /\ NextInRound(d)
  BY DEF PassBy
<1>2. MessagingTablesOK' /\ AttemptsBounded' /\ FromCommits' /\ RowsGoOn /\ ClaimsKept
  <2>1. CASE ClaimNothing("effect", Handled[position[d]], Workflow)
    <3> DEFINE destination == Handled[position[d]]
    <3>1. UNCHANGED <<channels, published>> /\ ClaimUpdate("effect", destination, d, 0, {})
      BY <1>1, <2>1 DEF ClaimNothing, ClaimUpdate
    <3>2. d \in Owner /\ 0 \in Nat /\ {} \subseteq Eligible("effect", destination, Workflow)
      BY DEF Dispatcher
    <3> HIDE DEF destination
    <3> QED
      BY <3>1, <3>2, RowsClaimed
  <2>2. CASE UNCHANGED <<channels, deliveries>>
    BY <1>1, <2>2, RowsAlone
  <2> QED
    BY <2>1, <2>2 DEF PassBy
<1>3. position' \in [Dispatcher -> 1..Len(Handled)]
  BY <1>1, PositionTypes DEF Inv, TypeOK
<1>4. TypeOK'
  BY <1>1, <1>2, <1>3 DEF Inv, TypeOK
<1>5. CallsEnd /\ clock' >= clock
  BY <1>1 DEF CallsEnd, Inv, TypeOK
<1> QED
  BY <1>1, <1>2, <1>4, <1>5, EndInv

\* A claim whose dispatcher does not hear of it.
LEMMA ClaimFailsInv == ASSUME Inv, NEW d \in Dispatcher, ClaimFails(d) PROVE Inv'
<1>1. UNCHANGED <<clock, published, calls, requests, happened>> /\ RoundAborted(d) /\ Fault
  BY DEF ClaimFails
<1>2. MessagingTablesOK' /\ AttemptsBounded' /\ FromCommits' /\ RowsGoOn /\ ClaimsKept
  <2>1. ASSUME NEW id \in DOMAIN deliveries, ClaimFor(d, id)
        PROVE  MessagingTablesOK' /\ AttemptsBounded' /\ FromCommits' /\ RowsGoOn /\ ClaimsKept
    <3> DEFINE destination == Handled[position[d]]
    <3>1. /\ UNCHANGED <<channels, published>>
          /\ ClaimUpdate("effect", destination, d, DispatchTtl, {id})
          /\ {id} \subseteq Eligible("effect", destination, Workflow)
      BY <1>1, <2>1 DEF ClaimFor, ClaimDelivery, Oldest
    <3>2. d \in Owner /\ DispatchTtl \in Nat
      BY DEF Dispatcher
    <3> HIDE DEF destination
    <3> QED
      BY <3>1, <3>2, RowsClaimed
  <2>2. CASE UNCHANGED <<channels, deliveries>>
    BY <1>1, <2>2, RowsAlone
  <2> QED
    BY <2>1, <2>2 DEF ClaimFails
<1>3. position' \in [Dispatcher -> 1..Len(Handled)] /\ faults' \in 0..MaxFaults
  BY <1>1, PositionTypes DEF Inv, TypeOK, Fault
<1>4. TypeOK'
  BY <1>1, <1>2, <1>3 DEF Inv, TypeOK
<1>5. CallsEnd /\ clock' >= clock
  BY <1>1 DEF CallsEnd, Inv, TypeOK
<1> QED
  BY <1>1, <1>2, <1>4, <1>5, EndInv

\* What a dispatcher does with its row when a call is over.
Answer(d) ==
  \/ Acknowledge(calls[d].id, d, calls[d].token)
  \/ RejectDelivery(calls[d].id, d, calls[d].token, RetryDelay(calls[d].attempts))
  \/ UNCHANGED <<channels, deliveries>>

\* A call that is over, whatever its dispatcher does with the row.
LEMMA CallOverInv ==
  ASSUME Inv, NEW d \in Dispatcher, calls[d] # Idle, Done(d) \/ Rejecting(d), Answer(d),
         position' \in [Dispatcher -> 1..Len(Handled)], faults' \in 0..MaxFaults,
         UNCHANGED <<clock, published, requests, happened>>
  PROVE  Inv'
<1>1. /\ TypeOK /\ MessagingTablesOK /\ clock \in Nat /\ d \in Owner
      /\ calls \in [Dispatcher -> Call \union {Idle}]
  BY DEF Inv, TypeOK, Dispatcher
<1>2. /\ calls' \in [Dispatcher -> Call \union {Idle}]
      /\ ~Calling(d)'
      /\ \A o \in Dispatcher \ {d} : calls'[o] = calls[o]
  <2>1. CASE Done(d)
    BY <1>1, <2>1, DoneCalls DEF Calling
  <2>2. CASE Rejecting(d)
    BY <1>1, <2>2, RejectingCalls DEF Calling
  <2> QED
    BY <2>1, <2>2
<1>3. CallsEnd /\ clock' >= clock
  BY <1>1, <1>2 DEF CallsEnd
<1>4. MessagingTablesOK' /\ AttemptsBounded' /\ FromCommits' /\ RowsGoOn /\ ClaimsKept
  <2> DEFINE id == calls[d].id
             delay == RetryDelay(calls[d].attempts)
  <2>1. CASE Acknowledge(id, d, calls[d].token)
    <3>1. /\ MessagingTablesOK' /\ id \in DOMAIN deliveries
          /\ DOMAIN deliveries' = DOMAIN deliveries
          /\ deliveries'[id] = Delivered(deliveries[id])
          /\ \A i \in DOMAIN deliveries \ {id} : deliveries'[i] = deliveries[i]
          /\ deliveries[id].owner = d
      BY <1>1, <2>1, AcknowledgeRows DEF RowPut
    <3>2. deliveries[id] \in DeliveryRow
      BY <1>1, <3>1 DEF MessagingTablesOK, IsTable
    <3>3. /\ deliveries'[id].token = deliveries[id].token
          /\ deliveries'[id].attempts = deliveries[id].attempts
      BY <3>1, <3>2 DEF Delivered, DeliveryRow
    <3> QED
      BY <1>2, <3>1, <3>3, RowAnswered
  <2>2. CASE RejectDelivery(id, d, calls[d].token, delay)
    <3>1. delay \in Nat
      BY DelayType
    <3> HIDE DEF delay
    <3>2. /\ MessagingTablesOK' /\ id \in DOMAIN deliveries
          /\ DOMAIN deliveries' = DOMAIN deliveries
          /\ deliveries'[id] = Returned(deliveries[id], delay)
          /\ \A i \in DOMAIN deliveries \ {id} : deliveries'[i] = deliveries[i]
          /\ deliveries[id].owner = d
      BY <1>1, <2>2, <3>1, RejectRows DEF RowPut
    <3>3. deliveries[id] \in DeliveryRow
      BY <1>1, <3>2 DEF MessagingTablesOK, IsTable
    <3>4. /\ deliveries'[id].token = deliveries[id].token
          /\ deliveries'[id].attempts = deliveries[id].attempts
      BY <3>2, <3>3 DEF Returned, DeliveryRow
    <3> QED
      BY <1>2, <3>2, <3>4, RowAnswered
  <2>3. CASE UNCHANGED <<channels, deliveries>>
    BY <2>3, RowsAlone
  <2> QED
    BY <2>1, <2>2, <2>3 DEF Answer
<1>5. TypeOK'
  BY <1>1, <1>2, <1>4 DEF Inv, TypeOK
<1> QED
  BY <1>3, <1>4, <1>5, EndInv

\* Every step that ends a call does so in this way.
LEMMA CallOverSteps ==
  ASSUME Inv, NEW d \in Dispatcher,
         \/ Confirm(d) \/ ConfirmRefused(d) \/ ConfirmFails(d) \/ CallFails(d)
         \/ Reject(d) \/ RejectFails(d) \/ Stop(d)
  PROVE  /\ calls[d] # Idle
         /\ Done(d) \/ Rejecting(d)
         /\ Answer(d)
         /\ position' \in [Dispatcher -> 1..Len(Handled)] /\ faults' \in 0..MaxFaults
         /\ UNCHANGED <<clock, published, requests, happened>>
<1>1. calls[d] # Idle
  BY DEF Confirm, ConfirmRefused, ConfirmFails, CallFails, Reject, RejectFails, Stop, Calling, Idle
<1>2. (Done(d) \/ Rejecting(d)) /\ Answer(d)
  BY DEF Confirm, ConfirmRefused, ConfirmFails, CallFails, Reject, RejectFails, Stop, Answer
<1>3. UNCHANGED <<clock, published, requests, happened>>
  BY DEF Confirm, ConfirmRefused, ConfirmFails, CallFails, Reject, RejectFails, Stop
<1>4. UNCHANGED position \/ NextInRound(d) \/ RoundAborted(d)
  BY DEF Confirm, ConfirmRefused, ConfirmFails, CallFails, Reject, RejectFails, Stop
<1>5. UNCHANGED faults \/ Fault
  BY DEF Confirm, ConfirmRefused, ConfirmFails, CallFails, Reject, RejectFails, Stop
<1>6. position' \in [Dispatcher -> 1..Len(Handled)]
  BY <1>4, PositionTypes DEF Inv, TypeOK
<1>7. faults' \in 0..MaxFaults
  BY <1>5 DEF Inv, TypeOK, Fault
<1> QED
  BY <1>1, <1>2, <1>3, <1>6, <1>7

\* Time passes.
LEMMA WaitInv == ASSUME Inv, Wait PROVE Inv'
<1>1. /\ UNCHANGED <<channels, deliveries, published, calls, position, requests, happened, faults>>
      /\ clock' = clock + 1 /\ clock \in Nat
  BY DEF Wait, Tick, Inv, TypeOK
<1>2. MessagingTablesOK' /\ AttemptsBounded' /\ FromCommits' /\ RowsGoOn /\ ClaimsKept
  BY <1>1, RowsAlone
<1>3. TypeOK'
  BY <1>1, <1>2 DEF Inv, TypeOK
<1>4. CallsEnd /\ clock' >= clock
  BY <1>1 DEF CallsEnd
<1> QED
  BY <1>1, <1>2, <1>3, <1>4, EndInv

\* How many requests of an effect are on their way is a number.
LEMMA CountTypes ==
  ASSUME TypeOK, FromClaims, NEW id \in DeliveryId
  PROVE  /\ IsFiniteSet(OnTheirWay(id)) /\ Cardinality(OnTheirWay(id)) \in Nat
         /\ happened[id] \in Nat /\ TriesOf(id) \in Nat
<1>1. IsFiniteSet(OnTheirWay(id))
  <2>1. IsFiniteSet(requests) /\ OnTheirWay(id) \subseteq requests
    BY DEF FromClaims, OnTheirWay
  <2> QED
    BY <2>1, FS_Subset
<1>2. happened[id] \in Nat
  BY DEF TypeOK
<1>3. TriesOf(id) \in Nat
  BY DEF TypeOK, MessagingTablesOK, IsTable, DeliveryRow, TriesOf
<1> QED
  BY <1>1, <1>2, <1>3, FS_CardinalityType

\* A claim, its token and the request made under it.
LEMMA DispatchInv ==
  ASSUME Inv, NEW d \in Dispatcher, NEW id \in DOMAIN deliveries, NEW stalled \in BOOLEAN,
         Dispatch(d, id, stalled)
  PROVE  Inv'
<1> DEFINE row == deliveries[id]
           call == Begun(row, id, stalled)
           q == <<id, row.token + 1>>
<1>1. /\ UNCHANGED <<clock, channels, published, position, happened>>
      /\ calls' = [calls EXCEPT ![d] = call]
      /\ requests' = requests \union {q}
  BY DEF Dispatch, ClaimFor, ClaimDelivery
<1>2. faults' \in 0..MaxFaults
  BY DEF Dispatch, Fault, Inv, TypeOK
<1>3. /\ TypeOK /\ MessagingTablesOK /\ AttemptsBounded /\ FromClaims /\ clock \in Nat
      /\ d \in Owner
  BY DEF Inv, TypeOK, Dispatcher
<1>4. /\ id \in DeliveryId /\ row \in DeliveryRow
      /\ row.token \in Nat /\ row.attempts \in Nat /\ row.token = row.attempts
  BY <1>3 DEF MessagingTablesOK, IsTable, DeliveryRow, AttemptsBounded
<1>5. /\ MessagingTablesOK' /\ AttemptsBounded' /\ FromCommits' /\ RowsGoOn /\ ClaimsKept
      /\ DOMAIN deliveries' = DOMAIN deliveries
      /\ deliveries'[id] = Claimed(row, d, DispatchTtl)
      /\ \A o \in Dispatcher : ClaimKept(o)
  <2> DEFINE destination == Handled[position[d]]
  <2>1. /\ UNCHANGED <<channels, published>> /\ UNCHANGED channels
        /\ ClaimUpdate("effect", destination, d, DispatchTtl, {id})
        /\ {id} \subseteq Eligible("effect", destination, Workflow)
    BY <1>1 DEF Dispatch, ClaimFor, ClaimDelivery, Oldest
  <2>2. DispatchTtl \in Nat
    OBVIOUS
  <2> HIDE DEF destination
  <2>3. MessagingTablesOK' /\ AttemptsBounded' /\ FromCommits' /\ RowsGoOn /\ ClaimsKept
    BY <1>3, <2>1, <2>2, RowsClaimed
  <2>4. RowsTaken(destination, d, DispatchTtl, {id})
    BY <1>3, <2>1, <2>2, ClaimRows
  <2> QED
    BY <2>3, <2>4 DEF RowsTaken, ClaimKept
<1>6. /\ deliveries'[id].status = "inflight" /\ deliveries'[id].owner = d
      /\ deliveries'[id].token = row.token + 1
      /\ deliveries'[id].attempts = row.attempts + 1
      /\ deliveries'[id].expires_at = clock + DispatchTtl
  <2>1. PICK ttl \in Nat : ttl = DispatchTtl
    OBVIOUS
  <2> HIDE DEF row
  <2>2. PICK r \in DeliveryRow : r = row
    BY <1>4
  <2>3. /\ Claimed(r, d, ttl).status = "inflight" /\ Claimed(r, d, ttl).owner = d
        /\ Claimed(r, d, ttl).token = r.token + 1
        /\ Claimed(r, d, ttl).attempts = r.attempts + 1
        /\ Claimed(r, d, ttl).expires_at = clock + ttl
    BY <1>3, ClaimedRow
  <2> QED
    BY <1>5, <2>1, <2>2, <2>3
<1>7. /\ call \in Call /\ call # Idle
      /\ call.phase = "calling" /\ call.answer = "none"
      /\ call.id = id /\ call.token = row.token + 1 /\ call.since = clock
  <2>1. row.token + 1 \in Nat \ {0} /\ row.attempts + 1 \in Nat
    BY <1>4
  <2> QED
    BY <1>3, <1>4, <2>1 DEF Begun, Call, Idle
<1>8. q \in DeliveryId \X (Nat \ {0}) /\ q[1] = id /\ q[2] = row.token + 1
  BY <1>4
<1> HIDE DEF row, call, q
<1>9. /\ calls'[d] = call
      /\ \A o \in Dispatcher \ {d} : calls'[o] = calls[o]
      /\ calls' \in [Dispatcher -> Call \union {Idle}]
  BY <1>1, <1>3, <1>7 DEF TypeOK
<1>10. TypeOK'
  BY <1>1, <1>2, <1>3, <1>5, <1>8, <1>9 DEF TypeOK
<1>11. ClaimCovers'
  <2> SUFFICES ASSUME NEW o \in Dispatcher, Calling(o)'
               PROVE  Covered(o)'
    BY DEF ClaimCovers
  <2>1. CASE o = d
    BY <1>1, <1>3, <1>5, <1>6, <1>7, <1>9, <2>1 DEF Covered
  <2>2. CASE o # d
    <3>1. calls'[o] = calls[o] /\ Calling(o)
      BY <1>9, <2>2 DEF Calling
    <3>2. Covered(o) /\ ClaimKept(o) /\ DOMAIN deliveries \subseteq DOMAIN deliveries'
      BY <1>5, <3>1 DEF Inv, ClaimCovers
    <3> QED
      BY <1>1, <1>3, <3>1, <3>2, CoverKept
  <2> QED
    BY <2>1, <2>2
<1>12. SuccessesHappened'
  BY <1>1, <1>7, <1>9 DEF Inv, SuccessesHappened, Calling
<1>13. FromClaims'
  <2>1. IsFiniteSet(requests')
    BY <1>1, <1>3, FS_AddElement DEF FromClaims
  <2>2. \A r \in requests : r[1] \in DOMAIN deliveries' /\ r[2] <= deliveries'[r[1]].token
    <3> SUFFICES ASSUME NEW r \in requests
                 PROVE  r[1] \in DOMAIN deliveries' /\ r[2] <= deliveries'[r[1]].token
      OBVIOUS
    <3>1. /\ r[1] \in DOMAIN deliveries /\ r[2] <= deliveries[r[1]].token
          /\ r[2] \in Nat /\ deliveries[r[1]].token \in Nat
      BY <1>3 DEF FromClaims, TypeOK, MessagingTablesOK, IsTable, DeliveryRow
    <3> QED
      BY <1>5, <3>1 DEF RowsGoOn
  <2>3. q[1] \in DOMAIN deliveries' /\ q[2] <= deliveries'[q[1]].token
    BY <1>4, <1>5, <1>6, <1>8
  <2> QED
    BY <1>1, <2>1, <2>2, <2>3 DEF FromClaims
<1>14. HappeningsPaid'
  <2> SUFFICES ASSUME NEW i \in DeliveryId
               PROVE  happened[i] + Cardinality(OnTheirWay(i)') <= TriesOf(i)'
    BY <1>1 DEF HappeningsPaid
  <2>1. /\ happened[i] + Cardinality(OnTheirWay(i)) <= TriesOf(i)
        /\ IsFiniteSet(OnTheirWay(i)) /\ Cardinality(OnTheirWay(i)) \in Nat
        /\ happened[i] \in Nat /\ TriesOf(i) \in Nat
    BY <1>3, CountTypes DEF Inv, HappeningsPaid
  <2>2. CASE i = id
    <3>1. OnTheirWay(i)' = OnTheirWay(i) \union {q}
      BY <1>1, <1>8, <2>2 DEF OnTheirWay
    <3>2. q \notin OnTheirWay(i)
      BY <1>3, <1>4, <1>8, <2>2 DEF OnTheirWay, FromClaims, row
    <3>3. Cardinality(OnTheirWay(i)') = Cardinality(OnTheirWay(i)) + 1
      BY <2>1, <3>1, <3>2, FS_AddElement
    <3>4. TriesOf(i)' = TriesOf(i) + 1
      BY <1>5, <1>6, <2>2 DEF TriesOf, row
    <3> QED
      BY <2>1, <3>3, <3>4
  <2>3. CASE i # id
    <3>1. OnTheirWay(i)' = OnTheirWay(i)
      BY <1>1, <1>8, <2>3 DEF OnTheirWay
    <3>2. TriesOf(i)' >= TriesOf(i) /\ TriesOf(i)' \in Nat
      BY <1>5, <2>1 DEF TriesOf, RowsGoOn
    <3> QED
      BY <2>1, <3>1, <3>2
  <2> QED
    BY <2>2, <2>3
<1> QED
  BY <1>5, <1>10, <1>11, <1>12, <1>13, <1>14 DEF Inv

\* A request gets its answer, having happened or not.
LEMMA AnsweredInv ==
  ASSUME Inv, NEW q \in requests, NEW answer \in {"ok", "error"}, Answered(q, answer),
         requests' = requests \ {q},
         \/ happened' = [happened EXCEPT ![q[1]] = @ + 1]
         \/ happened' = happened /\ answer = "error",
         UNCHANGED <<clock, channels, deliveries, published, position, faults>>
  PROVE  Inv'
<1>1. TypeOK /\ FromClaims /\ HappeningsPaid /\ clock \in Nat
  BY DEF Inv, TypeOK
<1>2. q[1] \in DeliveryId /\ happened \in [DeliveryId -> Nat]
  BY <1>1 DEF TypeOK
<1>3. ASSUME NEW d \in Dispatcher
      PROVE  /\ calls'[d] \in Call \union {Idle}
             /\ Calling(d)' => /\ Calling(d)
                               /\ calls'[d].id = calls[d].id
                               /\ calls'[d].token = calls[d].token
                               /\ calls'[d].since = calls[d].since
                               /\ \/ calls'[d].answer = calls[d].answer
                                  \/ calls'[d].answer = answer /\ calls[d].id = q[1]
  <2>1. CASE Awaiting(d, q)
    <3>1. calls'[d] = [calls[d] EXCEPT !.answer = answer] /\ Calling(d) /\ calls[d] # Idle
      BY <2>1 DEF Answered, Awaiting, Calling
    <3>2. calls[d] \in Call /\ calls[d].id = q[1]
      BY <1>1, <2>1, <3>1 DEF TypeOK, Awaiting
    <3> QED
      BY <3>1, <3>2 DEF Call
  <2>2. CASE ~Awaiting(d, q)
    BY <1>1, <2>2 DEF Answered, TypeOK, Calling
  <2> QED
    BY <2>1, <2>2
<1>4. /\ happened' \in [DeliveryId -> Nat]
      /\ \A id \in DeliveryId : /\ happened'[id] >= happened[id]
                                /\ id # q[1] => happened'[id] = happened[id]
                                /\ happened'[id] <= happened[id] + (IF id = q[1] THEN 1 ELSE 0)
                                /\ answer = "ok" /\ id = q[1] => happened'[id] > 0
  BY <1>2
<1>5. TypeOK'
  <2>1. calls' \in [Dispatcher -> Call \union {Idle}]
    BY <1>3 DEF Answered
  <2> QED
    BY <1>1, <1>4, <2>1 DEF TypeOK, MessagingTablesOK
<1>6. ClaimCovers'
  <2> SUFFICES ASSUME NEW d \in Dispatcher, Calling(d)'
               PROVE  Covered(d)'
    BY DEF ClaimCovers
  <2>1. /\ Calling(d) /\ Covered(d) /\ ClaimKept(d)
        /\ calls'[d].id = calls[d].id /\ calls'[d].token = calls[d].token
        /\ calls'[d].since = calls[d].since
    BY <1>3 DEF Inv, ClaimCovers, ClaimKept
  <2> QED
    BY <1>1, <2>1, CoverKept
<1>7. SuccessesHappened'
  <2> SUFFICES ASSUME NEW d \in Dispatcher, Calling(d)', calls'[d].answer = "ok"
               PROVE  happened'[calls'[d].id] > 0
    BY DEF SuccessesHappened
  <2>1. Calling(d) /\ calls'[d].id = calls[d].id /\ calls[d].id \in DeliveryId
    BY <1>1, <1>3, CallTypes DEF Calling
  <2>2. CASE calls'[d].answer = calls[d].answer
    <3>1. happened[calls[d].id] > 0 /\ happened[calls[d].id] \in Nat
      BY <1>2, <2>1, <2>2 DEF Inv, SuccessesHappened
    <3>2. happened'[calls[d].id] \in Nat /\ happened'[calls[d].id] >= happened[calls[d].id]
      BY <1>4, <2>1
    <3> QED
      BY <2>1, <3>1, <3>2
  <2>3. CASE calls'[d].answer = answer /\ calls[d].id = q[1]
    BY <1>4, <2>1, <2>3
  <2> QED
    BY <1>3, <2>2, <2>3
<1>8. AttemptsBounded' /\ FromCommits'
  BY DEF Inv, AttemptsBounded, FromCommits
<1>9. FromClaims'
  BY <1>1, FS_RemoveElement DEF FromClaims
<1>10. HappeningsPaid'
  <2> SUFFICES ASSUME NEW id \in DeliveryId
               PROVE  happened'[id] + Cardinality(OnTheirWay(id)') <= TriesOf(id)
    BY DEF HappeningsPaid, TriesOf
  <2>1. /\ happened[id] + Cardinality(OnTheirWay(id)) <= TriesOf(id)
        /\ IsFiniteSet(OnTheirWay(id)) /\ Cardinality(OnTheirWay(id)) \in Nat
        /\ happened[id] \in Nat /\ TriesOf(id) \in Nat
    BY <1>1, CountTypes DEF HappeningsPaid
  <2>2. happened'[id] \in Nat
    BY <1>4
  <2>3. CASE id = q[1]
    <3>1. OnTheirWay(id)' = OnTheirWay(id) \ {q} /\ q \in OnTheirWay(id)
      BY <2>3 DEF OnTheirWay
    <3>2. Cardinality(OnTheirWay(id)') = Cardinality(OnTheirWay(id)) - 1
      BY <2>1, <3>1, FS_RemoveElement
    <3>3. happened'[id] <= happened[id] + 1
      BY <1>4, <2>3
    <3> QED
      BY <2>1, <2>2, <3>2, <3>3
  <2>4. CASE id # q[1]
    <3>1. OnTheirWay(id)' = OnTheirWay(id)
      BY <2>4 DEF OnTheirWay
    <3> QED
      BY <1>4, <2>1, <2>4, <3>1
  <2> QED
    BY <2>3, <2>4
<1> QED
  BY <1>5, <1>6, <1>7, <1>8, <1>9, <1>10 DEF Inv

\* Every step keeps the invariant.
LEMMA NextInv == Inv /\ [Next]_vars => Inv'
<1> SUFFICES ASSUME Inv, [Next]_vars
             PROVE  Inv'
  OBVIOUS
<1>1. ASSUME NEW w \in Workflow, NEW op \in Task, NEW envelopes \in Envelopes,
             Publish(w, op, envelopes)
      PROVE  Inv'
  BY <1>1, PublishInv
<1>2. ASSUME NEW d \in Dispatcher, NEW id \in DOMAIN deliveries, NEW stalled \in BOOLEAN,
             Dispatch(d, id, stalled)
      PROVE  Inv'
  BY <1>2, DispatchInv
<1>3. ASSUME NEW d \in Dispatcher, PassBy(d) \/ ClaimFails(d)
      PROVE  Inv'
  BY <1>3, PassByInv, ClaimFailsInv
<1>4. ASSUME NEW d \in Dispatcher,
             \/ Confirm(d) \/ ConfirmRefused(d) \/ ConfirmFails(d) \/ CallFails(d)
             \/ Reject(d) \/ RejectFails(d) \/ Stop(d)
      PROVE  Inv'
  BY <1>4, CallOverSteps, CallOverInv
<1>5. ASSUME NEW q \in requests, NEW answer \in {"ok", "error"}, Perform(q, answer)
      PROVE  Inv'
  BY <1>5, AnsweredInv DEF Perform
<1>6. ASSUME NEW q \in requests, Refuse(q)
      PROVE  Inv'
  BY <1>6, AnsweredInv DEF Refuse
<1>7. CASE Wait
  BY <1>7, WaitInv
<1>8. CASE UNCHANGED vars
  BY <1>8
  DEF vars, Inv, TypeOK, MessagingTablesOK, ClaimCovers, Covered, Calling, SuccessesHappened,
      AttemptsBounded, FromCommits, FromClaims, HappeningsPaid, OnTheirWay, TriesOf
<1> QED
  BY <1>1, <1>2, <1>3, <1>4, <1>5, <1>6, <1>7, <1>8 DEF Next, Work

\* So it always holds.
LEMMA InvHolds == Spec => []Inv
<1> QED
  BY InitInv, NextInv, PTL DEF Spec

\* The state is typed.
THEOREM Types == Spec => []TypeOK
<1>1. Inv => TypeOK
  BY DEF Inv
<1> QED
  BY <1>1, InvHolds, PTL

\* While a handler is within its timeout, the claim it was called under is the one in
\* the row: its success can be acknowledged, and any other call of the same effect has
\* overrun its own timeout, whatever was lost, suspended or started again in between.
THEOREM AnswersCount == Spec => []AnswersInTimeCount
<1>1. Inv => AnswersInTimeCount
  <2> SUFFICES ASSUME Inv, NEW d \in Dispatcher, Calling(d),
                      clock <= calls[d].since + HandlerTimeout
               PROVE  /\ AcknowledgeAllowed(calls[d].id, d, calls[d].token)
                      /\ \A o \in Dispatcher \ {d} : Calling(o) /\ calls[o].id = calls[d].id =>
                           clock > calls[o].since + HandlerTimeout
    BY DEF AnswersInTimeCount
  <2>1. /\ clock \in Nat /\ \A o \in Dispatcher : Calling(o) => calls[o].since \in Nat
    BY CallTypes DEF Inv, TypeOK, Calling
  <2>2. ASSUME NEW o \in Dispatcher, Calling(o), clock <= calls[o].since + HandlerTimeout
        PROVE  /\ calls[o].id \in DOMAIN deliveries
               /\ deliveries[calls[o].id].owner = o
               /\ deliveries[calls[o].id].token = calls[o].token
               /\ deliveries[calls[o].id].status = "inflight"
               /\ deliveries[calls[o].id].expires_at > clock
    <3>1. Covered(o) /\ clock < calls[o].since + DispatchTtl
      BY <2>1, <2>2 DEF Inv, ClaimCovers
    <3> QED
      BY <2>1, <3>1 DEF Covered
  <2>3. AcknowledgeAllowed(calls[d].id, d, calls[d].token)
    BY <2>2 DEF AcknowledgeAllowed, Held, InFlight, Unexpired
  <2>4. ASSUME NEW o \in Dispatcher \ {d}, Calling(o), calls[o].id = calls[d].id
        PROVE  clock > calls[o].since + HandlerTimeout
    <3>1. ~(clock <= calls[o].since + HandlerTimeout)
      BY <2>2, <2>4
    <3> QED
      BY <2>1, <2>4, <3>1
  <2> QED
    BY <2>3, <2>4
<1> QED
  BY <1>1, InvHolds, PTL

-----------------------------------------------------------------------------
(* The refinement.                                                           *)

ChannelState ==
  <<[id \in DeliveryId |-> Status(id)], [id \in DeliveryId |-> TriesOf(id)], happened>>

\* The steps of the channel, effect by effect.
LEMMA PublishStep ==
  ASSUME NEW E \in SUBSET DeliveryId, \A e \in E : Status(e) = "unpublished",
         \A e \in DeliveryId : /\ Status(e)' = IF e \in E THEN "queued" ELSE Status(e)
                               /\ TriesOf(e)' = TriesOf(e),
         UNCHANGED happened
  PROVE  Channel!Next
<1>1. Channel!Publish(E)
  BY DEF Channel!Publish
<1> QED
  BY <1>1 DEF Channel!Next

\* Claims.
LEMMA TryStep ==
  ASSUME NEW E \in SUBSET DeliveryId, NEW D \in SUBSET DeliveryId,
         \A e \in E : Status(e) = "queued" /\ TriesOf(e) < MaxDeliveryAttempts,
         \A e \in D : Status(e) = "queued" /\ TriesOf(e) = MaxDeliveryAttempts,
         \A e \in DeliveryId :
           /\ TriesOf(e)' = IF e \in E THEN TriesOf(e) + 1 ELSE TriesOf(e)
           /\ Status(e)' = IF e \in D THEN "dead" ELSE Status(e),
         UNCHANGED happened
  PROVE  Channel!Next
<1>1. Channel!Try(E, D)
  BY DEF Channel!Try
<1> QED
  BY <1>1 DEF Channel!Next

\* Rejections after the last attempt.
LEMMA DropStep ==
  ASSUME NEW e \in DeliveryId, Status(e) = "queued", TriesOf(e) = MaxDeliveryAttempts,
         Status(e)' = "dead",
         \A i \in DeliveryId \ {e} : Status(i)' = Status(i),
         \A i \in DeliveryId : TriesOf(i)' = TriesOf(i),
         UNCHANGED happened
  PROVE  Channel!Next
<1>1. Channel!Try({}, {e})
  BY DEF Channel!Try
<1>2. {} \in SUBSET DeliveryId /\ {e} \in SUBSET DeliveryId
  OBVIOUS
<1> QED
  BY <1>1, <1>2 DEF Channel!Next

\* Acknowledgements.
LEMMA DeliverStep ==
  ASSUME NEW e \in DeliveryId, Status(e) = "queued", happened[e] > 0,
         Status(e)' = "delivered",
         \A i \in DeliveryId \ {e} : Status(i)' = Status(i),
         \A i \in DeliveryId : TriesOf(i)' = TriesOf(i),
         UNCHANGED happened
  PROVE  Channel!Next
<1>1. Channel!Deliver(e)
  BY DEF Channel!Deliver
<1> QED
  BY <1>1 DEF Channel!Next

\* Requests that arrive.
LEMMA HappenStep ==
  ASSUME NEW e \in DeliveryId, happened[e] < TriesOf(e),
         happened' = [happened EXCEPT ![e] = @ + 1], UNCHANGED deliveries
  PROVE  Channel!Next
<1>1. \A i : Status(i)' = Status(i) /\ TriesOf(i)' = TriesOf(i)
  BY DEF Status, Settled, TriesOf
<1>2. Channel!Happen(e)
  BY <1>1 DEF Channel!Happen
<1> QED
  BY <1>2 DEF Channel!Next

\* Everything else.
LEMMA StutterStep ==
  ASSUME \A e \in DeliveryId : Status(e)' = Status(e) /\ TriesOf(e)' = TriesOf(e),
         UNCHANGED happened
  PROVE  UNCHANGED ChannelState
BY DEF ChannelState

\* What the outbox says, by what is in the row.
LEMMA StatusOfRow ==
  ASSUME MessagingTablesOK, NEW id \in DOMAIN deliveries
  PROVE  /\ id \in DeliveryId /\ TriesOf(id) = deliveries[id].attempts
         /\ deliveries[id].status \in {"pending", "inflight"} => Status(id) = "queued"
         /\ deliveries[id].status \in {"delivered", "dead"} => Status(id) = deliveries[id].status
BY DEF MessagingTablesOK, IsTable, DeliveryRow, TriesOf, Status, Settled

\* A commit publishes its effects at once.
LEMMA PublishRefines ==
  ASSUME Inv, Inv', NEW w \in Workflow, NEW op \in Task, NEW envelopes \in Envelopes,
         Publish(w, op, envelopes)
  PROVE  Channel!Next
<1> DEFINE rows == StagedRows(w, op, envelopes)
<1>1. /\ UNCHANGED happened
      /\ <<w, op>> \notin published
      /\ deliveries' = Upsert(deliveries, rows)
  BY DEF Publish, StageEnvelopes
<1>2. /\ DOMAIN rows \subseteq DeliveryId
      /\ \A d \in DOMAIN rows : /\ d[1] = w /\ d[2] = op
                                /\ rows[d].attempts = 0 /\ rows[d].status = "pending"
  BY StagedRowsTypes DEF Inv, TypeOK, IsTable
<1> HIDE DEF rows
<1>3. \A d \in DOMAIN rows : d \notin DOMAIN deliveries
  BY <1>1, <1>2 DEF Inv, FromCommits
<1>4. /\ DOMAIN deliveries' = DOMAIN deliveries \union DOMAIN rows
      /\ \A d \in DOMAIN rows : deliveries'[d] = rows[d]
      /\ \A d \in DOMAIN deliveries : deliveries'[d] = deliveries[d]
  BY <1>1, <1>3 DEF Upsert
<1>5. \A e \in DOMAIN rows : /\ Status(e) = "unpublished" /\ Status(e)' = "queued"
                             /\ TriesOf(e) = 0 /\ TriesOf(e)' = 0
  BY <1>2, <1>3, <1>4 DEF Status, Settled, TriesOf
<1>6. \A e \in DeliveryId \ DOMAIN rows : Status(e)' = Status(e) /\ TriesOf(e)' = TriesOf(e)
  BY <1>4 DEF Status, Settled, TriesOf
<1>7. PICK E \in SUBSET DeliveryId : E = DOMAIN rows
  BY <1>2
<1>8. \A e \in DeliveryId : /\ Status(e)' = IF e \in E THEN "queued" ELSE Status(e)
                            /\ TriesOf(e)' = TriesOf(e)
  BY <1>5, <1>6, <1>7
<1> QED
  BY <1>1, <1>5, <1>7, <1>8, PublishStep

\* A claim tries what it takes and drops what it buries.
LEMMA TakenRefines ==
  ASSUME Inv, MessagingTablesOK', NEW destination, NEW owner \in Owner, NEW ttl \in Nat,
         NEW D \in SUBSET DOMAIN deliveries, RowsTaken(destination, owner, ttl, D),
         UNCHANGED happened
  PROVE  Channel!Next
<1> DEFINE gone == Exhausted("effect", destination)
<1>1. /\ DOMAIN deliveries' = DOMAIN deliveries
      /\ \A id \in DOMAIN deliveries :
           /\ id \in D => /\ id \notin gone
                          /\ deliveries[id].status \in {"pending", "inflight"}
                          /\ deliveries[id].attempts < MaxDeliveryAttempts
                          /\ deliveries'[id] = Claimed(deliveries[id], owner, ttl)
           /\ id \in gone => /\ deliveries[id].status \in {"pending", "inflight"}
                             /\ deliveries[id].attempts = MaxDeliveryAttempts
                             /\ deliveries'[id] = Buried(deliveries[id])
           /\ id \notin D \union gone => deliveries'[id] = deliveries[id]
  BY DEF RowsTaken
<1>2. gone \subseteq DOMAIN deliveries
  BY DEF Exhausted, WaitingAt
<1>3. MessagingTablesOK /\ clock \in Nat
  BY DEF Inv, TypeOK
<1>4. \A id \in DOMAIN deliveries :
        /\ Claimed(deliveries[id], owner, ttl).status = "inflight"
        /\ Claimed(deliveries[id], owner, ttl).attempts = deliveries[id].attempts + 1
        /\ Buried(deliveries[id]).status = "dead"
        /\ Buried(deliveries[id]).attempts = deliveries[id].attempts
  <2>1. \A id \in DOMAIN deliveries : deliveries[id] \in DeliveryRow
    BY <1>3 DEF MessagingTablesOK, IsTable
  <2> QED
    BY <1>3, <2>1, RowUpdates
<1> HIDE DEF gone
<1>5. ASSUME NEW id \in D
      PROVE  /\ Status(id) = "queued" /\ TriesOf(id) < MaxDeliveryAttempts
             /\ TriesOf(id)' = TriesOf(id) + 1 /\ Status(id)' = Status(id)
  BY <1>1, <1>4 DEF Status, Settled, TriesOf
<1>6. ASSUME NEW id \in gone
      PROVE  /\ Status(id) = "queued" /\ TriesOf(id) = MaxDeliveryAttempts
             /\ TriesOf(id)' = TriesOf(id) /\ Status(id)' = "dead"
  BY <1>1, <1>2, <1>4 DEF Status, Settled, TriesOf
<1>7. ASSUME NEW id \in DeliveryId, id \notin D, id \notin gone
      PROVE  Status(id)' = Status(id) /\ TriesOf(id)' = TriesOf(id)
  BY <1>1, <1>7 DEF Status, Settled, TriesOf
<1>8. D \in SUBSET DeliveryId /\ gone \in SUBSET DeliveryId /\ D \intersect gone = {}
  BY <1>1, <1>2, <1>3 DEF MessagingTablesOK, IsTable
<1>9. \A e \in DeliveryId :
        /\ TriesOf(e)' = IF e \in D THEN TriesOf(e) + 1 ELSE TriesOf(e)
        /\ Status(e)' = IF e \in gone THEN "dead" ELSE Status(e)
  BY <1>5, <1>6, <1>7, <1>8
<1> QED
  BY <1>5, <1>6, <1>8, <1>9, TryStep

\* Acknowledging reports what has happened; a second time it changes nothing.
LEMMA AcknowledgeRefines ==
  ASSUME Inv, NEW d \in Dispatcher, Calling(d), Succeeded(calls[d]),
         Acknowledge(calls[d].id, d, calls[d].token), UNCHANGED happened
  PROVE  Channel!Next \/ UNCHANGED ChannelState
<1> PICK id : id = calls[d].id
  OBVIOUS
<1>1. /\ MessagingTablesOK /\ clock \in Nat /\ d \in Owner
  BY DEF Inv, TypeOK, Dispatcher
<1>2. /\ id \in DOMAIN deliveries /\ DOMAIN deliveries' = DOMAIN deliveries
      /\ deliveries[id].status \in {"inflight", "delivered"}
      /\ deliveries'[id] = Delivered(deliveries[id])
      /\ \A i \in DOMAIN deliveries \ {id} : deliveries'[i] = deliveries[i]
  <2>1. /\ RowPut(id, Delivered(deliveries[id]))
        /\ deliveries[id].status \in {"inflight", "delivered"}
    BY <1>1, AcknowledgeRows
  <2> QED
    BY <2>1 DEF RowPut
<1>3. happened[id] > 0
  BY DEF Inv, SuccessesHappened, Succeeded
<1>4. id \in DeliveryId /\ deliveries[id] \in DeliveryRow
  BY <1>1, <1>2 DEF MessagingTablesOK, IsTable
<1>5. /\ deliveries'[id].status = "delivered"
      /\ deliveries'[id].attempts = deliveries[id].attempts
  BY <1>2, <1>4 DEF Delivered, DeliveryRow
<1>6. /\ Status(id)' = "delivered"
      /\ \A i \in DeliveryId : TriesOf(i)' = TriesOf(i)
      /\ \A i \in DeliveryId \ {id} : Status(i)' = Status(i)
  BY <1>2, <1>5 DEF Status, Settled, TriesOf
<1>7. CASE deliveries[id].status = "inflight"
  <2>1. Status(id) = "queued"
    BY <1>2, <1>7 DEF Status, Settled
  <2> QED
    BY <1>3, <1>4, <1>6, <2>1, DeliverStep
<1>8. CASE deliveries[id].status = "delivered"
  <2>1. Status(id) = "delivered"
    BY <1>2, <1>8 DEF Status, Settled
  <2> QED
    BY <1>6, <2>1, StutterStep
<1> QED
  BY <1>2, <1>7, <1>8

\* Rejecting drops an effect after its last attempt, and else changes nothing.
LEMMA RejectRefines ==
  ASSUME Inv, NEW d \in Dispatcher,
         RejectDelivery(calls[d].id, d, calls[d].token, RetryDelay(calls[d].attempts)),
         UNCHANGED happened
  PROVE  Channel!Next \/ UNCHANGED ChannelState
<1> PICK id : id = calls[d].id
  OBVIOUS
<1>1. /\ MessagingTablesOK /\ clock \in Nat /\ d \in Owner
  BY DEF Inv, TypeOK, Dispatcher
<1>2. PICK delay \in Nat : delay = RetryDelay(calls[d].attempts)
  BY DelayType
<1>3. /\ id \in DOMAIN deliveries /\ DOMAIN deliveries' = DOMAIN deliveries
      /\ deliveries[id].status = "inflight"
      /\ deliveries'[id] = Returned(deliveries[id], delay)
      /\ \A i \in DOMAIN deliveries \ {id} : deliveries'[i] = deliveries[i]
  <2>1. RejectDelivery(id, d, calls[d].token, delay)
    BY <1>2
  <2>2. RowPut(id, Returned(deliveries[id], delay)) /\ deliveries[id].status = "inflight"
    BY <1>1, <2>1, RejectRows
  <2> QED
    BY <2>2 DEF RowPut
<1>4. /\ id \in DeliveryId /\ deliveries[id] \in DeliveryRow
      /\ deliveries[id].attempts \in Nat /\ deliveries[id].attempts <= MaxDeliveryAttempts
  BY <1>1, <1>3 DEF MessagingTablesOK, IsTable, DeliveryRow, Inv, AttemptsBounded
<1>5. /\ deliveries'[id].status =
           IF deliveries[id].attempts >= MaxDeliveryAttempts THEN "dead" ELSE "pending"
      /\ deliveries'[id].attempts = deliveries[id].attempts
  BY <1>3, <1>4 DEF Returned, DeliveryRow
<1>6. /\ \A i \in DeliveryId : TriesOf(i)' = TriesOf(i)
      /\ \A i \in DeliveryId \ {id} : Status(i)' = Status(i)
      /\ Status(id) = "queued" /\ TriesOf(id) = deliveries[id].attempts
  BY <1>3, <1>5 DEF Status, Settled, TriesOf
<1>7. CASE deliveries[id].attempts = MaxDeliveryAttempts
  <2>1. Status(id)' = "dead"
    BY <1>3, <1>4, <1>5, <1>7 DEF Status, Settled
  <2>2. Channel!Next
    BY <1>4, <1>6, <1>7, <2>1, DropStep
  <2> QED
    BY <2>2
<1>8. CASE deliveries[id].attempts < MaxDeliveryAttempts
  <2>1. Status(id)' = "queued"
    BY <1>3, <1>4, <1>5, <1>8 DEF Status, Settled
  <2> QED
    BY <1>6, <2>1, StutterStep
<1> QED
  BY <1>4, <1>7, <1>8

\* Every step is a step of the channel, or none.
LEMMA NextRefines ==
  ASSUME Inv, Inv', [Next]_vars
  PROVE  Channel!Next \/ UNCHANGED ChannelState
<1>0. MessagingTablesOK' /\ MessagingTablesOK /\ AttemptsBounded /\ clock \in Nat
  BY DEF Inv, TypeOK
<1>1. ASSUME NEW w \in Workflow, NEW op \in Task, NEW envelopes \in Envelopes,
             Publish(w, op, envelopes)
      PROVE  Channel!Next
  BY <1>1, PublishRefines
<1>2. ASSUME NEW d \in Dispatcher, NEW id \in DOMAIN deliveries, ClaimFor(d, id),
             UNCHANGED happened
      PROVE  Channel!Next
  <2>1. PICK destination : destination = Handled[position[d]]
    OBVIOUS
  <2>2. PICK ttl \in Nat : ttl = DispatchTtl
    OBVIOUS
  <2>3. PICK D \in SUBSET DOMAIN deliveries : D = {id}
    OBVIOUS
  <2>4. /\ UNCHANGED channels /\ d \in Owner
        /\ ClaimUpdate("effect", destination, d, ttl, D)
        /\ D \subseteq Eligible("effect", destination, Workflow)
    BY <1>2, <2>1, <2>2, <2>3 DEF ClaimFor, ClaimDelivery, Oldest, Dispatcher
  <2>5. RowsTaken(destination, d, ttl, D)
    BY <1>0, <2>2, <2>4, ClaimRows
  <2> QED
    BY <1>0, <1>2, <2>2, <2>3, <2>4, <2>5, TakenRefines
<1>3. ASSUME NEW d \in Dispatcher,
             ClaimNothing("effect", Handled[position[d]], Workflow), UNCHANGED happened
      PROVE  Channel!Next
  <2>1. PICK destination : destination = Handled[position[d]]
    OBVIOUS
  <2>2. PICK ttl \in Nat : ttl = 0
    OBVIOUS
  <2>3. PICK D \in SUBSET DOMAIN deliveries : D = {}
    OBVIOUS
  <2>4. /\ UNCHANGED channels /\ d \in Owner
        /\ ClaimUpdate("effect", destination, d, ttl, D)
        /\ D \subseteq Eligible("effect", destination, Workflow)
    BY <1>3, <2>1, <2>2, <2>3 DEF ClaimNothing, ClaimUpdate, Dispatcher
  <2>5. RowsTaken(destination, d, ttl, D)
    BY <1>0, <2>2, <2>4, ClaimRows
  <2> QED
    BY <1>0, <1>3, <2>2, <2>3, <2>4, <2>5, TakenRefines
<1>4. ASSUME NEW d \in Dispatcher, Calling(d), Succeeded(calls[d]), UNCHANGED happened,
             Acknowledge(calls[d].id, d, calls[d].token)
      PROVE  Channel!Next \/ UNCHANGED ChannelState
  BY <1>4, AcknowledgeRefines
<1>5. ASSUME NEW d \in Dispatcher, UNCHANGED happened,
             RejectDelivery(calls[d].id, d, calls[d].token, RetryDelay(calls[d].attempts))
      PROVE  Channel!Next \/ UNCHANGED ChannelState
  BY <1>5, RejectRefines
<1>6. ASSUME NEW q \in requests, NEW answer \in {"ok", "error"}, Perform(q, answer)
      PROVE  Channel!Next
  <2>1. PICK e \in DeliveryId : e = q[1]
    BY DEF Inv, TypeOK
  <2>2. UNCHANGED deliveries /\ happened' = [happened EXCEPT ![e] = @ + 1]
    BY <1>6, <2>1 DEF Perform
  <2>3. happened[e] < TriesOf(e)
    <3>1. /\ happened[e] + Cardinality(OnTheirWay(e)) <= TriesOf(e)
          /\ IsFiniteSet(OnTheirWay(e)) /\ Cardinality(OnTheirWay(e)) \in Nat
          /\ happened[e] \in Nat /\ TriesOf(e) \in Nat
      BY <2>1, CountTypes DEF Inv, HappeningsPaid
    <3>2. q \in OnTheirWay(e)
      BY <2>1 DEF OnTheirWay
    <3>3. Cardinality(OnTheirWay(e)) # 0
      BY <3>1, <3>2, FS_EmptySet
    <3> QED
      BY <3>1, <3>3
  <2> QED
    BY <2>1, <2>2, <2>3, HappenStep
<1>7. CASE UNCHANGED <<deliveries, happened>>
  <2>1. \A e \in DeliveryId : Status(e)' = Status(e) /\ TriesOf(e)' = TriesOf(e)
    BY <1>7 DEF Status, Settled, TriesOf
  <2> QED
    BY <1>7, <2>1, StutterStep
<1>8. ASSUME NEW d \in Dispatcher,
             \/ PassBy(d) \/ ClaimFails(d) \/ Confirm(d) \/ ConfirmRefused(d) \/ ConfirmFails(d)
             \/ CallFails(d) \/ Reject(d) \/ RejectFails(d) \/ Stop(d)
      PROVE  Channel!Next \/ UNCHANGED ChannelState
  <2>1. UNCHANGED happened
    BY <1>8 DEF PassBy, ClaimFails, Confirm, ConfirmRefused, ConfirmFails, CallFails, Reject,
                RejectFails, Stop
  <2>2. \/ UNCHANGED deliveries
        \/ \E id \in DOMAIN deliveries : ClaimFor(d, id)
        \/ ClaimNothing("effect", Handled[position[d]], Workflow)
        \/ Calling(d) /\ Succeeded(calls[d]) /\ Acknowledge(calls[d].id, d, calls[d].token)
        \/ RejectDelivery(calls[d].id, d, calls[d].token, RetryDelay(calls[d].attempts))
    BY <1>8 DEF PassBy, ClaimFails, Confirm, ConfirmRefused, ConfirmFails, CallFails, Reject,
                RejectFails, Stop
  <2> QED
    BY <1>2, <1>3, <1>4, <1>5, <1>7, <2>1, <2>2
<1>9. ASSUME NEW d \in Dispatcher, NEW id \in DOMAIN deliveries, NEW stalled,
             Dispatch(d, id, stalled)
      PROVE  Channel!Next
  BY <1>2, <1>9 DEF Dispatch
<1>10. ASSUME NEW q \in requests, Refuse(q)
       PROVE  UNCHANGED <<deliveries, happened>>
  BY <1>10 DEF Refuse
<1>11. Wait \/ UNCHANGED vars => UNCHANGED <<deliveries, happened>>
  BY DEF Wait, vars
<1> QED
  BY <1>1, <1>6, <1>7, <1>8, <1>9, <1>10, <1>11 DEF Next, Work

\* The outbox with its dispatchers is the channel: however claims, requests, answers and
\* acknowledgements are lost, delayed or repeated, an effect reported delivered has
\* happened, one dropped was tried as often as there are tries, and none happens more
\* often than it was claimed.
THEOREM DispatchersImplementChannel == Spec => ImplementsChannel
<1>1. Init => Channel!Init
  <2> SUFFICES ASSUME Init PROVE Channel!Init
    OBVIOUS
  <2>1. DOMAIN deliveries = {}
    BY DEF IsTable, EmptyTable, Init
  <2>2. \A e \in DeliveryId : Status(e) = "unpublished" /\ TriesOf(e) = 0
    BY <2>1 DEF Status, TriesOf
  <2>3. happened = [e \in DeliveryId |-> 0]
    BY DEF Init
  <2> QED
    BY <2>2, <2>3 DEF Channel!Init
<1>2. Inv /\ Inv' /\ [Next]_vars => [Channel!Next]_ChannelState
  BY NextRefines
<1> QED
  BY <1>1, <1>2, InvHolds, PTL
  DEF Spec, ImplementsChannel, Channel!Spec, Channel!vars, ChannelState
=============================================================================
