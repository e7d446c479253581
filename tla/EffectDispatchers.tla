-------------------------- MODULE EffectDispatchers --------------------------
(***************************************************************************)
(* Effect dispatchers over the outbox (dispatcher.py).  A dispatcher goes   *)
(* round its destinations: it claims an effect, calls the handler outside   *)
(* any transaction, and acknowledges or rejects.  Every storage call may    *)
(* fail, with or without its transaction; a process may stop at any time    *)
(* and its successor starts anew.  A call that ran into the timeout leaves  *)
(* its request behind, which may still reach the receiver.                  *)
(***************************************************************************)
EXTENDS Messaging, Sequences

CONSTANTS
  Tasks,             \* operation id -> what it may publish
  Envelopes,         \* the sets of envelopes a commit may carry
  Registered,        \* the channels
  Handled,           \* the destinations with a handler, in the order of their dict
  HandlerTimeout,    \* asyncio.timeout around a handler: 20 s
  DispatchTtl,       \* ttl of a dispatcher's claims: 30 s
  MaxDelay,          \* the longest delay of a rejected effect: 60 s
  StallLimit,        \* how long a suspended process may keep an answer
  PublishUntil,      \* bound: commits publish up to this moment
  MaxFaults          \* bound: storage errors, stops and suspensions

Dispatcher == Owner

ASSUME DispatcherAssumption ==
  /\ HandlerTimeout \in Nat \ {0}
  /\ DispatchTtl \in Nat /\ HandlerTimeout < DispatchTtl
  /\ MaxDelay \in Nat
  /\ MaxFaults \in Nat
  /\ Envelopes \subseteq SUBSET Envelope
  /\ IsTable(Registered, Destination \X Kind \X ChannelVersion, Schema)
  /\ Handled \in Seq(Destination) /\ Len(Handled) > 0

VARIABLES
  published,     \* the operations that have committed
  calls,         \* dispatcher -> the effect it handles, or Idle
  position,      \* dispatcher -> the destination of its round it is at
  requests,      \* <<effect, token>> of the requests on their way
  happened,      \* effect -> how often the receiver got it
  faults         \* faults so far

vars == <<clock, channels, deliveries, published, calls, position, requests, happened, faults>>

Idle == [phase |-> "idle"]

Call ==
  [phase : {"calling", "rejecting"}, id : DeliveryId, token : Nat \ {0}, attempts : Nat,
   since : Nat, answer : {"none", "ok", "error"}, stalled : BOOLEAN]

TypeOK ==
  /\ clock \in Nat
  /\ MessagingTablesOK
  /\ published \subseteq Workflow \X Task
  /\ calls \in [Dispatcher -> Call \union {Idle}]
  /\ position \in [Dispatcher -> 1..Len(Handled)]
  /\ requests \subseteq DeliveryId \X (Nat \ {0})
  /\ happened \in [DeliveryId -> Nat]
  /\ faults \in 0..MaxFaults

Init ==
  /\ clock = 0
  /\ channels = Registered
  /\ deliveries = EmptyTable
  /\ published = {}
  /\ calls = [d \in Dispatcher |-> Idle]
  /\ position = [d \in Dispatcher |-> 1]
  /\ requests = {}
  /\ happened = [id \in DeliveryId |-> 0]
  /\ faults = 0

-----------------------------------------------------------------------------
(* A faulty variant, which a run puts in the place of the operator it names. *)

\* Succeeded, for any answer of the endpoint, whatever its status.
AnsweredAtAll(call) == call.answer # "none"

-----------------------------------------------------------------------------
Fault == faults < MaxFaults /\ faults' = faults + 1

\* The handler returned: its endpoint answered with a status of 200 to 299.
Succeeded(call) == call.answer = "ok"

Overrun(call) == clock >= call.since + HandlerTimeout

RetryDelay(n) == IF 2 ^ n \in 1..MaxDelay THEN 2 ^ n ELSE MaxDelay

Begun(row, id, stalled) ==
  [phase |-> "calling", id |-> id, token |-> row.token + 1, attempts |-> row.attempts + 1,
   since |-> clock, answer |-> "none", stalled |-> stalled]

\* The round goes on with the next destination, or starts again after an error.
NextInRound(d) == position' = [position EXCEPT ![d] = (@ % Len(Handled)) + 1]
RoundAborted(d) == position' = [position EXCEPT ![d] = 1]

Done(d) == calls' = [calls EXCEPT ![d] = Idle]
Rejecting(d) == calls' = [calls EXCEPT ![d].phase = "rejecting"]

ClaimFor(d, id) ==
  ClaimDelivery(id, "effect", Handled[position[d]], d, DispatchTtl, Workflow)

EligibleFor(d) == Eligible("effect", Handled[position[d]], Workflow)

Dispatch(d, id, stalled) ==
  /\ calls[d] = Idle
  /\ ClaimFor(d, id)
  /\ IF stalled THEN Fault ELSE UNCHANGED faults
  /\ calls' = [calls EXCEPT ![d] = Begun(deliveries[id], id, stalled)]
  /\ requests' = requests \union {<<id, deliveries[id].token + 1>>}
  /\ UNCHANGED <<clock, published, position, happened>>

\* Nothing to claim at this destination; what is exhausted there is buried.
PassBy(d) ==
  /\ calls[d] = Idle
  /\ EligibleFor(d) = {}
  /\ \/ ClaimNothing("effect", Handled[position[d]], Workflow)
     \/ /\ Exhausted("effect", Handled[position[d]]) = {}
        /\ UNCHANGED <<channels, deliveries>>
  /\ NextInRound(d)
  /\ UNCHANGED <<clock, published, calls, requests, happened, faults>>

\* The claim raises, before or after its transaction.
ClaimFails(d) ==
  /\ calls[d] = Idle
  /\ Fault
  /\ \/ \E id \in DOMAIN deliveries : ClaimFor(d, id)
     \/ UNCHANGED <<channels, deliveries>>
  /\ RoundAborted(d)
  /\ UNCHANGED <<clock, published, calls, requests, happened>>

-----------------------------------------------------------------------------
(* The handler and its endpoint.                                             *)

\* The dispatchers that still wait for the answer to a request.
Awaiting(d, q) ==
  /\ calls[d] # Idle
  /\ calls[d].phase = "calling" /\ <<calls[d].id, calls[d].token>> = q

Answered(q, answer) ==
  calls' = [d \in Dispatcher |->
    IF Awaiting(d, q) THEN [calls[d] EXCEPT !.answer = answer] ELSE calls[d]]

\* The receiver gets a request; its answer may get lost.
Perform(q, answer) ==
  /\ requests' = requests \ {q}
  /\ happened' = [happened EXCEPT ![q[1]] = @ + 1]
  /\ Answered(q, answer)
  /\ UNCHANGED <<clock, channels, deliveries, published, position, faults>>

\* A request that never reaches the receiver, or that it refuses.
Refuse(q) ==
  /\ requests' = requests \ {q}
  /\ Answered(q, "error")
  /\ UNCHANGED <<clock, channels, deliveries, published, position, happened, faults>>

-----------------------------------------------------------------------------
(* Back from the handler.                                                    *)

Calling(d) == calls[d] # Idle /\ calls[d].phase = "calling"

Confirm(d) ==
  /\ Calling(d) /\ Succeeded(calls[d])
  /\ Acknowledge(calls[d].id, d, calls[d].token)
  /\ Done(d) /\ NextInRound(d)
  /\ UNCHANGED <<clock, published, requests, happened, faults>>

\* The acknowledgement is refused (delivery_fenced).
ConfirmRefused(d) ==
  /\ Calling(d) /\ Succeeded(calls[d])
  /\ ~AcknowledgeAllowed(calls[d].id, d, calls[d].token)
  /\ Rejecting(d)
  /\ UNCHANGED <<clock, channels, deliveries, published, position, requests, happened, faults>>

\* The acknowledgement raises, before or after its transaction.
ConfirmFails(d) ==
  /\ Calling(d) /\ Succeeded(calls[d])
  /\ Fault
  /\ \/ Acknowledge(calls[d].id, d, calls[d].token)
     \/ UNCHANGED <<channels, deliveries>>
  /\ Rejecting(d)
  /\ UNCHANGED <<clock, published, position, requests, happened>>

\* The handler raises, or the timeout cancels it while its thread goes on.
CallFails(d) ==
  /\ Calling(d)
  /\ calls[d].answer = "error" \/ (calls[d].answer = "none" /\ Overrun(calls[d]))
  /\ Rejecting(d)
  /\ UNCHANGED <<clock, channels, deliveries, published, position, requests, happened, faults>>

\* delivery_fenced is no error here: the claim expired, or was acknowledged after all.
Reject(d) ==
  /\ calls[d].phase = "rejecting"
  /\ \/ RejectDelivery(calls[d].id, d, calls[d].token, RetryDelay(calls[d].attempts))
     \/ /\ ~(Held(calls[d].id, d, calls[d].token) /\ InFlight(calls[d].id))
        /\ UNCHANGED <<channels, deliveries>>
  /\ Done(d) /\ NextInRound(d)
  /\ UNCHANGED <<clock, published, requests, happened, faults>>

RejectFails(d) ==
  /\ calls[d].phase = "rejecting"
  /\ Fault
  /\ \/ RejectDelivery(calls[d].id, d, calls[d].token, RetryDelay(calls[d].attempts))
     \/ UNCHANGED <<channels, deliveries>>
  /\ Done(d) /\ RoundAborted(d)
  /\ UNCHANGED <<clock, published, requests, happened>>

\* The process ends and another takes its place; its claim runs out by itself.
Stop(d) ==
  /\ calls[d] # Idle
  /\ Fault
  /\ Done(d) /\ RoundAborted(d)
  /\ UNCHANGED <<clock, channels, deliveries, published, requests, happened>>

-----------------------------------------------------------------------------
Publish(w, op, envelopes) ==
  /\ clock <= PublishUntil
  /\ <<w, op>> \notin published
  /\ EnvelopesAllowed(Tasks, op, envelopes)
  /\ deliveries' = StageEnvelopes(w, op, envelopes)
  /\ published' = published \union {<<w, op>>}
  /\ UNCHANGED <<clock, channels, calls, position, requests, happened, faults>>

Settled(id) == deliveries[id].status \in {"delivered", "dead"}

HandledEffects ==
  {id \in DOMAIN deliveries : /\ deliveries[id].kind = "effect"
                              /\ \E i \in 1..Len(Handled) : Handled[i] = deliveries[id].destination}

\* A unit of the clock is long for a dispatcher, which polls every half second: no
\* time passes while it has work to do, unless its process is suspended.
Busy(d) ==
  \/ /\ calls[d] = Idle
     /\ \E i \in 1..Len(Handled) :
          Eligible("effect", Handled[i], Workflow) \union Exhausted("effect", Handled[i]) # {}
  \/ /\ calls[d] # Idle
     /\ IF calls[d].stalled THEN clock >= calls[d].since + StallLimit
        ELSE calls[d].phase = "rejecting" \/ calls[d].answer # "none" \/ Overrun(calls[d])

Wait ==
  /\ \E id \in HandledEffects : ~Settled(id)
  /\ \A d \in Dispatcher : ~Busy(d)
  /\ Tick
  /\ UNCHANGED <<channels, deliveries, published, calls, position, requests, happened, faults>>

\* What a dispatcher does of itself.
Work(d) ==
  \/ \E id \in DOMAIN deliveries : Dispatch(d, id, FALSE)
  \/ PassBy(d)
  \/ Confirm(d)
  \/ ConfirmRefused(d)
  \/ CallFails(d)
  \/ Reject(d)

Next ==
  \/ \E w \in Workflow, op \in Task, envelopes \in Envelopes : Publish(w, op, envelopes)
  \/ \E d \in Dispatcher :
       \/ Work(d)
       \/ \E id \in DOMAIN deliveries : Dispatch(d, id, TRUE)
       \/ ClaimFails(d)
       \/ ConfirmFails(d)
       \/ RejectFails(d)
       \/ Stop(d)
  \/ \E q \in requests : Refuse(q) \/ \E answer \in {"ok", "error"} : Perform(q, answer)
  \/ Wait

\* The event loop of a process runs, and so does time.
Fairness == WF_vars(Wait) /\ \A d \in Dispatcher : WF_vars(Work(d))

Spec == Init /\ [][Next]_vars /\ Fairness

-----------------------------------------------------------------------------
(* Properties.                                                              *)

\* A handler that ends within its timeout has its answer counted: the claim it was
\* called under is still the one in the row, so nobody else calls the endpoint
\* meanwhile, and the acknowledgement of a success is not refused.  (After a fault
\* of the acknowledgement the dispatcher is rejecting, no longer calling.)
AnswersInTimeCount ==
  \A d \in Dispatcher : Calling(d) /\ clock <= calls[d].since + HandlerTimeout =>
    /\ AcknowledgeAllowed(calls[d].id, d, calls[d].token)
    /\ \A o \in Dispatcher \ {d} : Calling(o) /\ calls[o].id = calls[d].id =>
         clock > calls[o].since + HandlerTimeout

\* What the outbox says of an effect, and how often it was claimed.
Status(id) ==
  IF id \notin DOMAIN deliveries THEN "unpublished"
  ELSE IF Settled(id) THEN deliveries[id].status ELSE "queued"

TriesOf(id) == IF id \in DOMAIN deliveries THEN deliveries[id].attempts ELSE 0

\* The outbox and its dispatchers implement the abstract channel: delivered only
\* what happened, dropped only after the last try, no more happenings than tries.
Channel ==
  INSTANCE EffectChannel WITH
    Effect <- DeliveryId, Tries <- MaxDeliveryAttempts,
    status <- [id \in DeliveryId |-> Status(id)],
    tries <- [id \in DeliveryId |-> TriesOf(id)],
    happened <- happened

ImplementsChannel == Channel!Spec

\* Every effect with a handler ends delivered or as a dead letter, whatever claims
\* were lost with their dispatchers: none stays in flight for ever.
EffectsSettle ==
  \A id \in DeliveryId :
    (id \in HandledEffects) ~> (id \in DOMAIN deliveries /\ Settled(id))
=============================================================================
