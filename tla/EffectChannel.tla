---------------------------- MODULE EffectChannel ----------------------------
(***************************************************************************)
(* What the outbox and its dispatchers promise together: an effect that a   *)
(* commit published is tried a bounded number of times, may happen once for *)
(* each try and at any time after it, is reported delivered only if it has  *)
(* happened, and is dropped only after its last try.  It may have happened  *)
(* and be dropped all the same, which is why receivers must deduplicate.    *)
(***************************************************************************)
EXTENDS Naturals

CONSTANTS
  Effect,        \* ids of effects
  Tries          \* how often an effect is tried

VARIABLES
  status,        \* effect -> what the outbox says of it
  tries,         \* effect -> tries begun
  happened       \* effect -> how often it happened

vars == <<status, tries, happened>>

Init ==
  /\ status = [e \in Effect |-> "unpublished"]
  /\ tries = [e \in Effect |-> 0]
  /\ happened = [e \in Effect |-> 0]

\* One commit publishes several effects at once.
Publish(E) ==
  /\ \A e \in E : status[e] = "unpublished"
  /\ status' = [e \in Effect |-> IF e \in E THEN "queued" ELSE status[e]]
  /\ UNCHANGED <<tries, happened>>

\* In one step, the effects in D, tried in vain, are dropped, and those in E tried.
Try(E, D) ==
  /\ \A e \in E : status[e] = "queued" /\ tries[e] < Tries
  /\ \A e \in D : status[e] = "queued" /\ tries[e] = Tries
  /\ tries' = [e \in Effect |-> IF e \in E THEN tries[e] + 1 ELSE tries[e]]
  /\ status' = [e \in Effect |-> IF e \in D THEN "dead" ELSE status[e]]
  /\ UNCHANGED happened

Happen(e) ==
  /\ happened[e] < tries[e]
  /\ happened' = [happened EXCEPT ![e] = @ + 1]
  /\ UNCHANGED <<status, tries>>

Deliver(e) ==
  /\ status[e] = "queued"
  /\ happened[e] > 0
  /\ status' = [status EXCEPT ![e] = "delivered"]
  /\ UNCHANGED <<tries, happened>>

Next ==
  \/ \E E \in SUBSET Effect : Publish(E)
  \/ \E E, D \in SUBSET Effect : Try(E, D)
  \/ \E e \in Effect : Happen(e) \/ Deliver(e)

Spec == Init /\ [][Next]_vars
=============================================================================
