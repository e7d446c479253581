-------------------------- MODULE MCDeliveryClients --------------------------
(* Small instance of DeliveryClients: see README, "Runs".                    *)
EXTENDS DeliveryClients, TLC

CONSTANTS r1, r2, w1, w2, t1, d1, e1, v, s

MCConforming == {<<v, s>>}

MCMessage ==
  [id |-> e1, kind |-> "message", destination |-> d1, schema_version |-> 1, payload |-> v]

MCTasks == t1 :> [destinations |-> {d1}, emits |-> {MCMessage}]

MCEnvelopes == {{MCMessage}}

MCSymmetry == Permutations({r1, r2}) \union Permutations({w1, w2})
=============================================================================
