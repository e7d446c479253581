------------------------- MODULE MCEffectDispatchers -------------------------
(* Small instance of EffectDispatchers: see README, "Runs".                  *)
EXTENDS EffectDispatchers, TLC

CONSTANTS p1, p2, w1, t1, d1, d2, e1, v, s

MCConforming == {<<v, s>>}

MCEffect(id, destination) ==
  [id |-> id, kind |-> "effect", destination |-> destination, schema_version |-> 1,
   payload |-> v]

MCTasks == t1 :> [destinations |-> {d1, d2}, emits |-> {}]

MCEnvelopes == {{MCEffect(e1, d2)}}

MCRegistered == [c \in {d1, d2} \X {"effect"} \X {1} |-> s]

MCHandled == <<d1, d2>>
=============================================================================
