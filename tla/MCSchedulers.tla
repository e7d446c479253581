---------------------------- MODULE MCSchedulers ----------------------------
(* Small instances of Schedulers: see README, "Runs".                        *)
EXTENDS Schedulers, TLC

CONSTANTS s1, s2, w1, w2, w3, a, b, k1, v, bad, json, d1, e1

MCConforming == {<<v, json>>}
MCAmount == EmptyTable

MCMessage ==
  [id |-> e1, kind |-> "message", destination |-> d1, schema_version |-> 1, payload |-> v]

MCOwner == Workflow \X Task \X (1..MaxGeneration)

MCTask(reads, depends_on, inbox, emits, max_attempts) ==
  [reads |-> reads, writes |-> reads, depends_on |-> depends_on, inbox |-> inbox,
   emits |-> emits, destinations |-> {e.destination : e \in emits},
   max_attempts |-> max_attempts]

MCSpecification(tasks, timeout) ==
  [max_steps |-> 4, timeout_seconds |-> timeout, repeat_limit |-> 3, invariants |-> {},
   resources |-> k1 :> [value |-> v, json_schema |-> json], tasks |-> tasks]

MCWrites == [writes |-> k1 :> [value |-> v, json_schema |-> NoSchema], envelopes |-> {}]

\* Two tasks of which the second needs the first; and two that need each other.
MCChain(timeout) ==
  MCSpecification(a :> MCTask({k1}, {}, NoInbox, {}, 2) @@ b :> MCTask({k1}, {a}, NoInbox, {}, 1),
                  timeout)
MCCycle(timeout) ==
  MCSpecification(a :> MCTask({k1}, {b}, NoInbox, {}, 1) @@ b :> MCTask({k1}, {a}, NoInbox, {}, 1),
                  timeout)

\* One task; and one in a run whose resource does not conform from the start.
MCOne(timeout) == MCSpecification(a :> MCTask({k1}, {}, NoInbox, {}, 1), timeout)

MCInvalid == [MCOne(1) EXCEPT !.resources[k1].value = bad]

\* Two tasks of one wave, of which the second waits for the message of the first.
MCHandoff(timeout) ==
  MCSpecification(a :> MCTask({k1}, {}, NoInbox, {MCMessage}, 1)
                    @@ b :> MCTask({k1}, {}, d1, {}, 1), timeout)

\* The first task may keep what it should emit to itself.
MCPlans == a :> {MCWrites, [MCWrites EXCEPT !.envelopes = {MCMessage}]} @@ b :> {MCWrites}

MCSpecs == {MCChain(2), MCCycle(2), MCHandoff(2), MCInvalid}
MCLaunches == {w1} \X MCSpecs \X {"scripted"}
MCSymmetry == Permutations({s1, s2})

MCServed == {MCHandoff(1), MCOne(9)}
MCServing ==
  {<<w1, MCHandoff(1), "scripted">>, <<w2, MCOne(9), "crew">>, <<w3, MCOne(9), "scripted">>}
=============================================================================
