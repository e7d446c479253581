--------------------------- MODULE MCCommitClients ---------------------------
(* Small instances of CommitClients: see README, "Runs".                     *)
EXTENDS CommitClients, TLC

CONSTANTS k1, k2, c1, c2, o1, o2, w1, w2, t1, t2, t3, s1, s2, s3, d1, e1, e2, f1

Versioned(value) == [value |-> value, json_schema |-> s1, version |-> 1, schema_version |-> 1]

Put(value) == [value |-> value, json_schema |-> NoSchema]

Propose(keys, writes) == [reads |-> keys, writes |-> writes, envelopes |-> {}]

RunOf(max_steps, timeout_seconds, repeat_limit, tasks, rules) ==
  [max_steps |-> max_steps, timeout_seconds |-> timeout_seconds,
   repeat_limit |-> repeat_limit, tasks |-> tasks, invariants |-> rules]

Scope(max_attempts, writes, destinations, emits) ==
  [max_attempts |-> max_attempts, reads |-> {k1}, writes |-> writes, destinations |-> destinations,
   emits |-> emits]

MCAmount == [x \in Value \X Field |-> x[1]]

\* Every value conforms to every schema.
MCAnything == Value \X Schema

-----------------------------------------------------------------------------
(* commits.cfg: a write skew of two agents.                                  *)

MCBothZero == [k \in {k1, k2} |-> Versioned(0)]

MCSkew ==
  {Propose({k1, k2}, k1 :> Put(1)), Propose({k1, k2}, k2 :> Put(1)), Propose({k1}, k1 :> Put(0))}

MCOneRun == {RunOf(3, 2, 3, EmptyTable, {})}

MCOwnersAndTasks == Permutations({o1, o2}) \union Permutations({t1, t2})

-----------------------------------------------------------------------------
(* takeover.cfg: a run of two tasks that schedulers take from each other.     *)

MCNothing == EmptyTable

MCTwoTaskRun ==
  {RunOf(3, 2, 3, t1 :> Scope(2, {k1}, {}, {}) @@ t2 :> Scope(2, {k1}, {}, {}), {})}

MCRewrite == {Propose({k1}, k1 :> Put(0))}

MCSchedulersAndTasks == Permutations({c1, c2}) \union Permutations({t1, t2})

-----------------------------------------------------------------------------
(* handoff.cfg: one task's commit sends two messages that two others may       *)
(* consume, together or one by one.                                          *)

MCOneZero == k1 :> Versioned(0)

MCMessages ==
  {[id |-> e, kind |-> "message", destination |-> d1, schema_version |-> 1, payload |-> 0] :
     e \in {e1, e2}}

MCHandoffRun ==
  {RunOf(3, 2, 3,
     t1 :> Scope(1, {}, {d1}, MCMessages) @@ t2 :> Scope(1, {}, {}, {}) @@ t3 :> Scope(1, {}, {}, {}), {})}

MCReadOnly == {Propose({k1}, EmptyTable), [Propose({k1}, EmptyTable) EXCEPT !.envelopes = MCMessages]}

MCMessagesAndConsumers == Permutations({e1, e2}) \union Permutations({t2, t3})

-----------------------------------------------------------------------------
(* policy.cfg: accounts whose total, bounds and schemas the run's rules guard. *)

MCOneAndTwo == k1 :> Versioned(1) @@ k2 :> Versioned(2)

\* s2 asks for a positive value.
MCPositive == (Value \X {s1, s3}) \union ((Value \ {0}) \X {s2})

MCRules ==
  {[kind |-> "conserve_total", resources |-> {k1, k2}, field |-> f1],
   [kind |-> "numeric_bounds", resources |-> {k1}, field |-> f1,
    minimum |-> 1, maximum |-> NoLimit, max_delta |-> 1],
   [kind |-> "schema_allowlist", resources |-> {k2}, allowed |-> {s1, s2}]}

MCRuledRun == {RunOf(3, 1, 1, EmptyTable, MCRules)}

\* From 1 and 2, the second plan moves k1 too far, and from 3 and 0 the fourth does.
MCPolicyPlans ==
  {Propose({k1, k2}, k1 :> Put(0) @@ k2 :> Put(3)),
   Propose({k1, k2}, k1 :> Put(3) @@ k2 :> Put(0)),
   Propose({k1, k2}, k1 :> Put(2) @@ k2 :> Put(1)),
   Propose({k1, k2}, k1 :> Put(1) @@ k2 :> Put(2)),
   Propose({k1}, k1 :> Put(2)),
   Propose({k1, k2}, k1 :> Put(2))} \union
  {Propose({k1, k2}, k1 :> Put(1) @@ k2 :> [value |-> 2, json_schema |-> s]) : s \in {s2, s3}} \union
  {Propose({k1, k2}, k1 :> Put(3) @@ k2 :> [value |-> 0, json_schema |-> s2])}

MCTasksAlike == Permutations({t1, t2, t3}) \union Permutations({o1, o2})
=============================================================================
