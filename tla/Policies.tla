------------------------------- MODULE Policies -------------------------------
(***************************************************************************)
(* The rules of a run (policies.py).  current is the table of the resources *)
(* a commit reads, proposed the table of those it would write; a rule looks *)
(* at one field of the resources it names, or at their schemas.             *)
(***************************************************************************)
EXTENDS Resources, FiniteSetsExt

CONSTANTS
  Field,         \* names of fields of values
  Amount,        \* <<value, field>> -> the integer it holds, or NoInteger
  NoInteger,     \* a field that is absent or not an integer; booleans are not
  NoLimit        \* None for a bound of a numeric rule

ASSUME PolicyAssumption ==
  /\ DOMAIN Amount = Value \X Field
  /\ \A x \in Value \X Field : Amount[x] \in Int \union {NoInteger}
  /\ NoInteger \notin Int

-----------------------------------------------------------------------------
(* Faulty variants, which the runs put in the place of the operator each names. *)

\* Concerned, for writes to all the resources of the rule only.
ConcernedByAll(rule, proposed) == rule.resources \subseteq DOMAIN proposed

-----------------------------------------------------------------------------
AmountIn(rule, resource) == Amount[<<resource.value, rule.field>>]

\* The amounts of a rule in a table that has its resources.
Amounts(rule, table) == [k \in rule.resources |-> AmountIn(rule, table[k])]

\* What a resource becomes: what is proposed for it, else what it is.
After(current, proposed, k) == IF k \in DOMAIN proposed THEN proposed[k] ELSE current[k]

\* A rule none of whose resources is written is not looked at.
Concerned(rule, proposed) == rule.resources \intersect DOMAIN proposed # {}

\* conserve_total: all amounts are integers, and their sum does not change.
Conserved(rule, current, proposed) ==
  LET before == Amounts(rule, current)
      after == Amounts(rule, [k \in rule.resources |-> After(current, proposed, k)]) IN
    /\ \A k \in rule.resources : before[k] \in Int /\ after[k] \in Int
    /\ SumFunction(before) = SumFunction(after)

\* numeric_bounds, for one resource.
Bounded(rule, before, after) ==
  /\ before \in Int /\ after \in Int
  /\ rule.minimum # NoLimit => after >= rule.minimum
  /\ rule.maximum # NoLimit => after <= rule.maximum
  /\ rule.max_delta # NoLimit => after - before \in -rule.max_delta .. rule.max_delta

Respected(rule, current, proposed) ==
  CASE rule.kind = "conserve_total" -> Conserved(rule, current, proposed)
    [] rule.kind = "numeric_bounds" ->
         \A k \in rule.resources :
           Bounded(rule, AmountIn(rule, current[k]),
                   AmountIn(rule, After(current, proposed, k)))
    [] rule.kind = "schema_allowlist" ->
         \A k \in rule.resources : After(current, proposed, k).json_schema \in rule.allowed

\* enforce_rules: a rule that is concerned needs all its resources among the reads.
RulesAllow(rules, current, proposed) ==
  \A rule \in rules : Concerned(rule, proposed) =>
    /\ rule.resources \subseteq DOMAIN current
    /\ Respected(rule, current, proposed)
=============================================================================
