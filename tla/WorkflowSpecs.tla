---------------------------- MODULE WorkflowSpecs ----------------------------
(***************************************************************************)
(* What a run may be launched with (models.py: TaskSpec, WorkflowSpec).     *)
(* The ids of a specification's tasks, rules and resources are unique, so   *)
(* tasks and resources are tables and rules are a set.                      *)
(***************************************************************************)
EXTENDS Policies

-----------------------------------------------------------------------------
(* Faulty variants, which the runs put in the place of the operator each names. *)

\* DependenciesResolve, knowing the tasks but not their order.
DependenciesKnown(tasks) == \A t \in DOMAIN tasks : tasks[t].depends_on \subseteq DOMAIN tasks

-----------------------------------------------------------------------------
\* TaskSpec.scope.
TaskInScope(task) ==
  /\ \A e \in task.emits : e.destination \in task.destinations
  /\ task.writes \subseteq task.reads
  /\ task.reads # {}

\* A task that touches a rule reads all the rule is about.
RuleReadable(task, rule) ==
  task.writes \intersect rule.resources # {} => rule.resources \subseteq task.reads

\* The tasks found ready within n rounds of the loop of WorkflowSpec.acyclic.
CompletedIn(tasks, n) ==
  LET completed[i \in 0..n] ==
        IF i = 0 THEN {}
        ELSE {t \in DOMAIN tasks : tasks[t].depends_on \subseteq completed[i - 1]} IN
    completed[n]

\* A round in which nothing is ready means a cycle or an unknown dependency.
DependenciesResolve(tasks) == CompletedIn(tasks, Cardinality(DOMAIN tasks)) = DOMAIN tasks

Accepted(specification) ==
  LET tasks == specification.tasks IN
    /\ DOMAIN tasks # {}
    /\ \A t \in DOMAIN tasks :
         /\ TaskInScope(tasks[t])
         /\ \A rule \in specification.invariants : RuleReadable(tasks[t], rule)
    /\ DependenciesResolve(tasks)
=============================================================================
