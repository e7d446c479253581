------------------------------ MODULE Resources ------------------------------
(***************************************************************************)
(* The table of versioned resources (coordinator.py: create_resource and    *)
(* snapshot).  A resource is a value under a JSON schema; the pair of its   *)
(* counters, version and schema_version, is its stamp.                      *)
(***************************************************************************)
EXTENDS Schemas

CONSTANT Key             \* names of resources

VARIABLE resources

Resource ==
  [value : Value, json_schema : Schema, version : Nat \ {0}, schema_version : Nat \ {0}]

\* The property Resource.stamp.
Stamp(resource) ==
  [version |-> resource.version, schema_version |-> resource.schema_version]

\* A second creation of a key is resource_exists and changes nothing.
CreateResource(key, value, json_schema) ==
  /\ Validates(value, json_schema)
  /\ key \notin DOMAIN resources
  /\ resources' = Insert(resources, key,
       [value |-> value, json_schema |-> json_schema, version |-> 1, schema_version |-> 1])

\* One SELECT, so one moment's rows for all the keys; a missing key is an error.
Snapshot(table, keys) == [k \in keys |-> table[k]]
=============================================================================
