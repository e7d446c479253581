------------------------------- MODULE Schemas -------------------------------
(***************************************************************************)
(* JSON values and JSON schemas (coordinator.py: validate_value).  A value  *)
(* or a schema is an element of a small set; what validation does to them   *)
(* is the relation Conforming.  Schema holds only schemas that are well     *)
(* formed and refer to nothing outside themselves: the code rejects others  *)
(* before it reads the database.                                            *)
(***************************************************************************)
EXTENDS Storage

CONSTANTS
  Value,         \* values, as far as a schema or a rule tells them apart
  Schema,        \* schemas
  Conforming     \* the pairs <<value, schema>> that pass validation

ASSUME ConformingAssumption == Conforming \subseteq Value \X Schema

Validates(value, json_schema) == <<value, json_schema>> \in Conforming
=============================================================================
