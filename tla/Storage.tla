------------------------------- MODULE Storage -------------------------------
(***************************************************************************)
(* The shared database of AgentLatch (storage.py).  Every mutation runs in  *)
(* one transaction that holds the global write lock: BEGIN IMMEDIATE on     *)
(* SQLite, one advisory lock on PostgreSQL.  A transaction is therefore one *)
(* action of the modules that extend this one.                              *)
(*                                                                          *)
(* A table is a function from the primary keys of the rows that exist to    *)
(* their rows.  Time is the database clock; a transaction takes none, so    *)
(* all its reads of the clock agree.                                        *)
(***************************************************************************)
EXTENDS Integers, FiniteSets

CONSTANTS
  MaxClock,      \* bound: the clock stops here
  Workflow,      \* run ids
  Task,          \* operation ids
  Owner,         \* names that workers and receivers give in their requests
  NoOwner        \* SQL's NULL in a column that holds an owner

ASSUME StorageAssumption ==
  /\ MaxClock \in Nat
  /\ NoOwner \notin Owner

VARIABLE clock             \* what Storage.now reads

-----------------------------------------------------------------------------
(* Tables.                                                                  *)

EmptyTable == [k \in {} |-> 0]

\* t with the rows of r inserted, or put in the place of the rows they meet.
Upsert(t, r) ==
  [k \in DOMAIN t \union DOMAIN r |-> IF k \in DOMAIN r THEN r[k] ELSE t[k]]

\* t with one row inserted: an INSERT whose key the caller knows to be new.
Insert(t, key, row) == Upsert(t, [k \in {key} |-> row])

\* t restricted to the keys that are not in gone.
Delete(t, gone) == [k \in DOMAIN t \ gone |-> t[k]]

\* Tables that map some of the keys in K to rows in R.
IsTable(t, K, R) ==
  /\ DOMAIN t \subseteq K
  /\ t = [k \in DOMAIN t |-> t[k]]
  /\ \A k \in DOMAIN t : t[k] \in R

-----------------------------------------------------------------------------
(* Time passes between transactions, never inside one.                      *)

\* SQL's expires_at > now: the moment of expiry itself counts as expired.
Unexpired(expires_at) == expires_at > clock

Tick ==
  /\ clock < MaxClock
  /\ clock' = clock + 1
=============================================================================
