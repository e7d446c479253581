-------------------------------- MODULE Leases --------------------------------
(***************************************************************************)
(* The lease table (coordinator.py: acquire, release).  A lease on a set of *)
(* resources is granted for all of them or for none, carries the next value *)
(* of lease_sequence as its fencing token, and ends by release or expiry.   *)
(* The row of an expired lease stays until another acquire replaces it.     *)
(***************************************************************************)
EXTENDS Resources

CONSTANTS
  LeaseTtl,      \* ttl_seconds of lease requests
  MaxToken       \* bound: leases granted in one behaviour

ASSUME LeaseAssumption ==
  /\ LeaseTtl \subseteq Nat \ {0}
  /\ MaxToken \in Nat

VARIABLES
  lease_sequence,    \* the last token handed out
  leases             \* resource key -> row

LeaseRow == [owner : Owner, token : Nat \ {0}, expires_at : Nat]

LeaseTablesOK ==
  /\ lease_sequence \in Nat
  /\ IsTable(leases, Key, LeaseRow)

LeaseTablesInit ==
  /\ lease_sequence = 0
  /\ leases = EmptyTable

-----------------------------------------------------------------------------
(* Faulty variants, which the runs put in the place of the operator each names. *)

\* NextToken, read before the row is inserted.
TokenBeforeInsert == lease_sequence

\* GrantedRows, with an upsert that forgets to set the token of an old row.
RowsKeepingToken(owner, keys, ttl) ==
  [k \in keys |->
    [owner |-> owner, expires_at |-> clock + ttl,
     token |-> IF k \in DOMAIN leases THEN leases[k].token ELSE lease_sequence + 1]]

\* GrantedRows, with ON CONFLICT DO NOTHING: the row of an expired lease stays.
RowsWhereNone(owner, keys, ttl) ==
  [k \in keys \ DOMAIN leases |->
    [owner |-> owner, token |-> lease_sequence + 1, expires_at |-> clock + ttl]]

\* RowsOf, without the token in the WHERE clause.
RowsOfOwner(owner, token) == {k \in DOMAIN leases : leases[k].owner = owner}

-----------------------------------------------------------------------------
\* SELECT ... WHERE resource=key AND expires_at>now finds no row for any key.
\* The owner does not matter: a lease is not re-entrant.
Free(keys) == \A k \in keys : k \in DOMAIN leases => ~Unexpired(leases[k].expires_at)

\* The AUTOINCREMENT value of the row inserted in lease_sequence.
NextToken == lease_sequence + 1

\* The rows a successful acquire writes, over those of expired leases.
GrantedRows(owner, keys, ttl) ==
  [k \in keys |-> [owner |-> owner, token |-> NextToken, expires_at |-> clock + ttl]]

Acquire(owner, keys, ttl) ==
  /\ lease_sequence < MaxToken
  /\ keys \subseteq DOMAIN resources        \* else resource_missing
  /\ Free(keys)                             \* else lease_busy
  /\ lease_sequence' = lease_sequence + 1
  /\ leases' = Upsert(leases, GrantedRows(owner, keys, ttl))

\* The rows DELETE FROM leases WHERE owner=? AND token=? removes.
RowsOf(owner, token) ==
  {k \in DOMAIN leases : leases[k].owner = owner /\ leases[k].token = token}

\* Never an error: a token that was fenced out or released matches no row.
Release(owner, token) ==
  /\ leases' = Delete(leases, RowsOf(owner, token))
  /\ UNCHANGED lease_sequence
=============================================================================
