----------------------------- MODULE LeaseClients -----------------------------
(***************************************************************************)
(* The lease table with what its clients were told.  granted is the history *)
(* of Lease objects that acquire returned, released the tokens their owners *)
(* gave back.  Neither is state of the program: a worker acts on the Lease  *)
(* it holds, at any later time and in any order with other workers.         *)
(***************************************************************************)
EXTENDS Leases

VARIABLES
  granted,       \* token -> the Lease returned to its owner
  released       \* tokens released by the owner they were granted to

vars == <<clock, resources, lease_sequence, leases, granted, released>>

Grant == [owner : Owner, keys : SUBSET Key, expires_at : Nat]

TypeOK ==
  /\ clock \in Nat
  /\ IsTable(resources, Key, Resource)
  /\ LeaseTablesOK
  /\ granted \in [1..lease_sequence -> Grant]
  /\ released \subseteq 1..lease_sequence

Init ==
  /\ clock = 0
  /\ resources = EmptyTable
  /\ LeaseTablesInit
  /\ granted = EmptyTable
  /\ released = {}

-----------------------------------------------------------------------------
Create ==
  /\ \E key \in Key, pair \in Conforming : CreateResource(key, pair[1], pair[2])
  /\ UNCHANGED <<clock, lease_sequence, leases, granted, released>>

\* A request names at least one resource (models.LeaseRequest, min_length=1).
ObtainLease(owner, keys, ttl) ==
  /\ keys # {}
  /\ Acquire(owner, keys, ttl)
  /\ granted' = Insert(granted, NextToken,
                  [owner |-> owner, keys |-> keys, expires_at |-> clock + ttl])
  /\ UNCHANGED <<clock, resources, released>>

\* Any owner may present any token issued so far: late, twice, or not its own.
ReturnLease(owner, token) ==
  /\ Release(owner, token)
  /\ released' = released \union {t \in {token} : granted[t].owner = owner}
  /\ UNCHANGED <<clock, resources, granted>>

Wait ==
  /\ Tick
  /\ UNCHANGED <<resources, lease_sequence, leases, granted, released>>

Next ==
  \/ Create
  \/ \E owner \in Owner, keys \in SUBSET Key, ttl \in LeaseTtl : ObtainLease(owner, keys, ttl)
  \/ \E owner \in Owner, token \in 1..lease_sequence : ReturnLease(owner, token)
  \/ Wait

Spec == Init /\ [][Next]_vars

-----------------------------------------------------------------------------
(* Properties.                                                              *)

\* The holder of t still relies on its lease.
Live(t) == t \notin released /\ clock < granted[t].expires_at

\* A worker that has neither released its lease nor let it expire owns the row
\* of every key it was granted, under the token it was told: no release by an
\* earlier worker and no acquire by a later one takes any of them away.  Two
\* workers therefore never hold live leases on a common resource.
LiveGrantIntact ==
  \A t \in DOMAIN granted : Live(t) =>
    \A k \in granted[t].keys :
      /\ k \in DOMAIN leases
      /\ leases[k] = [owner |-> granted[t].owner, token |-> t, expires_at |-> granted[t].expires_at]

\* The row of a key carries the newest token ever granted for that key, so a
\* worker whose lease was superseded can never pass commit's token check again.
NewestTokenHeld ==
  \A k \in DOMAIN leases, t \in DOMAIN granted :
    k \in granted[t].keys => t <= leases[k].token

Traced(k) ==
  LET t == leases[k].token IN
    /\ t \in DOMAIN granted \ released
    /\ k \in granted[t].keys
    /\ leases[k].owner = granted[t].owner
    /\ leases[k].expires_at = granted[t].expires_at

Whole(k) ==
  Unexpired(leases[k].expires_at) =>
    \A j \in granted[leases[k].token].keys : j \in DOMAIN leases /\ leases[j] = leases[k]

\* Grants are whole: every row was written by a grant that was not given back, to the
\* owner, for the keys and until the time of that grant, and a row that still excludes
\* others stands beside the same row for every other key of its grant.  No acquire that
\* met expired rows leaves a part of its set behind, and no release a part of it.
RowsComeFromGrants == \A k \in DOMAIN leases : Traced(k) /\ Whole(k)
=============================================================================
