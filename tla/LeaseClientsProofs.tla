-------------------------- MODULE LeaseClientsProofs --------------------------
(***************************************************************************)
(* Proofs about LeaseClients, for any owners, resources, ttls and bounds.   *)
(* The inductive invariant is Inv: a live grant keeps its rows because an   *)
(* acquire that took one would have found it unexpired, and a release that  *)
(* removed one would have carried the owner and token of that very grant.   *)
(***************************************************************************)
EXTENDS LeaseClients, TLAPS

RowsTraced == \A k \in DOMAIN leases : Traced(k)

Inv ==
  /\ TypeOK
  /\ LiveGrantIntact
  /\ NewestTokenHeld
  /\ RowsTraced

USE LeaseAssumption, ConformingAssumption

-----------------------------------------------------------------------------
\* The rows a grant writes are lease rows.
LEMMA GrantedRowsAreLeaseRows ==
  ASSUME TypeOK, NEW owner \in Owner, NEW keys \in SUBSET Key, NEW ttl \in LeaseTtl
  PROVE  IsTable(GrantedRows(owner, keys, ttl), Key, LeaseRow)
<1>1. clock + ttl \in Nat /\ NextToken \in Nat \ {0}
  BY DEF TypeOK, LeaseTablesOK, NextToken
<1> QED
  BY <1>1 DEF GrantedRows, IsTable, LeaseRow

\* Init establishes the invariant.
LEMMA InitInv == Init => Inv
<1> SUFFICES ASSUME Init PROVE Inv
  OBVIOUS
<1>1. TypeOK
  BY DEF IsTable, EmptyTable, Init, TypeOK, LeaseTablesInit, LeaseTablesOK
<1>2. LiveGrantIntact /\ NewestTokenHeld /\ RowsTraced
  BY DEF IsTable, EmptyTable,
       Init, LeaseTablesInit, LiveGrantIntact, NewestTokenHeld, RowsTraced, Traced
<1> QED
  BY <1>1, <1>2 DEF Inv

\* Creating a resource touches no lease.
LEMMA CreateInv == Inv /\ Create => Inv'
<1> SUFFICES ASSUME Inv, Create PROVE Inv'
  OBVIOUS
<1>1. PICK key \in Key, pair \in Conforming : CreateResource(key, pair[1], pair[2])
  BY DEF Create
<1> DEFINE row == [value |-> pair[1], json_schema |-> pair[2], version |-> 1,
                   schema_version |-> 1]
<1>2. row \in Resource
  BY DEF Resource
<1>3. IsTable(resources', Key, Resource)
  BY <1>1, <1>2 DEF IsTable, Insert, Upsert, CreateResource, Inv, TypeOK
<1>4. TypeOK'
  BY <1>3 DEF Create, Inv, TypeOK, LeaseTablesOK
<1> QED
  BY <1>4 DEF Create, Inv, Live, LiveGrantIntact, NewestTokenHeld, RowsTraced, Traced

\* A grant takes only keys that no live grant holds.
LEMMA ObtainLeaseInv ==
  ASSUME Inv, NEW owner \in Owner, NEW keys \in SUBSET Key, NEW ttl \in LeaseTtl,
         ObtainLease(owner, keys, ttl)
  PROVE  Inv'
<1> DEFINE rows == GrantedRows(owner, keys, ttl)
           grant == [owner |-> owner, keys |-> keys, expires_at |-> clock + ttl]
<1>1. /\ lease_sequence \in Nat /\ clock \in Nat /\ NextToken = lease_sequence + 1
      /\ IsTable(leases, Key, LeaseRow)
      /\ granted \in [1..lease_sequence -> Grant]
      /\ released \subseteq 1..lease_sequence
  BY DEF Inv, TypeOK, LeaseTablesOK, NextToken
<1>2. /\ IsTable(rows, Key, LeaseRow)
      /\ DOMAIN rows = keys
      /\ \A k \in keys : rows[k] = [owner |-> owner, token |-> NextToken,
                                    expires_at |-> clock + ttl]
  BY GrantedRowsAreLeaseRows DEF Inv, GrantedRows
<1>3. /\ IsTable(leases', Key, LeaseRow)
      /\ DOMAIN leases' = DOMAIN leases \union keys
      /\ \A k \in keys : leases'[k] = rows[k]
      /\ \A k \in DOMAIN leases \ keys : leases'[k] = leases[k]
  <2>1. leases' = Upsert(leases, rows)
    BY DEF ObtainLease, Acquire
  <2> HIDE DEF rows
  <2> QED
    BY <2>1, <1>1, <1>2 DEF IsTable, Upsert
<1>4. grant \in Grant
  BY <1>1 DEF Grant
<1>5. /\ granted' \in [1..lease_sequence' -> Grant]
      /\ lease_sequence' = lease_sequence + 1
      /\ granted'[NextToken] = grant
      /\ \A t \in 1..lease_sequence : granted'[t] = granted[t]
  BY <1>1, <1>4 DEF ObtainLease, Acquire, Insert, Upsert
<1>6. TypeOK'
  BY <1>1, <1>3, <1>5 DEF ObtainLease, Inv, TypeOK, LeaseTablesOK
<1>7. LiveGrantIntact'
  <2> SUFFICES ASSUME NEW t \in DOMAIN granted', Live(t)', NEW k \in granted'[t].keys
               PROVE  /\ k \in DOMAIN leases'
                      /\ leases'[k] = [owner |-> granted'[t].owner, token |-> t,
                                       expires_at |-> granted'[t].expires_at]
    BY DEF LiveGrantIntact
  <2>1. CASE t = NextToken
    BY <2>1, <1>2, <1>3, <1>5
  <2>2. CASE t # NextToken
    <3>1. t \in 1..lease_sequence /\ granted'[t] = granted[t]
      BY <2>2, <1>1, <1>5
    <3>2. Live(t) /\ k \in granted[t].keys
      BY <3>1 DEF Live, ObtainLease
    <3>3. /\ k \in DOMAIN leases
          /\ leases[k] = [owner |-> granted[t].owner, token |-> t,
                          expires_at |-> granted[t].expires_at]
      BY <3>1, <3>2, <1>1 DEF Inv, LiveGrantIntact
    <3>4. k \notin keys
      BY <3>2, <3>3, <3>1, <1>1 DEF Live, ObtainLease, Acquire, Free, Unexpired, Grant
    <3> QED
      BY <3>1, <3>3, <3>4, <1>3
  <2> QED
    BY <2>1, <2>2
<1>8. NewestTokenHeld'
  <2> SUFFICES ASSUME NEW k \in DOMAIN leases', NEW t \in DOMAIN granted',
                      k \in granted'[t].keys
               PROVE  t <= leases'[k].token
    BY DEF NewestTokenHeld
  <2>1. CASE k \in keys
    BY <2>1, <1>1, <1>2, <1>3, <1>5
  <2>2. CASE k \notin keys
    <3>1. t \in 1..lease_sequence /\ granted'[t] = granted[t]
      BY <2>2, <1>1, <1>5
    <3> QED
      BY <2>2, <3>1, <1>1, <1>3 DEF Inv, NewestTokenHeld
  <2> QED
    BY <2>1, <2>2
<1>9. RowsTraced'
  <2> SUFFICES ASSUME NEW k \in DOMAIN leases'
               PROVE  Traced(k)'
    BY DEF RowsTraced
  <2>1. CASE k \in keys
    BY <2>1, <1>1, <1>2, <1>3, <1>5 DEF Traced, ObtainLease
  <2>2. CASE k \notin keys
    BY <2>2, <1>1, <1>3, <1>5 DEF Inv, RowsTraced, Traced, ObtainLease
  <2> QED
    BY <2>1, <2>2
<1> QED
  BY <1>6, <1>7, <1>8, <1>9 DEF Inv

\* A release removes the rows of one grant, and that grant is then released.
LEMMA ReturnLeaseInv ==
  ASSUME Inv, NEW owner \in Owner, NEW token \in 1..lease_sequence, ReturnLease(owner, token)
  PROVE  Inv'
<1>1. /\ lease_sequence \in Nat /\ clock \in Nat
      /\ IsTable(leases, Key, LeaseRow)
      /\ granted \in [1..lease_sequence -> Grant]
  BY DEF Inv, TypeOK, LeaseTablesOK
<1>2. /\ IsTable(leases', Key, LeaseRow)
      /\ DOMAIN leases' = DOMAIN leases \ RowsOf(owner, token)
      /\ \A k \in DOMAIN leases' : leases'[k] = leases[k]
  <2>1. leases' = Delete(leases, RowsOf(owner, token))
    BY DEF ReturnLease, Release
  <2> QED
    BY <2>1, <1>1 DEF IsTable, Delete
<1>3. UNCHANGED <<clock, resources, lease_sequence, granted>>
  BY DEF ReturnLease, Release
<1>4. TypeOK'
  BY <1>2, <1>3 DEF ReturnLease, Inv, TypeOK, LeaseTablesOK
<1>5. LiveGrantIntact'
  <2> SUFFICES ASSUME NEW t \in DOMAIN granted, Live(t)', NEW k \in granted[t].keys
               PROVE  /\ k \in DOMAIN leases'
                      /\ leases'[k] = [owner |-> granted[t].owner, token |-> t,
                                       expires_at |-> granted[t].expires_at]
    BY <1>3 DEF LiveGrantIntact
  <2>1. Live(t) /\ (t = token => granted[t].owner # owner)
    BY <1>3 DEF Live, ReturnLease
  <2>2. /\ k \in DOMAIN leases
        /\ leases[k] = [owner |-> granted[t].owner, token |-> t,
                        expires_at |-> granted[t].expires_at]
    BY <2>1 DEF Inv, LiveGrantIntact
  <2>3. k \notin RowsOf(owner, token)
    BY <2>1, <2>2 DEF RowsOf
  <2> QED
    BY <2>2, <2>3, <1>2
<1>6. NewestTokenHeld'
  BY <1>2, <1>3 DEF Inv, NewestTokenHeld
<1>7. RowsTraced'
  <2> SUFFICES ASSUME NEW k \in DOMAIN leases' PROVE Traced(k)'
    BY DEF RowsTraced
  <2>1. k \in DOMAIN leases /\ Traced(k) /\ leases'[k] = leases[k]
    BY <1>2 DEF Inv, RowsTraced
  <2>2. leases[k].token = token => granted[token].owner # owner
    BY <2>1, <1>2 DEF RowsOf, Traced
  <2> QED
    BY <2>1, <2>2, <1>3 DEF Traced, ReturnLease
<1> QED
  BY <1>4, <1>5, <1>6, <1>7 DEF Inv

\* Time ends leases and starts none.
LEMMA WaitInv == Inv /\ Wait => Inv'
<1> SUFFICES ASSUME Inv, Wait PROVE Inv'
  OBVIOUS
<1>1. clock \in Nat /\ granted \in [1..lease_sequence -> Grant]
  BY DEF Inv, TypeOK
<1>2. TypeOK' /\ NewestTokenHeld' /\ RowsTraced'
  BY <1>1 DEF Wait, Tick, Inv, TypeOK, LeaseTablesOK, NewestTokenHeld, RowsTraced, Traced
<1>3. \A t \in DOMAIN granted : Live(t)' => Live(t)
  BY <1>1 DEF Wait, Tick, Live, Grant
<1>4. LiveGrantIntact'
  BY <1>3 DEF Wait, Inv, LiveGrantIntact
<1> QED
  BY <1>2, <1>4 DEF Inv

\* The invariant is inductive.
LEMMA NextInv == Inv /\ [Next]_vars => Inv'
<1> SUFFICES ASSUME Inv, [Next]_vars PROVE Inv'
  OBVIOUS
<1>1. CASE Create
  BY <1>1, CreateInv
<1>2. ASSUME NEW owner \in Owner, NEW keys \in SUBSET Key, NEW ttl \in LeaseTtl,
             ObtainLease(owner, keys, ttl)
      PROVE  Inv'
  BY <1>2, ObtainLeaseInv
<1>3. ASSUME NEW owner \in Owner, NEW token \in 1..lease_sequence, ReturnLease(owner, token)
      PROVE  Inv'
  BY <1>3, ReturnLeaseInv
<1>4. CASE Wait
  BY <1>4, WaitInv
<1>5. CASE UNCHANGED vars
  BY <1>5 DEF vars, Inv, TypeOK, LeaseTablesOK, Live, LiveGrantIntact, NewestTokenHeld,
              RowsTraced, Traced
<1> QED
  BY <1>1, <1>2, <1>3, <1>4, <1>5 DEF Next

\* In every reachable state the tables and the history have their types.
THEOREM TypeCorrect == Spec => []TypeOK
<1>1. Inv => TypeOK
  BY DEF Inv
<1> QED
  BY <1>1, InitInv, NextInv, PTL DEF Spec

\* No worker loses a live lease to anyone: acquire and release never disturb the
\* rows of a lease that is neither released nor expired.
THEOREM LeaseExclusion == Spec => []LiveGrantIntact
<1>1. Inv => LiveGrantIntact
  BY DEF Inv
<1> QED
  BY <1>1, InitInv, NextInv, PTL DEF Spec

\* A lease row always carries the newest token granted for its key: tokens fence.
THEOREM TokensFence == Spec => []NewestTokenHeld
<1>1. Inv => NewestTokenHeld
  BY DEF Inv
<1> QED
  BY <1>1, InitInv, NextInv, PTL DEF Spec

\* A live grant is not released, so its rows are there for all of its keys.
LEMMA GrantsStandWhole == Inv => RowsComeFromGrants
<1> SUFFICES ASSUME Inv, NEW k \in DOMAIN leases, Unexpired(leases[k].expires_at),
                    NEW j \in granted[leases[k].token].keys
             PROVE  j \in DOMAIN leases /\ leases[j] = leases[k]
  BY DEF Inv, RowsTraced, RowsComeFromGrants, Whole
<1> DEFINE t == leases[k].token
<1>1. /\ Traced(k)
      /\ leases[k] \in LeaseRow
      /\ granted \in [1..lease_sequence -> Grant]
      /\ clock \in Nat
  BY DEF Inv, RowsTraced, TypeOK, LeaseTablesOK, IsTable
<1>2. t \in DOMAIN granted /\ Live(t) /\ k \in granted[t].keys
  BY <1>1 DEF Traced, Live, Unexpired, LeaseRow
<1> QED
  BY <1>2 DEF Inv, LiveGrantIntact

\* Grants are whole in every reachable state: no row without its grant, and no live
\* row without the rows of all the other keys of its grant.
THEOREM GrantsWhole == Spec => []RowsComeFromGrants
<1> QED
  BY InitInv, NextInv, GrantsStandWhole, PTL DEF Spec
=============================================================================
