---------------------------- MODULE MCLeaseClients ----------------------------
(* Small instance of LeaseClients: see README, "Runs".                       *)
EXTENDS LeaseClients, TLC

CONSTANTS k1, k2, o1, o2, v, s

MCConforming == {<<v, s>>}
MCSymmetry == Permutations({k1, k2}) \union Permutations({o1, o2})
=============================================================================
