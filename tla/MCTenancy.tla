------------------------------ MODULE MCTenancy ------------------------------
(* TLC instances of Tenancy.                                               *)
EXTENDS Tenancy, TLC

TenancySymmetry == Permutations(Tenants) \cup Permutations(Requests)
=============================================================================
