-------------------------- MODULE MCTenantConsole --------------------------
(* Small instances of TenantConsole.                                       *)
EXTENDS TenantConsole, TLC

Symmetry == Permutations(Requests) \cup Permutations(Passwords)

=============================================================================
