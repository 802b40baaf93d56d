------------------------ MODULE MCConnectionGateway ------------------------
(* Small instances of ConnectionGateway.                                   *)
EXTENDS ConnectionGateway, TLC

CallSymmetry == Permutations(Calls)

=============================================================================
