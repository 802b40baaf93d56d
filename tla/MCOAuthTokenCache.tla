------------------------- MODULE MCOAuthTokenCache -------------------------
(* Small instances of OAuthTokenCache.                                     *)
EXTENDS OAuthTokenCache, TLC

Symmetry == Permutations(Calls) \cup Permutations(Secrets)

=============================================================================
