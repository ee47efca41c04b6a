-------------------------- MODULE MCRefreshTokens --------------------------
(* Instances of RefreshTokens for TLC. *)
EXTENDS RefreshTokens, TLC

\* Requests, tokens and sessions are interchangeable.
Symmetry == Permutations(Requests) \cup Permutations(TokenIds) \cup Permutations(FamilyIds)

=============================================================================
