--------------------------- MODULE MCAccessTokens ---------------------------
(* Instances of AccessTokens for TLC. *)
EXTENDS AccessTokens, TLC

Symmetry == Permutations(Token) \cup Permutations(Request)

=============================================================================
