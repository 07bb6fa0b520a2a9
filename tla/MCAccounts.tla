---------------------------- MODULE MCAccounts ----------------------------
(* Instances of Accounts for TLC. *)
EXTENDS Accounts, TLC

Symmetry ==
  Permutations(Email) \cup Permutations(Token) \cup Permutations(Identity)
    \cup Permutations(Request)

=============================================================================
