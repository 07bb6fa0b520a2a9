----------------------------- MODULE MCSessions -----------------------------
(* Instances of Sessions for TLC. *)
EXTENDS Sessions, TLC

\* The values of one kind are interchangeable.  For safety runs only.
Symmetry ==
  Permutations(User) \cup Permutations(Token)
    \cup Permutations(ResetToken) \cup Permutations(Request)

=============================================================================
