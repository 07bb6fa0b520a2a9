---------------------------- MODULE MCInterviews ----------------------------
(* Instances of Interviews for TLC. *)
EXTENDS Interviews, TLC

\* The values of one kind are interchangeable.  For safety runs only.
Symmetry ==
  Permutations(User) \cup Permutations(Workspace)
    \cup Permutations(Interview) \cup Permutations(Request)

=============================================================================
