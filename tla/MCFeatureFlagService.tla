------------------------ MODULE MCFeatureFlagService ------------------------
(* Instances of FeatureFlagService for TLC. *)
EXTENDS FeatureFlagService, TLC

CONSTANTS p1, p2

\* All calls in one process: one event loop.
OneProcess == [r \in Gets \cup Sets |-> p1]

\* Gets in one process, sets in the other.
TwoProcesses == [r \in Gets \cup Sets |-> IF r \in Gets THEN p1 ELSE p2]

\* Tenants, users and the calls of one kind are interchangeable.
Symmetry ==
  UNION {Permutations(Gets), Permutations(Sets), Permutations(Users), Permutations(Tenants)}
=============================================================================
