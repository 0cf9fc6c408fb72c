--------------------------- MODULE MCRequestQueue ---------------------------
(* Small instances of RequestQueue for TLC. *)
EXTENDS RequestQueueLifecycle, TLC

\* No action and no safety property names a particular member of these sets.
Symmetry ==
  UNION {Permutations(S) : S \in {Requests, Workers, Operators, Queries, Releases}}

=============================================================================
