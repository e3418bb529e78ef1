------------------------- MODULE MCActionLifecycle -------------------------
(* TLC instances of ActionLifecycle.                                       *)
EXTENDS ActionLifecycle, TLC

\* Ids are interchangeable; only the safety runs use this.
Symmetry == Permutations(Proposal) \cup Permutations(Request)

=============================================================================
