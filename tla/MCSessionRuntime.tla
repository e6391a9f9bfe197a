-------------------------- MODULE MCSessionRuntime --------------------------
(* SessionRuntime for TLC.  Requests, questions and deletes are only compared *)
(* with each other, so they may be permuted.                                  *)
EXTENDS SessionRuntime, TLC

Symmetry ==
    Permutations(Requests) \cup Permutations(Questions) \cup Permutations(Deletes)
=============================================================================
