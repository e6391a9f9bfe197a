------------------------ MODULE MCDocumentLifecycle ------------------------
(* Instances of DocumentLifecycle for TLC.                                 *)
EXTENDS DocumentLifecycle, TLC

\* Concurrent requests are alike, and contents are only compared.
MCSymmetry == Permutations(Uploads) \cup Permutations(Deletes) \cup Permutations(Contents)
=============================================================================
