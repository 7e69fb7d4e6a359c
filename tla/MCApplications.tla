--------------------------- MODULE MCApplications ---------------------------
(* Small instances of Applications for TLC.                                *)
EXTENDS Applications, TLC

\* Keys, requests and ids are interchangeable.
Symmetry == Permutations(Keys) \cup Permutations(Uploaders)
              \cup Permutations(Appliers) \cup Permutations(AppIds)
=============================================================================
