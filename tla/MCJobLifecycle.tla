--------------------------- MODULE MCJobLifecycle ---------------------------
(* Instances of JobLifecycle for TLC.                                      *)
EXTENDS JobLifecycle, TLC

\* Every job has the same title and city, so equal short ids collide.
SameSlugBase == [j \in Jobs |-> "cook-beograd"]

\* Requests, ticks and short ids are interchangeable.  (For safety runs only.)
RequestTickSymmetry ==
  Permutations(Requests) \cup Permutations(Ticks) \cup Permutations(ShortIds)
=============================================================================
