---------------------------- MODULE MCCompanies ----------------------------
(* Small instances of Companies for TLC.                                   *)
EXTENDS Companies, TLC

\* Companies, people and requests are interchangeable.
Symmetry == Permutations(CompanyIds) \cup Permutations(Users)
              \cup Permutations(Requests)
=============================================================================
