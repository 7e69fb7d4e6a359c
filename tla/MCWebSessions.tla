--------------------------- MODULE MCWebSessions ---------------------------
(* Small instances of WebSessions and Accounts for TLC.                    *)
EXTENDS WebSessions, TLC

\* Links and requests are interchangeable.
Symmetry == Permutations(TokenIds) \cup Permutations(Requests)
=============================================================================
