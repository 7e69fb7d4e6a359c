------------------------------ MODULE MCBilling ------------------------------
(* Small instances of Billing for TLC.                                     *)
EXTENDS Billing, TLC

CONSTANTS code, campaign

\* The campaign makes a purchase free, the typed code only cheaper.
MCPrice == (code :> 1) @@ (campaign :> 0)

\* The code sells out after one purchase, the campaign is for each company once.
MCMaxRedemptions == (code :> 1) @@ (campaign :> 2)
MCMaxPerCompany == (code :> Null) @@ (campaign :> 1)

Symmetry == Permutations(Requests) \cup Permutations(Subs \ Enterprise)
=============================================================================
