---------------------------- MODULE MCJobEditor ----------------------------
(* Small instances of JobEditor for TLC.                                   *)
EXTENDS JobEditor
=============================================================================
