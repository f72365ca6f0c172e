----------------------------- MODULE MCNzbSync -----------------------------
(* Instances of NzbSync for TLC.                                           *)
EXTENDS NzbSync, TLC
=============================================================================
