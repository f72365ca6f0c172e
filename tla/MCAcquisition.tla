--------------------------- MODULE MCAcquisition ---------------------------
(* Instances of Acquisition for TLC.                                       *)
EXTENDS Acquisition, TLC

\* Rows and attempts are interchangeable; used by the runs without liveness.
Symmetry == Permutations(Attempt) \cup Permutations(Debrid) \cup Permutations(Nzb)
=============================================================================
