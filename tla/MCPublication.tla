---------------------------- MODULE MCPublication ----------------------------
(* Publication for TLC: the runs are model values given in the configurations. *)
EXTENDS Publication, TLC

\* Runs that are treated alike may be exchanged.
RunSymmetry == Permutations(Runs \ (Healthy \cup PdfRuns))
=============================================================================
