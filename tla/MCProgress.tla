----------------------------- MODULE MCProgress -----------------------------
(***************************************************************************)
(* A run of steps longer than the window of the detector, over two         *)
(* ordinary steps and one that a person has to confirm.                    *)
(***************************************************************************)
EXTENDS Progress
=============================================================================
