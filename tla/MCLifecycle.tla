----------------------------- MODULE MCLifecycle -----------------------------
(***************************************************************************)
(* A small instance of Lifecycle: a flow without selectors and one whose   *)
(* entry gate declares two assignments.                                    *)
(***************************************************************************)
EXTENDS Lifecycle, TLC

Symmetric == Permutations(Testers) \cup Permutations(Approvers)
GatedDeclared == [b \in Bodies |-> IF b = "gated" THEN {"card", "cash"} ELSE {}]
=============================================================================
