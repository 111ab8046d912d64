----------------------------- MODULE MCCampaign -----------------------------
(***************************************************************************)
(* Three scenarios, two outcome codes of which the reviewer declares one,  *)
(* and two runs of the campaign over one directory.                        *)
(***************************************************************************)
EXTENDS Campaign, TLC

ReviewerKnows == [lost |-> "gone"]
ContractsAlike == Permutations(Contracts)
=============================================================================
