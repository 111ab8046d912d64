------------------------------ MODULE Promotion ------------------------------
(***************************************************************************)
(* What the artifact lifecycle promises: a flow is approved only after it  *)
(* was tested under every selector assignment it declares, and it runs     *)
(* unattended only when it is approved.  No files, digests or processes.   *)
(* The promise is the one lifecycle.py and approval.py open with.          *)
(***************************************************************************)
CONSTANTS Bodies, Assignments, Declared

VARIABLES
  tested,            (* pairs of a body and an assignment it was tested under *)
  approved,          (* the bodies a person approved                       *)
  executed           (* the bodies that ran unattended                     *)

vars == <<tested, approved, executed>>

Init == tested = {} /\ approved = {} /\ executed = {}

Test(b, a) == tested' = tested \cup {<<b, a>>} /\ UNCHANGED <<approved, executed>>

(* A body without selectors has one behaviour: one assignment stands for all. *)
Covered(b) ==
  IF Declared[b] = {} THEN \E a \in Assignments : <<b, a>> \in tested
  ELSE \A a \in Declared[b] : <<b, a>> \in tested

Approve(b) ==
  /\ Covered(b)
  /\ approved' = approved \cup {b}
  /\ UNCHANGED <<tested, executed>>

Execute(b) ==
  /\ b \in approved
  /\ executed' = executed \cup {b}
  /\ UNCHANGED <<tested, approved>>

Next ==
  \E b \in Bodies :
    (\E a \in Assignments : Test(b, a)) \/ Approve(b) \/ Execute(b)

Spec == Init /\ [][Next]_vars
=============================================================================
