---------------------------- MODULE FlowContract ----------------------------
(***************************************************************************)
(* What one replay promises its caller, with the engine left out: no       *)
(* retries, waits, dialogs, policies or handoffs, only the walk and what   *)
(* was carried out on it.  The contract is the one replay.py states for    *)
(* its result: `executed_path` lists the action nodes completed and        *)
(* traversed, once each; an action whose repetition is unsafe is carried   *)
(* out at most once unless a person starts the flow over; success is the   *)
(* success terminal's to declare, and a run answers once.                  *)
(***************************************************************************)
EXTENDS Naturals, Sequences

CONSTANTS
  Nodes, EntryNode,
  ActionNodes,       (* the nodes a walk lists                             *)
  PhysicalNodes,     (* the action nodes that change something             *)
  OnceNodes,         (* the nodes that must not be repeated unasked        *)
  SuccessNodes,      (* the terminals that declare success                 *)
  Edges              (* node -> the nodes an edge leads to                 *)

VARIABLES
  at,                (* the node the walk is on                            *)
  carried,           (* per node, how often this flow may have performed it *)
  by_hand,           (* nodes a person may have carried out in this flow   *)
  executed,          (* the walk so far                                    *)
  answer             (* "none" until the run is over                       *)

vars == <<at, carried, by_hand, executed, answer>>

Fresh ==
  /\ at = EntryNode
  /\ carried = [n \in Nodes |-> 0]
  /\ by_hand = {}
  /\ executed = <<>>

Init == Fresh /\ answer = "none"

Listed(n) == \E i \in 1..Len(executed) : executed[i] = n

(* The engine may have performed the action of the node it is on.          *)
Carry ==
  /\ at \in PhysicalNodes /\ ~Listed(at)
  /\ at \in OnceNodes => carried[at] = 0 /\ at \notin by_hand
  /\ carried' = [carried EXCEPT ![at] = @ + 1]
  /\ UNCHANGED <<at, by_hand, executed>>

(* A person may have performed it on the live session.                     *)
Hand ==
  /\ at \in ActionNodes /\ ~Listed(at)
  /\ by_hand' = by_hand \cup {at}
  /\ UNCHANGED <<at, carried, executed>>

(* The node is completed: never before somebody performed it.              *)
List ==
  /\ at \in ActionNodes /\ ~Listed(at)
  /\ at \in PhysicalNodes => carried[at] > 0 \/ at \in by_hand
  /\ executed' = Append(executed, at)
  /\ UNCHANGED <<at, carried, by_hand>>

Move ==
  /\ at \in ActionNodes => executed # <<>> /\ executed[Len(executed)] = at
  /\ at' \in Edges[at]
  /\ UNCHANGED <<carried, by_hand, executed>>

(* A person starts the flow over.                                          *)
Restart == Fresh'

(* The run ends, possibly with an action under way whose result is lost.   *)
Answer ==
  /\ answer' \in {"success", "business_outcome", "failure", "raised"}
  /\ answer' = "success" => at \in SuccessNodes
  /\ UNCHANGED <<at, by_hand, executed>>
  /\ \/ UNCHANGED carried
     \/ Carry

Next ==
  /\ answer = "none"
  /\ \/ (Carry \/ Hand \/ List \/ Move \/ Restart) /\ UNCHANGED answer
     \/ Answer

Spec == Init /\ [][Next]_vars
=============================================================================
