--------------------------- MODULE DeclaredPaths ---------------------------
(***************************************************************************)
(* What a merged capability promises: called with the selector assignment  *)
(* of a recorded scenario it performs the actions of that scenario, all of *)
(* them and in their order, with nothing but inputs the caller supplied;   *)
(* called with any other assignment it performs no action.  The graph, its *)
(* decisions and its guards do not appear.                                 *)
(***************************************************************************)
EXTENDS Integers, Sequences

CONSTANTS
    Scenarios, Assigned,  \* the selector assignment of each scenario
    Calls,                \* the parameter sets a caller may supply: selector values and input names
    Needs(_),             \* the inputs an action uses
    Idle

VARIABLES
    paths,   \* per scenario, the actions it recorded
    given,   \* the inputs each scenario was given
    call, done, answer

vars == <<paths, given, call, done, answer>>

Init == call = Idle /\ done = <<>> /\ answer = "none"

Meant(i) == Assigned[i] = call.assignment

Begin == call = Idle /\ call' \in Calls /\ UNCHANGED <<paths, given, done, answer>>

Act ==
    /\ call # Idle /\ answer = "none"
    /\ \E i \in Scenarios :
         /\ Meant(i) /\ Len(done) < Len(paths[i])
         /\ Needs(paths[i][Len(done) + 1]) \subseteq call.inputs
         /\ done' = Append(done, paths[i][Len(done) + 1])
    /\ UNCHANGED <<paths, given, call, answer>>

Succeed ==
    /\ call # Idle /\ answer = "none" /\ \E i \in Scenarios : Meant(i) /\ done = paths[i]
    /\ answer' = "success"
    /\ UNCHANGED <<paths, given, call, done>>

\* A caller who supplied what the scenario was given is never turned away.
TurnAway ==
    /\ call # Idle /\ answer = "none" /\ done = <<>>
    /\ \A i \in Scenarios : Meant(i) => ~(given[i] \subseteq call.inputs)
    /\ answer' \in {"missing_inputs", "no_edge"}
    /\ UNCHANGED <<paths, given, call, done>>

Spec == Init /\ [][Begin \/ Act \/ Succeed \/ TurnAway]_vars
=============================================================================
