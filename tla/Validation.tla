----------------------------- MODULE Validation -----------------------------
(***************************************************************************)
(* `validate` of artifact.py: the rules on nodes, edges and inputs, then   *)
(* the frontier search of `_validate_reachable` and the depth-first search *)
(* of `_validate_acyclic`, step by step.  Replay is safe only on what this *)
(* accepts: GraphAssumption of module Replay is what it must establish.    *)
(***************************************************************************)
EXTENDS GraphRules, Sequences, FiniteSets

CONSTANTS
    Graphs,  \* the graphs submitted
    Params   \* the parameters a replay of an accepted one is given: input name -> value

\* The nodes and the edges of an artifact are lists in its file.
ASSUME GraphsAssumption == \A g \in Graphs : IsFiniteSet(g.nodes) /\ IsFiniteSet(g.edges)

VARIABLES
    graph,
    pc,        \* "rules", "reach", "cycle", then the verdict
    seen, frontier,     \* _validate_reachable
    on_path, finished,  \* _validate_acyclic
    untried             \* per node on the path, the successors `visit` has still to call

vars == <<graph, pc, seen, frontier, on_path, finished, untried>>
search == <<on_path, finished, untried>>
Verdicts == {"accepted", "malformed", "unreachable", "cyclic"}

Init ==
    /\ graph \in Graphs /\ pc = "rules"
    /\ seen = {} /\ frontier = {}
    /\ on_path = <<>> /\ finished = {} /\ untried = [n \in graph.nodes |-> {}]

CheckRules ==
    /\ pc = "rules"
    /\ IF Rules(graph)
       THEN pc' = "reach" /\ seen' = {graph.entry} /\ frontier' = {graph.entry}
       ELSE pc' = "malformed" /\ UNCHANGED <<seen, frontier>>
    /\ UNCHANGED <<graph, search>>

\* Faulty form of Expand: a node seen before is looked at again.
ExpandAgain ==
    /\ pc = "reach"
    /\ \E n \in frontier :
         /\ seen' = seen \cup Successors(graph, n)
         /\ frontier' = (frontier \ {n}) \cup Successors(graph, n)
    /\ UNCHANGED <<graph, pc, search>>

\* The order in which the frontier is emptied makes no difference to what is seen in the end.
Expand ==
    /\ pc = "reach"
    /\ \E n \in frontier :
         /\ seen' = seen \cup Successors(graph, n)
         /\ frontier' = (frontier \ {n}) \cup (Successors(graph, n) \ seen)
    /\ UNCHANGED <<graph, pc, search>>

Reached ==
    /\ pc = "reach" /\ frontier = {}
    /\ pc' = IF seen = graph.nodes THEN "cycle" ELSE "unreachable"
    /\ UNCHANGED <<graph, seen, frontier, search>>

OnPath(n) == \E i \in 1..Len(on_path) : on_path[i] = n

Enter(n, rest) ==
    /\ on_path' = Append(on_path, n) /\ untried' = [rest EXCEPT ![n] = Successors(graph, n)]
    /\ UNCHANGED <<pc, finished>>

\* Faulty form of Visit: what was visited before, on the path or not, is left alone.
VisitOnce(n, rest) ==
    \/ (OnPath(n) \/ n \in finished) /\ untried' = rest /\ UNCHANGED <<pc, on_path, finished>>
    \/ ~OnPath(n) /\ n \notin finished /\ Enter(n, rest)

\* Faulty form of Visit: meeting any node a second time is taken for a cycle.
VisitTwiceIsCycle(n, rest) ==
    \/ (OnPath(n) \/ n \in finished) /\ pc' = "cyclic" /\ untried' = rest /\ UNCHANGED <<on_path, finished>>
    \/ ~OnPath(n) /\ n \notin finished /\ Enter(n, rest)

\* visit(n): a node on the path closes a cycle, a finished one is left alone, any other is entered.
Visit(n, rest) ==
    \/ OnPath(n) /\ pc' = "cyclic" /\ untried' = rest /\ UNCHANGED <<on_path, finished>>
    \/ ~OnPath(n) /\ n \in finished /\ untried' = rest /\ UNCHANGED <<pc, on_path, finished>>
    \/ ~OnPath(n) /\ n \notin finished /\ Enter(n, rest)

VisitRoot ==
    /\ pc = "cycle" /\ on_path = <<>>
    /\ \E n \in graph.nodes \ finished : Visit(n, untried)
    /\ UNCHANGED <<graph, seen, frontier>>

Top == on_path[Len(on_path)]

VisitSuccessor ==
    /\ pc = "cycle" /\ on_path # <<>>
    /\ \E n \in untried[Top] : Visit(n, [untried EXCEPT ![Top] = @ \ {n}])
    /\ UNCHANGED <<graph, seen, frontier>>

LeaveNode ==
    /\ pc = "cycle" /\ on_path # <<>> /\ untried[Top] = {}
    /\ on_path' = SubSeq(on_path, 1, Len(on_path) - 1) /\ finished' = finished \cup {Top}
    /\ UNCHANGED <<graph, pc, seen, frontier, untried>>

Accept ==
    /\ pc = "cycle" /\ on_path = <<>> /\ graph.nodes \subseteq finished
    /\ pc' = "accepted"
    /\ UNCHANGED <<graph, seen, frontier, search>>

Step == CheckRules \/ Expand \/ Reached \/ VisitRoot \/ VisitSuccessor \/ LeaveNode \/ Accept
Answered == pc \in Verdicts /\ UNCHANGED vars

Spec == Init /\ [][Step \/ Answered]_vars
FairSpec == Spec /\ WF_vars(Step) \* a call of validate runs to its end

-----------------------------------------------------------------------------
(* Properties *)

\* validate: what it accepts has no cycle and no unreachable node, so every replay of it ends.
AcceptedIsSound == pc = "accepted" => Acyclic(graph) /\ AllReachable(graph)

\* validate, "with a precise reason": a graph is refused for a cycle or an unreachable node only when it has one.
RefusedForCause ==
    /\ pc = "cyclic" => ~Acyclic(graph)
    /\ pc = "unreachable" => ~AllReachable(graph)

\* At most one edge to take, never the fallback while a guarded edge holds, and none only where no fallback is.
ChoiceIsSound(params) ==
    \A n \in graph.nodes :
        LET taken == Taken(graph, n, params) IN
        /\ \A e, f \in taken : e = f
        /\ (\E e \in Holding(graph, n, params) : ~e.always) => \A e \in taken : ~e.always
        /\ (\E e \in Outgoing(graph, n) : e.always) => taken # {}

\* _validate_edges, "or it would hide the guarded ones": what replay may take on an accepted graph does not depend on
\* the order of the edges in the file, whatever the parameters are.
ChoicesAreSound == pc = "accepted" => \A params \in Params : ChoiceIsSound(params)

\* Every search of a submitted graph ends in a verdict, cyclic graphs included.
VerdictComes == <>(pc \in Verdicts)
=============================================================================
