-------------------------------- MODULE Merge --------------------------------
(***************************************************************************)
(* The prefix-tree merge of merge.py, and the walk of a caller through the *)
(* graph it makes (choose_edge and missing_inputs of replay.py and         *)
(* artifact.py).  Every scenario of a campaign recorded a linear trace; a  *)
(* node of the tree is the sequence of keys that leads to it, so what two  *)
(* traces share is a prefix they have in common.  Ids are abstracted to    *)
(* the tree node an emitted node stands for: the counters s1.. and d1..    *)
(* only name them.  Descriptions, hosts and checkpoints are the contract   *)
(* the traces must agree on; every recorded input is a string.             *)
(***************************************************************************)
EXTENDS GraphRules, Sequences

CONSTANTS
    Scenarios,     \* their positions in the specification
    Selectors, Values,
    Assigned,      \* scenario -> its selector values
    Inputs,        \* the input names besides the selectors
    Needs(_),      \* the inputs an action uses
    Recorded       \* the traces a discovery may record

Assignments == [Selectors -> Values]
ActionNodes == [action : STRING, effect : EFFECTS, retry_safety : RETRY_SAFETIES]

\* spec_from_dict refuses scenarios the selectors do not tell apart.
ASSUME CampaignAssumption ==
    /\ Scenarios \subseteq Nat /\ Scenarios # {} /\ IsFiniteSet(Scenarios)
    /\ Assigned \in [Scenarios -> Assignments]
    /\ \A i, j \in Scenarios : Assigned[i] = Assigned[j] => i = j
    /\ Selectors \cap Inputs = {}

\* validate accepts only traces with an action whose placeholders are declared inputs, and no retry of an unsafe act.
ASSUME TraceAssumption ==
    \A t \in Recorded :
        /\ t.path \in Seq(ActionNodes) /\ t.path # <<>> /\ t.inputs \subseteq Inputs
        /\ \A n \in 1..Len(t.path) :
               /\ Needs(t.path[n]) \subseteq t.inputs
               /\ t.path[n].effect \in NO_AUTOMATIC_RETRY => t.path[n].retry_safety = "never_retry"

VARIABLES
    traces,       \* scenario -> the trace it recorded
    merged,       \* "pending", "merged", "conflict" (MergeError) or "invalid" (refused by validate)
    graph,
    call,         \* the selector values and the input names a caller supplies
    at,           \* the node the walk is on
    done,         \* the actions performed
    answer

vars == <<traces, merged, graph, call, at, done, answer>>

Nothing == [kind |-> "nothing", tree |-> <<>>]
Idle == [assignment |-> <<>>]
Calls == [assignment : Assignments, inputs : SUBSET Inputs]

Init ==
    /\ traces \in [Scenarios -> Recorded]
    /\ merged = "pending" /\ graph = Nothing
    /\ call = Idle /\ at = Nothing /\ done = <<>> /\ answer = "none"

Path(i) == traces[i].path

-----------------------------------------------------------------------------
(* The tree.                                                               *)

\* The complete execution meaning of an action node, without its id.
node_key(node) == node

Keys(i) == [n \in 1..Len(Path(i)) |-> node_key(Path(i)[n])]
Prefix(k, n) == SubSeq(k, 1, n)

Tree == UNION {{Prefix(Keys(i), n) : n \in 0..Len(Path(i))} : i \in Scenarios}
Through(t) == {i \in Scenarios : Len(t) <= Len(Path(i)) /\ Prefix(Keys(i), Len(t)) = t}
Ends(t) == {i \in Scenarios : Keys(i) = t}
Children(t) == {u \in Tree : Len(u) = Len(t) + 1 /\ Prefix(u, Len(t)) = t}

\* The node a tree node was created with: that of the first scenario that took it.
First(S) == CHOOSE i \in S : \A j \in S : i <= j
Content(t) == Path(First(Through(t)))[Len(t)]

-----------------------------------------------------------------------------
(* The graph (GraphBuilder.emit).                                          *)

Action(t) == [kind |-> "action", tree |-> t]
Decision(t) == [kind |-> "decision", tree |-> t]
Success == [kind |-> "terminal", tree |-> <<>>]

\* Where the flow can go on after t, and the scenarios that go there.
Branches(t) ==
    {[to |-> Action(u), by |-> Through(u)] : u \in Children(t)}
    \cup (IF Ends(t) = {} THEN {} ELSE {[to |-> Success, by |-> Ends(t)]})

\* Faulty form of Decides: no gate at the entry.
DecidesAtForks(t) == \E b, c \in Branches(t) : b # c

\* A fork, or the gate that admits only the declared assignments.
Decides(t) == (t = <<>> /\ Selectors # {}) \/ \E b, c \in Branches(t) : b # c

After(t) == IF Decides(t) THEN Decision(t) ELSE (CHOOSE b \in Branches(t) : TRUE).to

Always(from, to) == [source |-> from, target |-> to, always |-> TRUE, guards |-> {}, priority |-> 0]

\* The complete selector assignment.
guards_for(i) == {<<s, Assigned[i][s]>> : s \in Selectors}

\* Faulty form of GuardedEdge: one priority for all scenarios of a branch.
GuardedEdgePerBranch(t, b, i) ==
    [source |-> Decision(t), target |-> b.to, always |-> FALSE, guards |-> guards_for(i), priority |-> First(b.by)]

GuardedEdge(t, b, i) ==
    [source |-> Decision(t), target |-> b.to, always |-> FALSE, guards |-> guards_for(i), priority |-> i]

Edges ==
    {Always(Action(t), After(t)) : t \in Tree \ {<<>>}}
    \cup UNION {UNION {{GuardedEdge(t, b, i) : i \in b.by} : b \in Branches(t)} : t \in {u \in Tree : Decides(u)}}

Nodes == {Action(t) : t \in Tree \ {<<>>}} \cup {Decision(t) : t \in {u \in Tree : Decides(u)}} \cup {Success}

\* Faulty form of required_when: whoever follows the first user of the input needs it.
required_when_first(users) == {guards_for(First(users))}

\* A selector is always required, an input of every scenario too; any other when a scenario that used it is meant.
required_when(users) == {guards_for(i) : i \in users}

UsersOf(x) == {i \in Scenarios : x \in traces[i].inputs}

merge_inputs ==
    [x \in Selectors \cup UNION {traces[i].inputs : i \in Scenarios} |->
        IF x \in Selectors \/ UsersOf(x) = Scenarios
        THEN [selector |-> x \in Selectors, required |-> TRUE, required_when |-> {}]
        ELSE [selector |-> FALSE, required |-> FALSE, required_when |-> required_when(UsersOf(x))]]

Graph ==
    [nodes |-> Nodes, entry |-> After(<<>>), edges |-> Edges, inputs |-> merge_inputs, outcomes |-> {},
     kind |-> [n \in Nodes |-> n.kind],
     effect |-> [n \in Nodes |-> IF n.kind = "action" THEN Content(n.tree).effect ELSE "none"],
     retry_safety |-> [n \in Nodes |-> IF n.kind = "action" THEN Content(n.tree).retry_safety ELSE "safe"],
     status |-> [n \in Nodes |-> IF n = Success THEN "success" ELSE "none"],
     outcome_code |-> [n \in Nodes |-> "none"]]

-----------------------------------------------------------------------------
(* merge_traces.                                                           *)

\* check_compatible and merge_outcomes: one contract, and a code means the same thing in every trace.
Compatible ==
    \A i, j \in Scenarios :
        /\ traces[i].contract = traces[j].contract
        /\ \A o \in traces[i].outcomes, p \in traces[j].outcomes : o[1] = p[1] => o = p

merge_traces ==
    /\ merged = "pending"
    /\ IF Compatible
       THEN graph' = Graph /\ merged' = IF Rules(graph') /\ Connected(graph') THEN "merged" ELSE "invalid"
       ELSE merged' = "conflict" /\ UNCHANGED graph
    /\ UNCHANGED <<traces, call, at, done, answer>>

-----------------------------------------------------------------------------
(* A caller of the merged capability.                                      *)

Begin ==
    /\ merged = "merged" /\ call = Idle /\ call' \in Calls
    /\ UNCHANGED <<traces, merged, graph, at, done, answer>>

Supplied == Selectors \cup call.inputs
Satisfied(clause) == \A term \in clause : call.assignment[term[1]] = term[2]
missing_inputs ==
    {x \in DOMAIN graph.inputs \ Supplied :
        graph.inputs[x].required \/ \E clause \in graph.inputs[x].required_when : Satisfied(clause)}

CheckInputs ==
    /\ call # Idle /\ answer = "none" /\ at = Nothing
    /\ IF missing_inputs = {} THEN at' = graph.entry /\ UNCHANGED answer
                              ELSE answer' = "missing_inputs" /\ UNCHANGED at
    /\ UNCHANGED <<traces, merged, graph, call, done>>

\* choose_edge; the run fails where no guard holds.
Move ==
    LET taken == Taken(graph, at, call.assignment) IN
    \/ \E e \in taken : at' = e.target /\ UNCHANGED answer
    \/ taken = {} /\ answer' = "no_edge" /\ UNCHANGED at

Perform ==
    /\ answer = "none" /\ at.kind = "action"
    /\ done' = Append(done, Content(at.tree)) /\ Move
    /\ UNCHANGED <<traces, merged, graph, call>>

Decide ==
    /\ answer = "none" /\ at.kind = "decision" /\ Move
    /\ UNCHANGED <<traces, merged, graph, call, done>>

Finish ==
    /\ answer = "none" /\ at.kind = "terminal" /\ answer' = "success"
    /\ UNCHANGED <<traces, merged, graph, call, at, done>>

Over == (answer # "none" \/ merged \in {"conflict", "invalid"}) /\ UNCHANGED vars

Next == merge_traces \/ Begin \/ CheckInputs \/ Perform \/ Decide \/ Finish \/ Over
Spec == Init /\ [][Next]_vars

-----------------------------------------------------------------------------
(* Properties *)

\* What the caller observes is what the scenario it meant recorded.
Paths == [i \in Scenarios |-> Path(i)]
Given == [i \in Scenarios |-> traces[i].inputs]
Declared == INSTANCE DeclaredPaths WITH paths <- Paths, given <- Given

\* merge.py: called as a recorded scenario was, the merged graph performs exactly the actions that scenario recorded,
\* with their effect and retry safety and without an input the caller may leave out; "an undeclared combination
\* stops before any action runs".
ImplementsDeclaredPaths == Declared!Spec

\* merge_traces ends in validate: traces that agree never make a graph it refuses, after all scenarios were discovered.
AgreementIsEnough == merged # "invalid"

\* approval.py takes the assignments to test from the entry gate: it has exactly one edge for each declared one.
GateIsDeclared ==
    merged = "merged" /\ Selectors # {} =>
        /\ {e.guards : e \in Outgoing(graph, graph.entry)} = {guards_for(i) : i \in Scenarios}
        /\ \A e, f \in Outgoing(graph, graph.entry) : e.guards = f.guards => e = f
=============================================================================
