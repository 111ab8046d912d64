---------------------------- MODULE MCValidation ----------------------------
(***************************************************************************)
(* Small graphs for Validation: graphs of four nodes for the searches, of *)
(* three nodes and up to three edges for the rules.                        *)
(***************************************************************************)
EXTENDS Validation

Inputs == [method |-> [selector |-> TRUE, required |-> TRUE, required_when |-> {}]]
Ok(n, k) == [action |-> [effect |-> "none", retry |-> "safe", status |-> "none"],
             decision |-> [effect |-> "none", retry |-> "safe", status |-> "none"],
             terminal |-> [effect |-> "none", retry |-> "safe", status |-> "success"]][k[n]]
Graph(nodes, k, edges) ==
    [nodes |-> nodes, kind |-> k, entry |-> "a", edges |-> edges, inputs |-> Inputs, outcomes |-> {},
     effect |-> [n \in nodes |-> Ok(n, k).effect], retry_safety |-> [n \in nodes |-> Ok(n, k).retry],
     status |-> [n \in nodes |-> Ok(n, k).status], outcome_code |-> [n \in nodes |-> "none"]]

\* One unconditional edge a pair of nodes would be refused before the searches: the edges are told apart by guards.
Rank == [a |-> 1, b |-> 2, c |-> 3, d |-> 4]
Guarded(x, y) == [source |-> x, target |-> y, always |-> FALSE, guards |-> {<<"method", y>>}, priority |-> Rank[y]]
Four == {"a", "b", "c", "d"}
SearchGraphs ==
    {LET leaves == {n \in Four : \A p \in pairs : p[1] # n}
     IN  Graph(Four, [n \in Four |-> IF n \in leaves THEN "terminal" ELSE "action"], {Guarded(p[1], p[2]) : p \in pairs}) :
         pairs \in SUBSET {p \in Four \X Four : p[1] = "d" \/ p[2] # "a"}}

Three == {"a", "b", "c"}
AnyEdge ==
    {[source |-> x, target |-> y, always |-> g = {}, guards |-> g, priority |-> p] :
         x \in Three, y \in {"b", "c"}, g \in {{}, {<<"method", "b">>}, {<<"method", "c">>}, {<<"free", "b">>}}, p \in {1, 2}}
RuleGraphs ==
    {Graph(Three, [a |-> "action", b |-> k, c |-> "terminal"], edges) :
         k \in {"decision", "terminal"}, edges \in {{e, f, h} : e, f, h \in AnyEdge}}

SmallGraphs == SearchGraphs \cup RuleGraphs

OneInput == [{"method"} -> Three]
=============================================================================
