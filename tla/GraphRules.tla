----------------------------- MODULE GraphRules -----------------------------
(***************************************************************************)
(* The rules `validate` of artifact.py checks on a capability graph before *)
(* it looks for a way from the entry to every node and for cycles (module  *)
(* Validation has the two searches).  A graph is a record: its node ids,   *)
(* per node kind, effect, retry_safety, status and outcome_code, its edges *)
(* and its declared inputs.  `always` marks an unconditional edge; the     *)
(* guards of any other are <<input, value>> pairs, all of which must hold. *)
(* The texts of a node (names, patterns, placeholders) are left out.       *)
(***************************************************************************)
EXTENDS Integers, FiniteSets

EFFECTS == {"none", "reversible", "irreversible", "unknown"}
RETRY_SAFETIES == {"safe", "verify_before_retry", "never_retry"}
NO_AUTOMATIC_RETRY == {"irreversible", "unknown"}
TERMINAL_STATUSES == {"success", "business_outcome", "failure"}

Outgoing(g, n) == {e \in g.edges : e.source = n}
Successors(g, n) == {e.target : e \in Outgoing(g, n)}

ActionRule(g, n) ==
    /\ g.status[n] = "none"
    /\ g.effect[n] \in NO_AUTOMATIC_RETRY => g.retry_safety[n] = "never_retry"

PassiveRule(g, n) == g.effect[n] = "none" /\ g.retry_safety[n] = "safe"

TerminalRule(g, n) ==
    /\ g.status[n] \in TERMINAL_STATUSES
    /\ g.status[n] = "success" <=> g.outcome_code[n] = "none"
    /\ g.status[n] = "business_outcome" => g.outcome_code[n] \in g.outcomes

NodeRules(g) ==
    \A n \in g.nodes :
        CASE g.kind[n] = "action"   -> ActionRule(g, n)
          [] g.kind[n] = "decision" -> PassiveRule(g, n) /\ g.status[n] = "none"
          [] g.kind[n] = "terminal" -> PassiveRule(g, n) /\ TerminalRule(g, n)

EntryRule(g) == g.entry \in g.nodes /\ g.kind[g.entry] # "terminal"

EdgeRule(g, e) ==
    /\ {e.source, e.target} \subseteq g.nodes
    /\ g.kind[e.source] # "terminal"
    /\ e.priority \in Int
    /\ e.always <=> e.guards = {}
    /\ \A guard \in e.guards : guard[1] \in DOMAIN g.inputs

\* Faulty form of FallbackRule: the fallback may be tried before the last guarded edge.
FallbackAnywhere(g, n) == \A e, f \in Outgoing(g, n) : e.always /\ f.always => e = f

\* One unconditional edge at most, and it is tried last.
FallbackRule(g, n) == \A e, f \in Outgoing(g, n) : e.always /\ e # f => ~f.always /\ f.priority < e.priority

EdgeRules(g) ==
    /\ \A e \in g.edges : EdgeRule(g, e)
    /\ \A e, f \in g.edges : e.source = f.source /\ e.priority = f.priority => e = f
    /\ \A n \in g.nodes : FallbackRule(g, n) /\ (g.kind[n] # "terminal" => Outgoing(g, n) # {})

InputRules(g) ==
    \A x \in DOMAIN g.inputs :
        /\ g.inputs[x].selector => g.inputs[x].required
        /\ g.inputs[x].required => g.inputs[x].required_when = {}
        /\ \A clause \in g.inputs[x].required_when :
               clause # {} /\ \A term \in clause : term[1] \in DOMAIN g.inputs /\ g.inputs[term[1]].selector

\* The two searches in one step: every node is at some distance from the entry, and leaves can be taken away until
\* nothing is left.
Connected(g) ==
    LET steps == 0..Cardinality(g.nodes)
        reached[k \in steps] ==
            IF k = 0 THEN {g.entry} ELSE reached[k - 1] \cup UNION {Successors(g, n) : n \in reached[k - 1]}
        left[k \in steps] == IF k = 0 THEN g.nodes ELSE {n \in left[k - 1] : Successors(g, n) \cap left[k - 1] # {}}
    IN  reached[Cardinality(g.nodes)] = g.nodes /\ left[Cardinality(g.nodes)] = {}

Rules(g) == InputRules(g) /\ NodeRules(g) /\ EntryRule(g) /\ EdgeRules(g)

-----------------------------------------------------------------------------
(* What the searches are for.  A finite graph has no cycle exactly when    *)
(* every set of its nodes has one from which no edge stays in the set; a   *)
(* node can be reached exactly when every set that holds the entry and is  *)
(* closed under the edges holds it.                                        *)

Acyclic(g) == \A S \in SUBSET g.nodes : S # {} => \E n \in S : Successors(g, n) \cap S = {}
Closed(g, S) == g.entry \in S /\ \A n \in S : Successors(g, n) \subseteq S
AllReachable(g) == \A S \in SUBSET g.nodes : Closed(g, S) => S = g.nodes

-----------------------------------------------------------------------------
(* What replay does with a graph: choose_edge tries the edges of a node in *)
(* the order of their priorities and takes the first whose guards hold.    *)

Holds(e, params) == \A guard \in e.guards : guard[1] \in DOMAIN params /\ params[guard[1]] = guard[2]
Holding(g, n, params) == {e \in Outgoing(g, n) : Holds(e, params)}
Taken(g, n, params) == {e \in Holding(g, n, params) : \A f \in Holding(g, n, params) : e.priority <= f.priority}
=============================================================================
