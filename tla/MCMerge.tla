------------------------------ MODULE MCMerge ------------------------------
(***************************************************************************)
(* A campaign of three scenarios and two selectors, so that one pair of    *)
(* values stays undeclared.                                                *)
(***************************************************************************)
EXTENDS Merge

Three == 1..3
Pair == {"method", "kind"}
Two == {"x", "y"}
Named(m, k) == [method |-> m, kind |-> k]
ThreeAssigned == <<Named("x", "x"), Named("y", "x"), Named("x", "y")>>
Names == {"member", "phone"}
Uses(node) == IF node.action = "fill" THEN {"member"} ELSE {}

Do(a, e, r) == [action |-> a, effect |-> e, retry_safety |-> r]
Fill == Do("fill", "reversible", "verify_before_retry")
Open == Do("open", "reversible", "verify_before_retry")
Commit == Do("open", "irreversible", "never_retry")
Trace(p, ins, c, o) == [path |-> p, inputs |-> ins, contract |-> c, outcomes |-> o]
Needed(p) == UNION {Uses(p[n]) : n \in DOMAIN p}
Actions == {Fill, Open, Commit}
ShortPaths == {<<a>> : a \in Actions} \cup {<<a, b>> : a, b \in Actions}

\* Traces of one to three actions that agree, some with an input no action of theirs uses, and traces that disagree.
LongPaths == {<<Open, Commit, Fill>>, <<Open, Commit, Commit>>, <<Open, Open, Commit>>}
Agreeing ==
    {Trace(p, Needed(p), "one", {}) : p \in ShortPaths \cup LongPaths}
    \cup {Trace(<<a>>, Needed(<<a>>) \cup {"phone"}, "one", {}) : a \in Actions}
Disagreeing ==
    {Trace(<<Open>>, {}, "two", {}), Trace(<<Open>>, {}, "one", {<<"lost", "a">>}),
     Trace(<<Fill>>, Needed(<<Fill>>), "one", {<<"lost", "b">>})}
AllTraces == Agreeing \cup Disagreeing
=============================================================================
