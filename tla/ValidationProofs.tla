-------------------------- MODULE ValidationProofs --------------------------
(***************************************************************************)
(* Theorems about Validation, for every submitted graph: the two searches  *)
(* accept only graphs without a cycle whose nodes can all be reached, and  *)
(* refuse a graph for a cycle or an unreachable node only when it has one; *)
(* on what is accepted the parameters of a replay decide its way; and it   *)
(* is what module Replay assumes of a graph.                               *)
(***************************************************************************)
EXTENDS Validation, SequenceTheorems, FiniteSetTheorems, WellFoundedInduction, TLAPS

LEMMA NextAreNodes ==
  ASSUME NEW g, Rules(g), NEW n
  PROVE  Successors(g, n) \subseteq g.nodes
  BY DEF Rules, EdgeRules, EdgeRule, Successors, Outgoing

-----------------------------------------------------------------------------
(* The frontier search: what is seen is in every closed set, and what was  *)
(* seen and expanded is closed.                                            *)

Searching == {"cycle", "accepted", "cyclic"}
Checked == Searching \cup {"reach", "unreachable"}

ReachInv ==
    /\ graph \in Graphs
    /\ pc \in Checked => Rules(graph) /\ graph.entry \in seen
    /\ pc \notin Checked => seen = {}
    /\ seen \subseteq graph.nodes /\ frontier \subseteq seen
    /\ \A n \in seen \ frontier : Successors(graph, n) \subseteq seen
    /\ \A S \in SUBSET graph.nodes : Closed(graph, S) => seen \subseteq S
    /\ pc \in Searching => seen = graph.nodes
    /\ pc = "unreachable" => frontier = {} /\ seen # graph.nodes

LEMMA ReachInit == Init => ReachInv
  BY DEF Init, ReachInv, Closed, Searching, Checked

LEMMA ReachStep ==
  ASSUME ReachInv, [Step \/ Answered]_vars
  PROVE  ReachInv'
<1> USE DEF ReachInv
<1>1. CASE CheckRules
  <2>1. CASE Rules(graph)
    <3>1. graph.entry \in graph.nodes
      BY <2>1 DEF Rules, EntryRule
    <3> QED
      BY <1>1, <2>1, <3>1 DEF CheckRules, Searching, Checked, Closed
  <2>2. CASE ~Rules(graph)
    BY <1>1, <2>2 DEF CheckRules, Searching, Checked
  <2> QED
    BY <2>1, <2>2
<1>2. CASE Expand
  <2>1. PICK n \in frontier : /\ seen' = seen \cup Successors(graph, n)
                              /\ frontier' = (frontier \ {n}) \cup (Successors(graph, n) \ seen)
    BY <1>2 DEF Expand
  <2>2. UNCHANGED <<graph, pc>> /\ pc = "reach"
    BY <1>2 DEF Expand
  <2> Rules(graph) /\ graph.entry \in seen
    BY <2>2 DEF Checked
  <2>3. seen' \subseteq graph.nodes /\ frontier' \subseteq seen' /\ graph.entry \in seen'
    BY <2>1, NextAreNodes
  <2>4. \A m \in seen' \ frontier' : Successors(graph, m) \subseteq seen'
    BY <2>1
  <2>5. ASSUME NEW S \in SUBSET graph.nodes, Closed(graph, S)
        PROVE  seen' \subseteq S
    BY <2>1, <2>5 DEF Closed
  <2> QED
    BY <2>2, <2>3, <2>4, <2>5 DEF Searching, Checked
<1>3. CASE Reached
  BY <1>3 DEF Reached, Searching, Checked
<1>4. CASE VisitRoot \/ VisitSuccessor
  <2>1. UNCHANGED <<graph, seen, frontier>> /\ pc = "cycle" /\ pc' \in {"cycle", "cyclic"}
    BY <1>4 DEF VisitRoot, VisitSuccessor, Visit, Enter
  <2> QED
    BY <2>1 DEF Searching, Checked
<1>5. CASE LeaveNode \/ Accept
  BY <1>5 DEF LeaveNode, Accept, search, Searching, Checked
<1>6. CASE Answered \/ UNCHANGED vars
  BY <1>6 DEF Answered, vars
<1> QED
  BY <1>1, <1>2, <1>3, <1>4, <1>5, <1>6 DEF Step

-----------------------------------------------------------------------------
(* The depth-first search: the path is one of the graph, what is finished  *)
(* is closed under the edges and has no cycle, and the edges of a node on  *)
(* the path that were tried lead to finished nodes or to the next on it.   *)

NoCycleIn(S) == \A T \in SUBSET S : T # {} => \E n \in T : Successors(graph, n) \cap T = {}

PathInv ==
    /\ on_path \in Seq(graph.nodes) /\ finished \subseteq graph.nodes
    /\ \A i, j \in 1..Len(on_path) : on_path[i] = on_path[j] => i = j
    /\ \A i \in 1..Len(on_path) : on_path[i] \notin finished
    /\ \A i \in 1..Len(on_path) - 1 : on_path[i + 1] \in Successors(graph, on_path[i])

TriedInv ==
    /\ untried \in [graph.nodes -> SUBSET graph.nodes]
    /\ \A i \in 1..Len(on_path) : untried[on_path[i]] \subseteq Successors(graph, on_path[i])
    /\ pc # "cyclic" => \A i \in 1..Len(on_path) : \A n \in Successors(graph, on_path[i]) \ untried[on_path[i]] :
           n \in finished \/ (i < Len(on_path) /\ n = on_path[i + 1])

FinishedInv ==
    /\ \A n \in finished : Successors(graph, n) \subseteq finished
    /\ NoCycleIn(finished)
    /\ pc \in {"rules", "reach"} => on_path = <<>>
    /\ pc = "accepted" => finished = graph.nodes
    /\ pc = "cyclic" => ~Acyclic(graph)

CycleInv == PathInv /\ TriedInv /\ FinishedInv

LEMMA CycleInit == Init => CycleInv
  BY DEF Init, CycleInv, PathInv, TriedInv, FinishedInv, NoCycleIn

\* Entering a node that is neither on the path nor finished, from the end of the path or as a root.
LEMMA EnterKeeps ==
  ASSUME CycleInv, Rules(graph), pc = "cycle", UNCHANGED <<graph, seen, frontier>>,
         NEW rest \in [graph.nodes -> SUBSET graph.nodes],
         NEW n \in graph.nodes, ~OnPath(n), n \notin finished, Enter(n, rest),
         \/ on_path = <<>>
         \/ /\ n \in Successors(graph, Top)
            /\ rest = [untried EXCEPT ![Top] = @ \ {n}]
  PROVE  CycleInv'
<1> DEFINE last == Len(on_path)
<1>1. /\ on_path \in Seq(graph.nodes) /\ last \in Nat
      /\ on_path' = Append(on_path, n) /\ on_path' \in Seq(graph.nodes) /\ Len(on_path') = last + 1
      /\ \A i \in 1..last : on_path'[i] = on_path[i] /\ on_path[i] # n /\ on_path[i] \in graph.nodes
      /\ on_path'[last + 1] = n
      /\ finished' = finished /\ pc' = pc /\ graph' = graph
      /\ untried' = [rest EXCEPT ![n] = Successors(graph, n)]
  BY DEF CycleInv, PathInv, Enter, OnPath
<1>2. PathInv'
  <2>1. \A i, j \in 1..Len(on_path') : on_path'[i] = on_path'[j] => i = j
    BY <1>1 DEF CycleInv, PathInv
  <2>2. \A i \in 1..Len(on_path') : on_path'[i] \notin finished
    BY <1>1 DEF CycleInv, PathInv
  <2>3. \A i \in 1..Len(on_path') - 1 : on_path'[i + 1] \in Successors(graph, on_path'[i])
    BY <1>1 DEF CycleInv, PathInv, Top
  <2> QED
    BY <1>1, <2>1, <2>2, <2>3 DEF CycleInv, PathInv
<1>3. TriedInv'
  <2>1. untried' \in [graph.nodes -> SUBSET graph.nodes]
    BY <1>1, NextAreNodes DEF CycleInv, PathInv
  <2>2. untried'[n] = Successors(graph, n) /\ \A i \in 1..last : untried'[on_path[i]] = rest[on_path[i]]
    BY <1>1
  <2>3. \A i \in 1..last : rest[on_path[i]] = IF i = last THEN untried[on_path[i]] \ {n} ELSE untried[on_path[i]]
    <3> SUFFICES ASSUME NEW i \in 1..last
                 PROVE  rest[on_path[i]] = IF i = last THEN untried[on_path[i]] \ {n} ELSE untried[on_path[i]]
      OBVIOUS
    <3>1. on_path # <<>> /\ Top = on_path[last] /\ rest = [untried EXCEPT ![Top] = untried[Top] \ {n}]
      BY <1>1 DEF Top
    <3>2. on_path[i] \in graph.nodes /\ (on_path[i] = Top <=> i = last)
      BY <1>1, <3>1 DEF CycleInv, PathInv
    <3> QED
      BY <3>1, <3>2 DEF CycleInv, TriedInv
  <2>4. \A i \in 1..last + 1 : untried'[on_path'[i]] \subseteq Successors(graph, on_path'[i])
    BY <1>1, <2>2, <2>3 DEF CycleInv, TriedInv
  <2>5. ASSUME NEW i \in 1..last + 1, NEW m \in Successors(graph, on_path'[i]) \ untried'[on_path'[i]]
        PROVE  m \in finished \/ (i < last + 1 /\ m = on_path'[i + 1])
    <3>1. CASE i = last + 1
      BY <3>1, <1>1, <2>2, <2>5
    <3>2. CASE i = last
      <4>1. last \in 1..last /\ on_path'[i] = on_path[i] /\ on_path'[i + 1] = n
        BY <3>2, <1>1, <2>5
      <4>2. m \in Successors(graph, on_path[last]) /\ m \notin untried[on_path[last]] \ {n}
        BY <3>2, <4>1, <2>2, <2>3, <2>5
      <4>3. m # n => m \in finished
        BY <4>1, <4>2, <1>1 DEF CycleInv, TriedInv
      <4> QED
        BY <3>2, <4>1, <4>3, <1>1
    <3>3. CASE i < last
      <4>1. i \in 1..last /\ i + 1 \in 1..last /\ on_path'[i] = on_path[i] /\ on_path'[i + 1] = on_path[i + 1]
        BY <3>3, <1>1, <2>5
      <4>2. m \in Successors(graph, on_path[i]) /\ m \notin untried[on_path[i]]
        BY <3>3, <4>1, <1>1, <2>2, <2>3, <2>5
      <4> QED
        BY <3>3, <4>1, <4>2, <1>1 DEF CycleInv, TriedInv
    <3> QED
      BY <3>1, <3>2, <3>3, <1>1
  <2> QED
    BY <1>1, <2>1, <2>4, <2>5 DEF TriedInv
<1>4. FinishedInv'
  BY <1>1 DEF CycleInv, FinishedInv, NoCycleIn, Acyclic
<1> QED
  BY <1>2, <1>3, <1>4 DEF CycleInv

\* An edge back to a node on the path: the nodes from there on each have an edge to one of them.
LEMMA BackEdgeIsCycle ==
  ASSUME PathInv, on_path # <<>>, NEW n \in Successors(graph, Top), OnPath(n)
  PROVE  ~Acyclic(graph)
<1>1. PICK k \in 1..Len(on_path) : on_path[k] = n
  BY DEF OnPath
<1> DEFINE S == {on_path[j] : j \in k..Len(on_path)}
<1>2. Len(on_path) \in Nat /\ S \in SUBSET graph.nodes /\ n \in S
  BY <1>1 DEF PathInv
<1>3. ASSUME NEW m \in S
      PROVE  Successors(graph, m) \cap S # {}
  <2>1. PICK j \in k..Len(on_path) : m = on_path[j]
    OBVIOUS
  <2>2. CASE j = Len(on_path)
    BY <2>1, <2>2, <1>2 DEF Top
  <2>3. CASE j # Len(on_path)
    <3>1. j \in 1..Len(on_path) - 1 /\ j + 1 \in k..Len(on_path)
      BY <2>3, <1>1, <1>2
    <3>2. on_path[j + 1] \in Successors(graph, m) /\ on_path[j + 1] \in S
      BY <3>1, <2>1 DEF PathInv
    <3> QED
      BY <3>2
  <2> QED
    BY <2>2, <2>3
<1> QED
  BY <1>2, <1>3 DEF Acyclic

\* A path without its last node.
LEMMA FrontOf ==
  ASSUME NEW S, NEW s \in Seq(S), Len(s) # 0
  PROVE  /\ SubSeq(s, 1, Len(s) - 1) \in Seq(S)
         /\ Len(SubSeq(s, 1, Len(s) - 1)) = Len(s) - 1
         /\ \A i \in 1..Len(s) - 1 : SubSeq(s, 1, Len(s) - 1)[i] = s[i]
<1> DEFINE k == Len(s) - 1
<1>1. k \in Nat /\ k <= Len(s)
  OBVIOUS
<1> HIDE DEF k
<1>2. SubSeq(s, 1, k) \in Seq(S)
  BY <1>1
<1>3. Len(SubSeq(s, 1, k)) = k
  BY <1>1
<1>4. \A i \in 1..k : SubSeq(s, 1, k)[i] = s[i]
  BY <1>1
<1> QED
  BY <1>2, <1>3, <1>4 DEF k

LEMMA LeaveKeeps ==
  ASSUME CycleInv, LeaveNode
  PROVE  CycleInv'
<1> DEFINE last == Len(on_path)
           top  == on_path[last]
<1>1. /\ pc = "cycle" /\ UNCHANGED <<graph, pc, seen, frontier, untried>>
      /\ on_path' = SubSeq(on_path, 1, last - 1) /\ finished' = finished \cup {top}
      /\ on_path # <<>> /\ untried[top] = {}
  BY DEF LeaveNode, Top
<1>2. last \in Nat \ {0} /\ on_path \in Seq(graph.nodes) /\ top \in graph.nodes /\ top \notin finished
  BY <1>1 DEF CycleInv, PathInv
<1>3. /\ on_path' \in Seq(graph.nodes) /\ Len(on_path') = last - 1
      /\ \A i \in 1..last - 1 : on_path'[i] = on_path[i]
  BY <1>1, <1>2, FrontOf
<1>4. Successors(graph, top) \subseteq finished
  BY <1>1, <1>2 DEF CycleInv, TriedInv
<1>5. PathInv'
  BY <1>1, <1>2, <1>3 DEF CycleInv, PathInv
<1>6. TriedInv'
  <2>1. ASSUME NEW i \in 1..last - 1, NEW m \in Successors(graph, on_path[i]) \ untried[on_path[i]]
        PROVE  m \in finished' \/ (i < last - 1 /\ m = on_path'[i + 1])
    BY <2>1, <1>1, <1>2, <1>3 DEF CycleInv, TriedInv
  <2> QED
    BY <2>1, <1>1, <1>2, <1>3 DEF CycleInv, TriedInv
<1>7. FinishedInv'
  <2>1. \A m \in finished' : Successors(graph, m) \subseteq finished'
    BY <1>1, <1>4 DEF CycleInv, FinishedInv
  <2>2. ASSUME NEW T \in SUBSET finished', T # {}
        PROVE  \E m \in T : Successors(graph, m) \cap T = {}
    <3>1. CASE T \ {top} = {}
      BY <3>1, <2>2, <1>1, <1>2, <1>4
    <3>2. CASE T \ {top} # {}
      <4>1. PICK m \in T \ {top} : Successors(graph, m) \cap (T \ {top}) = {}
        BY <3>2, <2>2, <1>1 DEF CycleInv, FinishedInv, NoCycleIn
      <4>2. Successors(graph, m) \subseteq finished
        BY <4>1, <2>2, <1>1 DEF CycleInv, FinishedInv
      <4> QED
        BY <4>1, <4>2, <1>2
    <3> QED
      BY <3>1, <3>2
  <2> QED
    BY <2>1, <2>2, <1>1 DEF FinishedInv, NoCycleIn
<1> QED
  BY <1>5, <1>6, <1>7 DEF CycleInv

\* An edge to a finished node only takes the edge off the list.
LEMMA SkipKeeps ==
  ASSUME CycleInv, pc = "cycle", on_path # <<>>, NEW n \in finished,
         untried' = [untried EXCEPT ![Top] = @ \ {n}],
         UNCHANGED <<graph, pc, seen, frontier, on_path, finished>>
  PROVE  CycleInv'
<1>1. Len(on_path) \in Nat \ {0} /\ \A i \in 1..Len(on_path) : on_path[i] \in graph.nodes
  BY DEF CycleInv, PathInv
<1>2. \A i \in 1..Len(on_path) :
          untried'[on_path[i]] = IF on_path[i] = Top THEN untried[on_path[i]] \ {n} ELSE untried[on_path[i]]
  BY <1>1 DEF CycleInv, TriedInv
<1>3. TriedInv'
  <2>1. untried' \in [graph.nodes -> SUBSET graph.nodes]
    BY <1>1 DEF CycleInv, TriedInv
  <2>2. \A i \in 1..Len(on_path) : untried'[on_path[i]] \subseteq Successors(graph, on_path[i])
    BY <1>2 DEF CycleInv, TriedInv
  <2>3. ASSUME NEW i \in 1..Len(on_path), NEW m \in Successors(graph, on_path[i]) \ untried'[on_path[i]]
        PROVE  m \in finished \/ (i < Len(on_path) /\ m = on_path[i + 1])
    <3>1. m \in finished \/ m \notin untried[on_path[i]]
      BY <1>2, <2>3
    <3> QED
      BY <3>1, <2>3 DEF CycleInv, TriedInv
  <2> QED
    BY <2>1, <2>2, <2>3 DEF TriedInv
<1> QED
  BY <1>3 DEF CycleInv, PathInv, FinishedInv, NoCycleIn, Acyclic

LEMMA CycleStep ==
  ASSUME CycleInv, ReachInv, [Step \/ Answered]_vars
  PROVE  CycleInv'
<1> pc = "cycle" => Rules(graph)
  BY DEF ReachInv, Checked, Searching
<1>1. CASE CheckRules \/ Expand \/ Reached \/ Accept
  <2>1. /\ UNCHANGED <<graph, on_path, finished, untried>>
        /\ pc # "cyclic" /\ pc' # "cyclic"
        /\ pc' \in {"rules", "reach"} => pc \in {"rules", "reach"}
        /\ pc' = "accepted" => graph.nodes \subseteq finished
    BY <1>1 DEF CheckRules, Expand, Reached, Accept, search
  <2> QED
    BY <2>1 DEF CycleInv, PathInv, TriedInv, FinishedInv, NoCycleIn
<1>2. CASE VisitRoot
  <2>1. PICK n \in graph.nodes \ finished : Visit(n, untried)
    BY <1>2 DEF VisitRoot
  <2>2. pc = "cycle" /\ on_path = <<>> /\ UNCHANGED <<graph, seen, frontier>> /\ ~OnPath(n)
    BY <1>2 DEF VisitRoot, OnPath
  <2>3. Enter(n, untried)
    BY <2>1, <2>2 DEF Visit
  <2> QED
    BY <2>1, <2>2, <2>3, EnterKeeps DEF CycleInv, TriedInv
<1>3. CASE VisitSuccessor
  <2> DEFINE rest(n) == [untried EXCEPT ![Top] = @ \ {n}]
  <2>1. PICK n \in untried[Top] : Visit(n, rest(n))
    BY <1>3 DEF VisitSuccessor
  <2>2. pc = "cycle" /\ on_path # <<>> /\ UNCHANGED <<graph, seen, frontier>>
    BY <1>3 DEF VisitSuccessor
  <2>3. /\ Len(on_path) \in Nat \ {0} /\ Top \in graph.nodes
        /\ n \in Successors(graph, Top) /\ n \in graph.nodes
        /\ rest(n) \in [graph.nodes -> SUBSET graph.nodes]
    BY <2>1, <2>2, NextAreNodes DEF CycleInv, PathInv, TriedInv, Top
  <2>4. CASE OnPath(n) /\ pc' = "cyclic" /\ untried' = rest(n) /\ UNCHANGED <<on_path, finished>>
    <3>1. ~Acyclic(graph)
      BY <2>2, <2>3, <2>4, BackEdgeIsCycle DEF CycleInv
    <3>2. untried' \in [graph.nodes -> SUBSET graph.nodes] /\ \A m \in graph.nodes : untried'[m] \subseteq untried[m]
      BY <2>3, <2>4 DEF CycleInv, TriedInv
    <3>3. TriedInv'
      BY <2>2, <2>4, <3>2 DEF CycleInv, PathInv, TriedInv
    <3>4. PathInv' /\ FinishedInv'
      BY <2>2, <2>4, <3>1 DEF CycleInv, PathInv, FinishedInv, NoCycleIn, Acyclic
    <3> QED
      BY <3>3, <3>4 DEF CycleInv
  <2>5. CASE ~OnPath(n) /\ n \in finished /\ untried' = rest(n) /\ UNCHANGED <<pc, on_path, finished>>
    BY <2>2, <2>5, SkipKeeps
  <2>6. CASE ~OnPath(n) /\ n \notin finished /\ Enter(n, rest(n))
    BY <2>2, <2>3, <2>6, EnterKeeps
  <2> QED
    BY <2>1, <2>4, <2>5, <2>6 DEF Visit
<1>4. CASE LeaveNode
  BY <1>4, LeaveKeeps
<1>5. CASE Answered \/ UNCHANGED vars
  BY <1>5 DEF Answered, vars, CycleInv, PathInv, TriedInv, FinishedInv, NoCycleIn
<1> QED
  BY <1>1, <1>2, <1>3, <1>4, <1>5 DEF Step

-----------------------------------------------------------------------------
(* The edge of the least priority.                                         *)

LEMMA LeastNat ==
  ASSUME NEW T \in SUBSET Nat, T # {}
  PROVE  \E x \in T : \A y \in T : x <= y
<1> DEFINE R == OpToRel(<, Nat)
<1>1. IsWellFoundedOn(R, Nat)
  BY NatLessThanWellFounded
<1>2. \A x, y \in Nat : x < y => <<x, y>> \in R
  BY DEF OpToRel
<1> HIDE DEF R
<1>3. PICK x \in T : \A y \in T : ~ (<<y, x>> \in R)
  BY <1>1, WFMin
<1>4. \A y \in T : ~(y < x)
  BY <1>2, <1>3, Zenon
<1> QED
  BY <1>4

\* By the least number of edges that have none: without one of them they have one.
LEMMA FirstEdge ==
  ASSUME NEW H, IsFiniteSet(H), H # {}, \A e \in H : e.priority \in Int
  PROVE  \E e \in H : \A f \in H : e.priority <= f.priority
<1> DEFINE Headless(S) == S # {} /\ ~ \E e \in S : \A f \in S : e.priority <= f.priority
           sizes == {Cardinality(S) : S \in {S \in SUBSET H : Headless(S)}}
<1> SUFFICES ASSUME Headless(H)
             PROVE  FALSE
  OBVIOUS
<1>1. \A S \in SUBSET H : IsFiniteSet(S) /\ Cardinality(S) \in Nat
  BY FS_Subset, FS_CardinalityType
<1>2. sizes \in SUBSET Nat /\ sizes # {}
  BY <1>1
<1>3. PICK k \in sizes : \A j \in sizes : k <= j
  BY <1>2, LeastNat
<1>4. PICK S \in SUBSET H : Headless(S) /\ Cardinality(S) = k
  BY <1>3
<1>5. PICK e \in S : TRUE
  BY <1>4
<1>6. S \ {e} \in SUBSET H /\ Cardinality(S \ {e}) = k - 1 /\ k \in Nat
  BY <1>1, <1>4, <1>5, FS_RemoveElement
<1>7. ~Headless(S \ {e})
  <2>1. ASSUME Headless(S \ {e})
        PROVE  FALSE
    <3>1. Cardinality(S \ {e}) \in sizes
      BY <1>6, <2>1
    <3> HIDE DEF sizes
    <3>2. k <= Cardinality(S \ {e})
      BY <1>3, <3>1
    <3> QED
      BY <1>6, <3>2
  <2> QED
    BY <2>1
<1>8. \A f \in S : f.priority \in Int
  OBVIOUS
<1>9. \A x \in S : \E f \in S : f.priority < x.priority
  <2> TAKE x \in S
  <2>1. PICK f \in S : ~(x.priority <= f.priority)
    BY <1>4
  <2>2. x.priority \in Int /\ f.priority \in Int
    BY <1>8
  <2> QED
    BY <2>1, <2>2
<1>10. PICK f \in S : f.priority < e.priority
  BY <1>5, <1>9
<1>11. f \in S \ {e}
  BY <1>8, <1>10
<1>12. PICK g \in S \ {e} : \A h \in S \ {e} : g.priority <= h.priority
  BY <1>7, <1>11
<1>13. PICK h \in S : h.priority < g.priority
  BY <1>9, <1>12
<1>14. h = e
  BY <1>8, <1>12, <1>13
<1> QED
  BY <1>8, <1>10, <1>11, <1>12, <1>13, <1>14

-----------------------------------------------------------------------------
(* The ranks of an accepted graph.                                         *)

\* Ranks of the nodes of S, below their number, that rise along every edge inside S.
RanksOf(g, S, r) ==
    /\ r \in [S -> Nat] /\ \A n \in S : r[n] < Cardinality(S)
    /\ \A n \in S : \A m \in Successors(g, n) \cap S : r[n] < r[m]

\* By the smallest set that has none: a node from which no edge stays in it is ranked behind all the others.
LEMMA RanksExist ==
  ASSUME NEW g, IsFiniteSet(g.nodes), Acyclic(g)
  PROVE  \E r : RanksOf(g, g.nodes, r)
<1> DEFINE Rankless(S) == ~ \E r : RanksOf(g, S, r)
           sizes == {Cardinality(S) : S \in {S \in SUBSET g.nodes : Rankless(S)}}
<1> SUFFICES ASSUME Rankless(g.nodes)
             PROVE  FALSE
  OBVIOUS
<1> HIDE DEF Rankless
<1>1. \A S \in SUBSET g.nodes : IsFiniteSet(S) /\ Cardinality(S) \in Nat
  BY FS_Subset, FS_CardinalityType
<1>2. sizes \in SUBSET Nat /\ sizes # {}
  BY <1>1
<1>3. PICK k \in sizes : \A j \in sizes : k <= j
  BY <1>2, LeastNat
<1>4. PICK S \in SUBSET g.nodes : Rankless(S) /\ Cardinality(S) = k
  BY <1>3
<1>5. S # {}
  <2>1. RanksOf(g, {}, [n \in {} |-> 0])
    BY DEF RanksOf
  <2> QED
    BY <1>4, <2>1 DEF Rankless
<1>6. PICK last \in S : Successors(g, last) \cap S = {}
  BY <1>5 DEF Acyclic
<1> DEFINE rest == S \ {last}
<1>7. rest \in SUBSET g.nodes /\ Cardinality(rest) = k - 1 /\ k \in Nat /\ k - 1 \in Nat
  BY <1>1, <1>4, <1>6, FS_RemoveElement
<1>8. ~Rankless(rest)
  <2>1. ASSUME Rankless(rest)
        PROVE  FALSE
    <3>1. Cardinality(rest) \in sizes
      BY <1>7, <2>1
    <3> HIDE DEF sizes
    <3>2. k <= Cardinality(rest)
      BY <1>3, <3>1
    <3> QED
      BY <1>7, <3>2
  <2> QED
    BY <2>1
<1>9. PICK q : RanksOf(g, rest, q)
  BY <1>8 DEF Rankless
<1> DEFINE r == [n \in S |-> IF n = last THEN k - 1 ELSE q[n]]
<1>10. /\ r \in [S -> Nat] /\ r[last] = k - 1
       /\ \A n \in rest : r[n] = q[n] /\ q[n] \in Nat /\ q[n] < k - 1
  BY <1>6, <1>7, <1>9 DEF RanksOf
<1> HIDE DEF r
<1>11. \A n \in S : r[n] < k
  BY <1>7, <1>10
<1>12. ASSUME NEW n \in S, NEW m \in Successors(g, n) \cap S
       PROVE  r[n] < r[m]
  <2>1. n # last /\ n \in rest
    BY <1>6, <1>12
  <2>2. CASE m = last
    BY <1>10, <2>1, <2>2
  <2>3. CASE m # last
    BY <1>9, <1>10, <1>12, <2>1, <2>3 DEF RanksOf
  <2> QED
    BY <2>2, <2>3
<1>13. RanksOf(g, S, r)
  BY <1>4, <1>10, <1>11, <1>12 DEF RanksOf
<1> QED
  BY <1>4, <1>13 DEF Rankless

-----------------------------------------------------------------------------
(* The edge choose_edge takes.                                             *)

\* The rules on edges make the choice of choose_edge a function of the parameters.
LEMMA ChoiceIsOne ==
  ASSUME NEW g, Rules(g), IsFiniteSet(g.edges), NEW params
  PROVE  \A n \in g.nodes : LET taken == Taken(g, n, params) IN
             /\ \A e, f \in taken : e = f
             /\ (\E e \in Holding(g, n, params) : ~e.always) => \A e \in taken : ~e.always
             /\ (\E e \in Outgoing(g, n) : e.always) => taken # {}
<1> TAKE n \in g.nodes
<1> DEFINE holding == Holding(g, n, params)
           taken   == Taken(g, n, params)
<1>1. Outgoing(g, n) \subseteq g.edges /\ holding \subseteq Outgoing(g, n)
  BY DEF Outgoing, Holding
<1>2. \A e \in Outgoing(g, n) : e.priority \in Int /\ (e.always => e.guards = {}) /\ e.source = n
  BY DEF Outgoing, Rules, EdgeRules, EdgeRule
<1>3. \A e, f \in taken : e = f
  BY <1>1, <1>2 DEF Taken, Rules, EdgeRules
<1>4. ASSUME NEW h \in holding, ~h.always, NEW e \in taken, e.always
      PROVE  FALSE
  <2>1. e \in Outgoing(g, n) /\ h \in Outgoing(g, n) /\ e # h /\ e.priority <= h.priority
    BY <1>1, <1>4 DEF Taken
  <2>2. h.priority < e.priority
    BY <2>1, <1>4 DEF Rules, EdgeRules, FallbackRule
  <2> QED
    BY <2>1, <2>2, <1>2
<1>5. ASSUME NEW e \in Outgoing(g, n), e.always
      PROVE  taken # {}
  <2>1. e \in holding
    BY <1>2, <1>5 DEF Holding, Holds
  <2>2. IsFiniteSet(holding)
    BY <1>1, FS_Subset
  <2>3. \E f \in holding : \A h \in holding : f.priority <= h.priority
    BY <1>1, <1>2, <2>1, <2>2, FirstEdge
  <2> QED
    BY <2>3 DEF Taken
<1> QED
  BY <1>3, <1>4, <1>5

-----------------------------------------------------------------------------

\* validate: whatever graph is submitted, what is accepted has no cycle and no node that cannot be reached.
THEOREM AcceptedHasNoCycle == Spec => []AcceptedIsSound
<1>1. ReachInv /\ CycleInv => AcceptedIsSound
  BY DEF ReachInv, CycleInv, FinishedInv, NoCycleIn, Searching, AcceptedIsSound, Acyclic, AllReachable
<1> QED
  BY <1>1, ReachInit, ReachStep, CycleInit, CycleStep, PTL DEF Spec

\* _validate_reachable and _validate_acyclic: a refused graph has the fault it is refused for.
THEOREM RefusalsAreJust == Spec => []RefusedForCause
<1>1. ReachInv /\ CycleInv => RefusedForCause
  <2>1. ASSUME ReachInv, pc = "unreachable"
        PROVE  ~AllReachable(graph)
    <3>1. Closed(graph, seen)
      BY <2>1 DEF ReachInv, Closed, Checked
    <3> QED
      BY <3>1, <2>1 DEF ReachInv, AllReachable
  <2> QED
    BY <2>1 DEF CycleInv, FinishedInv, RefusedForCause
<1> QED
  BY <1>1, ReachInit, ReachStep, CycleInit, CycleStep, PTL DEF Spec

\* _validate_edges: on an accepted graph the parameters leave one edge at most, and no fallback hides a guarded edge.
THEOREM ChoiceIsDetermined == Spec => []ChoicesAreSound
<1>1. ReachInv => ChoicesAreSound
  <2> SUFFICES ASSUME ReachInv, pc = "accepted", NEW params \in Params
               PROVE  ChoiceIsSound(params)
    BY DEF ChoicesAreSound
  <2>1. Rules(graph) /\ IsFiniteSet(graph.edges)
    BY GraphsAssumption DEF ReachInv, Checked, Searching, GraphsAssumption
  <2> QED
    BY <2>1, ChoiceIsOne DEF ChoiceIsSound
<1> QED
  BY <1>1, ReachInit, ReachStep, PTL DEF Spec

\* What module Replay assumes of a graph.
Replayable(g) ==
    /\ g.entry \in g.nodes
    /\ \A n \in g.nodes :
           /\ Successors(g, n) \subseteq g.nodes
           /\ g.kind[n] = "terminal" <=> Successors(g, n) = {}
           /\ g.kind[n] = "action" /\ g.effect[n] \in NO_AUTOMATIC_RETRY => g.retry_safety[n] = "never_retry"
    /\ \E rank \in [g.nodes -> Nat] : \A n \in g.nodes : \A m \in Successors(g, n) : rank[n] < rank[m]

LEMMA KindsAreRight ==
  ASSUME NEW g, Rules(g), NEW n \in g.nodes
  PROVE  /\ Successors(g, n) \subseteq g.nodes
         /\ g.kind[n] = "terminal" <=> Successors(g, n) = {}
         /\ g.kind[n] = "action" /\ g.effect[n] \in NO_AUTOMATIC_RETRY => g.retry_safety[n] = "never_retry"
<1>1. Successors(g, n) \subseteq g.nodes
  BY NextAreNodes
<1>2. g.kind[n] = "terminal" => Outgoing(g, n) = {}
  BY DEF Outgoing, Rules, EdgeRules, EdgeRule
<1>3. g.kind[n] # "terminal" => Outgoing(g, n) # {}
  BY DEF Rules, EdgeRules
<1>4. g.kind[n] = "action" => ActionRule(g, n)
  BY DEF Rules, NodeRules
<1> QED
  BY <1>1, <1>2, <1>3, <1>4 DEF Successors, ActionRule

\* validate: whatever it accepts, replay may assume of it what GraphAssumption of module Replay says; the rank along
\* which the walk goes, on which the theorems about replay rest, exists for every accepted graph.
THEOREM AcceptedIsReplayable == Spec => [](pc = "accepted" => Replayable(graph))
<1> DEFINE Sound == pc = "accepted" => Replayable(graph)
<1>1. ReachInv /\ CycleInv => Sound
  <2> SUFFICES ASSUME ReachInv, CycleInv, pc = "accepted"
               PROVE  Replayable(graph)
    OBVIOUS
  <2>1. Rules(graph) /\ IsFiniteSet(graph.nodes)
    BY GraphsAssumption DEF ReachInv, Checked, Searching, GraphsAssumption
  <2>2. Acyclic(graph)
    BY DEF CycleInv, FinishedInv, NoCycleIn, Acyclic
  <2>3. PICK r : RanksOf(graph, graph.nodes, r)
    BY <2>1, <2>2, RanksExist
  <2>4. graph.entry \in graph.nodes
    BY <2>1 DEF Rules, EntryRule
  <2>5. \A n \in graph.nodes : \A m \in Successors(graph, n) : r[n] < r[m]
    BY <2>1, <2>3, KindsAreRight DEF RanksOf
  <2>6. r \in [graph.nodes -> Nat]
    BY <2>3 DEF RanksOf
  <2> QED
    BY <2>1, <2>4, <2>5, <2>6, KindsAreRight DEF Replayable
<1> QED
  BY <1>1, ReachInit, ReachStep, CycleInit, CycleStep, PTL DEF Spec
=============================================================================
