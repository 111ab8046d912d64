---------------------------- MODULE MergeProofs ----------------------------
(***************************************************************************)
(* Theorems about Merge, for every campaign, every recorded trace and      *)
(* every caller: the walk through the merged graph implements              *)
(* DeclaredPaths, the gate is what was declared, and `validate` accepts    *)
(* the graph of traces that agree.                                         *)
(***************************************************************************)
EXTENDS Merge, SequenceTheorems, FiniteSetTheorems, WellFoundedInduction, TLAPS

LEMMA Least ==
  ASSUME NEW T \in SUBSET Nat, T # {}
  PROVE  \E x \in T : \A y \in T : x <= y
<1> DEFINE R == OpToRel(<, Nat)
<1>1. IsWellFoundedOn(R, Nat)
  BY NatLessThanWellFounded
<1>2. \A x, y \in Nat : x < y => <<x, y>> \in R
  BY DEF OpToRel
<1> HIDE DEF R
<1>3. PICK x \in T : \A y \in T : ~ (<<y, x>> \in R)
  BY <1>1, WFMin
<1>4. x \in Nat
  OBVIOUS
<1>5. \A y \in T : ~(y < x)
  BY <1>2, <1>3, <1>4, Zenon
<1> QED
  BY <1>4, <1>5

LEMMA FirstOf ==
  ASSUME NEW S \in SUBSET Scenarios, S # {}
  PROVE  First(S) \in S
  BY CampaignAssumption, Least DEF CampaignAssumption, First

-----------------------------------------------------------------------------
(* Prefixes.                                                               *)

LEMMA PrefixOf ==
  ASSUME NEW S, NEW s \in Seq(S), NEW k \in Nat, k <= Len(s)
  PROVE  /\ Prefix(s, k) \in Seq(S) /\ Len(Prefix(s, k)) = k
         /\ \A n \in 1..k : Prefix(s, k)[n] = s[n]
<1>1. SubSeq(s, 1, k) \in Seq(S)
  OBVIOUS
<1>2. Len(SubSeq(s, 1, k)) = k
  OBVIOUS
<1>3. \A n \in 1..k : SubSeq(s, 1, k)[n] = s[n]
  OBVIOUS
<1> QED
  BY <1>1, <1>2, <1>3 DEF Prefix

\* A longer prefix, cut off, is the shorter one; the whole sequence is its longest prefix.
LEMMA PrefixOfPrefix ==
  ASSUME NEW S, NEW s \in Seq(S), NEW k \in Nat, NEW m \in Nat, k <= m, m <= Len(s)
  PROVE  Prefix(Prefix(s, m), k) = Prefix(s, k)
<1>1. /\ Prefix(s, m) \in Seq(S) /\ Len(Prefix(s, m)) = m
      /\ \A n \in 1..m : Prefix(s, m)[n] = s[n]
  BY PrefixOf
<1>2. /\ Prefix(s, k) \in Seq(S) /\ Len(Prefix(s, k)) = k
      /\ \A n \in 1..k : Prefix(s, k)[n] = s[n]
  BY PrefixOf
<1>3. /\ Prefix(Prefix(s, m), k) \in Seq(S) /\ Len(Prefix(Prefix(s, m), k)) = k
      /\ \A n \in 1..k : Prefix(Prefix(s, m), k)[n] = Prefix(s, m)[n]
  BY <1>1, PrefixOf
<1> QED
  BY <1>1, <1>2, <1>3, SeqEqual

LEMMA WholePrefix ==
  ASSUME NEW S, NEW s \in Seq(S)
  PROVE  Prefix(s, Len(s)) = s
<1>1. /\ Prefix(s, Len(s)) \in Seq(S) /\ Len(Prefix(s, Len(s))) = Len(s)
      /\ \A n \in 1..Len(s) : Prefix(s, Len(s))[n] = s[n]
  BY PrefixOf
<1> QED
  BY <1>1, SeqEqual

\* A prefix and the element after it.
LEMMA PrefixAppend ==
  ASSUME NEW S, NEW s \in Seq(S), NEW k \in Nat, k < Len(s)
  PROVE  Append(Prefix(s, k), s[k + 1]) = Prefix(s, k + 1)
<1>1. /\ Prefix(s, k) \in Seq(S) /\ Len(Prefix(s, k)) = k
      /\ \A n \in 1..k : Prefix(s, k)[n] = s[n]
  BY PrefixOf
<1>2. /\ Prefix(s, k + 1) \in Seq(S) /\ Len(Prefix(s, k + 1)) = k + 1
      /\ \A n \in 1..k + 1 : Prefix(s, k + 1)[n] = s[n]
  BY PrefixOf
<1>3. s[k + 1] \in S
  OBVIOUS
<1>4. /\ Append(Prefix(s, k), s[k + 1]) \in Seq(S) /\ Len(Append(Prefix(s, k), s[k + 1])) = k + 1
      /\ \A n \in 1..k + 1 : Append(Prefix(s, k), s[k + 1])[n] = IF n = k + 1 THEN s[k + 1] ELSE Prefix(s, k)[n]
  BY <1>1, <1>3, AppendProperties
<1>5. \A n \in 1..k + 1 : Append(Prefix(s, k), s[k + 1])[n] = Prefix(s, k + 1)[n]
  <2> TAKE n \in 1..k + 1
  <2>1. n = k + 1 \/ n \in 1..k
    OBVIOUS
  <2> QED
    BY <1>1, <1>2, <1>4, <2>1
<1> QED
  BY <1>2, <1>4, <1>5, SeqEqual

-----------------------------------------------------------------------------
(* The tree of recorded traces.                                            *)

Recorded_ == traces \in [Scenarios -> Recorded]

LEMMA PathType ==
  ASSUME Recorded_, NEW i \in Scenarios
  PROVE  /\ Path(i) \in Seq(ActionNodes) /\ Path(i) # <<>> /\ Len(Path(i)) \in Nat /\ Keys(i) = Path(i)
         /\ traces[i].inputs \subseteq Inputs
<1>1. Path(i) \in Seq(ActionNodes) /\ Path(i) # <<>> /\ traces[i].inputs \subseteq Inputs
  BY TraceAssumption DEF TraceAssumption, Recorded_, Path
<1>2. Keys(i) = [n \in 1..Len(Path(i)) |-> Path(i)[n]]
  BY DEF Keys, node_key
<1> QED
  BY <1>1, <1>2

LEMMA TreeType ==
  ASSUME Recorded_, NEW t \in Tree
  PROVE  t \in Seq(ActionNodes) /\ Len(t) \in Nat
<1>1. PICK i \in Scenarios : \E n \in 0..Len(Path(i)) : t = Prefix(Keys(i), n)
  BY DEF Tree
<1>2. PICK n \in 0..Len(Path(i)) : t = Prefix(Keys(i), n)
  BY <1>1
<1>3. Path(i) \in Seq(ActionNodes) /\ Keys(i) = Path(i) /\ n \in Nat /\ n <= Len(Path(i))
  BY PathType
<1> QED
  BY <1>2, <1>3, PrefixOf

LEMMA ThroughMeans ==
  ASSUME Recorded_, NEW t \in Tree, NEW i \in Through(t)
  PROVE  /\ i \in Scenarios /\ Len(t) <= Len(Path(i)) /\ t = Prefix(Path(i), Len(t))
         /\ \A n \in 1..Len(t) : Path(i)[n] = t[n]
<1>1. i \in Scenarios /\ Len(t) <= Len(Path(i)) /\ Prefix(Keys(i), Len(t)) = t
  BY DEF Through
<1>2. Path(i) \in Seq(ActionNodes) /\ Keys(i) = Path(i)
  BY <1>1, PathType
<1> QED
  BY <1>1, <1>2, TreeType, PrefixOf

\* The root of the tree is the empty path, and every scenario starts there.
LEMMA Root ==
  ASSUME Recorded_
  PROVE  <<>> \in Tree /\ Through(<<>>) = Scenarios
<1>1. \A i \in Scenarios : Path(i) \in Seq(ActionNodes) /\ Keys(i) = Path(i) /\ Len(Path(i)) \in Nat
  BY PathType
<1>2. \A i \in Scenarios : Prefix(Keys(i), 0) = <<>>
  <2> TAKE i \in Scenarios
  <2>1. Prefix(Path(i), 0) \in Seq(ActionNodes) /\ Len(Prefix(Path(i), 0)) = 0
    BY <1>1, PrefixOf
  <2> QED
    BY <1>1, <2>1, EmptySeq
<1>3. PICK i \in Scenarios : TRUE
  BY CampaignAssumption DEF CampaignAssumption
<1>4. <<>> \in Tree
  BY <1>1, <1>2, <1>3 DEF Tree
<1>5. Through(<<>>) = Scenarios
  BY <1>1, <1>2 DEF Through
<1> QED
  BY <1>4, <1>5

\* The node a tree node was created with is the last key of its path.
LEMMA ContentIs ==
  ASSUME Recorded_, NEW t \in Tree, t # <<>>, Through(t) # {}
  PROVE  Content(t) = t[Len(t)]
<1>1. First(Through(t)) \in Through(t)
  BY FirstOf DEF Through
<1>2. Len(t) \in 1..Len(t)
  BY TreeType, EmptySeq
<1> QED
  BY <1>1, <1>2, ThroughMeans DEF Content

-----------------------------------------------------------------------------
(* The branches.                                                           *)

\* Where scenario i can be once t is done: at the next node of its path, or at the end of it.
Leads(n, t, i) ==
    \/ \E u \in Tree : /\ u # <<>> /\ n = Action(u) /\ Prefix(u, Len(u) - 1) = t /\ i \in Through(u)
    \/ n = Success /\ t = Path(i)

LEMMA BranchLeads ==
  ASSUME Recorded_, NEW t \in Tree, NEW b \in Branches(t), NEW i \in b.by
  PROVE  i \in Scenarios /\ Leads(b.to, t, i)
<1>1. CASE \E u \in Children(t) : b = [to |-> Action(u), by |-> Through(u)]
  <2>1. PICK u \in Children(t) : b.to = Action(u) /\ b.by = Through(u)
    BY <1>1
  <2>2. u \in Tree /\ Len(u) = Len(t) + 1 /\ Prefix(u, Len(t)) = t
    BY <2>1 DEF Children
  <2>3. Len(u) - 1 = Len(t) /\ u # <<>>
    BY <2>2, TreeType, EmptySeq
  <2>4. i \in Scenarios
    BY <2>1 DEF Through
  <2> QED
    BY <2>1, <2>2, <2>3, <2>4 DEF Leads
<1>2. CASE b = [to |-> Success, by |-> Ends(t)]
  <2>1. i \in Scenarios /\ Keys(i) = t
    BY <1>2 DEF Ends
  <2> QED
    BY <1>2, <2>1, PathType DEF Leads
<1> QED
  BY <1>1, <1>2 DEF Branches

\* Every scenario through t goes on along one of the branches.
LEMMA OwnBranch ==
  ASSUME Recorded_, NEW t \in Tree, NEW i \in Through(t)
  PROVE  \E b \in Branches(t) : i \in b.by
<1>1. /\ i \in Scenarios /\ Len(t) <= Len(Path(i)) /\ t = Prefix(Path(i), Len(t))
      /\ Path(i) \in Seq(ActionNodes) /\ Len(Path(i)) \in Nat /\ Keys(i) = Path(i) /\ Len(t) \in Nat
  BY ThroughMeans, PathType, TreeType
<1>2. CASE Len(t) = Len(Path(i))
  <2>1. i \in Ends(t)
    BY <1>1, <1>2, WholePrefix DEF Ends
  <2>2. [to |-> Success, by |-> Ends(t)] \in Branches(t)
    BY <2>1 DEF Branches
  <2> QED
    BY <2>1, <2>2
<1>3. CASE Len(t) < Len(Path(i))
  <2> DEFINE u == Prefix(Path(i), Len(t) + 1)
  <2>1. Len(u) = Len(t) + 1 /\ Prefix(u, Len(t)) = t
    BY <1>1, <1>3, PrefixOf, PrefixOfPrefix
  <2>2. Len(t) + 1 \in 0..Len(Path(i))
    BY <1>1, <1>3
  <2>3. u \in Tree
    BY <1>1, <2>2 DEF Tree
  <2>4. u \in Children(t)
    BY <2>1, <2>3 DEF Children
  <2>5. i \in Through(u)
    BY <1>1, <2>1, <2>2 DEF Through
  <2>6. [to |-> Action(u), by |-> Through(u)] \in Branches(t)
    BY <2>4 DEF Branches
  <2> QED
    BY <2>5, <2>6
<1> QED
  BY <1>1, <1>2, <1>3

\* Without a decision there is one branch, and every scenario through t takes it.
LEMMA AfterLeads ==
  ASSUME Recorded_, NEW t \in Tree, NEW i \in Through(t), ~Decides(t)
  PROVE  Leads(After(t), t, i)
<1>1. PICK b \in Branches(t) : i \in b.by
  BY OwnBranch
<1>2. (CHOOSE c \in Branches(t) : TRUE) = b
  BY DEF Decides
<1>3. After(t) = b.to
  BY <1>2 DEF After
<1> QED
  BY <1>1, <1>3, BranchLeads

-----------------------------------------------------------------------------
(* The edges.                                                              *)

LEMMA EdgesOfAction ==
  ASSUME NEW t \in Tree, t # <<>>, NEW c
  PROVE  \A e : e \in Taken(Graph, Action(t), c) <=> e = Always(Action(t), After(t))
<1>1. \A e : e \in Outgoing(Graph, Action(t)) <=> e = Always(Action(t), After(t))
  <2>1. Always(Action(t), After(t)) \in Edges
    BY DEF Edges
  <2>2. \A e \in Edges : e.source = Action(t) => e = Always(Action(t), After(t))
    BY DEF Edges, Always, GuardedEdge, Action, Decision
  <2>3. Graph.edges = Edges
    BY DEF Graph
  <2>4. Always(Action(t), After(t)).source = Action(t)
    BY DEF Always
  <2> QED
    BY <2>1, <2>2, <2>3, <2>4 DEF Outgoing
<1>2. Holds(Always(Action(t), After(t)), c)
  BY DEF Holds, Always
<1>3. Always(Action(t), After(t)).priority = 0
  BY DEF Always
<1>4. \A e : e \in Holding(Graph, Action(t), c) <=> e = Always(Action(t), After(t))
  BY <1>1, <1>2 DEF Holding
<1> QED
  BY <1>3, <1>4 DEF Taken

LEMMA EdgesOfDecision ==
  ASSUME NEW t \in Tree, Decides(t)
  PROVE  \A e : e \in Outgoing(Graph, Decision(t)) <=> \E b \in Branches(t) : \E i \in b.by : e = GuardedEdge(t, b, i)
<1>1. \A b \in Branches(t) : \A i \in b.by : GuardedEdge(t, b, i) \in Edges /\ GuardedEdge(t, b, i).source = Decision(t)
  <2> TAKE b \in Branches(t)
  <2> TAKE i \in b.by
  <2>1. GuardedEdge(t, b, i) \in {GuardedEdge(t, b, j) : j \in b.by}
    OBVIOUS
  <2>2. GuardedEdge(t, b, i) \in UNION {{GuardedEdge(t, d, j) : j \in d.by} : d \in Branches(t)}
    BY <2>1
  <2>3. GuardedEdge(t, b, i) \in Edges
    BY <2>2 DEF Edges
  <2> QED
    BY <2>3 DEF GuardedEdge
<1>2. \A e \in Edges : e.source = Decision(t) => \E b \in Branches(t) : \E i \in b.by : e = GuardedEdge(t, b, i)
  <2> TAKE e \in Edges
  <2> HAVE e.source = Decision(t)
  <2>1. CASE \E u \in Tree : e = Always(Action(u), After(u))
    BY <2>1 DEF Always, Action, Decision
  <2>2. CASE \E u \in Tree : \E b \in Branches(u) : \E i \in b.by : e = GuardedEdge(u, b, i)
    <3>1. PICK u \in Tree : \E b \in Branches(u) : \E i \in b.by : e = GuardedEdge(u, b, i)
      BY <2>2
    <3>2. u = t
      BY <3>1 DEF GuardedEdge, Decision
    <3> QED
      BY <3>1, <3>2
  <2> QED
    BY <2>1, <2>2 DEF Edges
<1>3. Graph.edges = Edges
  BY DEF Graph
<1> QED
  BY <1>1, <1>2, <1>3 DEF Outgoing

\* The guards of an edge hold for the assignment of its scenario and no other.
LEMMA GuardsMean ==
  ASSUME NEW t, NEW b, NEW i \in Scenarios, NEW c \in Assignments
  PROVE  Holds(GuardedEdge(t, b, i), c) <=> Assigned[i] = c
<1>1. Assigned[i] \in Assignments
  BY CampaignAssumption DEF CampaignAssumption
<1>2. Holds(GuardedEdge(t, b, i), c) <=> \A s \in Selectors : s \in DOMAIN c /\ c[s] = Assigned[i][s]
  <2>1. GuardedEdge(t, b, i).guards = guards_for(i)
    BY DEF GuardedEdge
  <2>2. \A s \in Selectors : <<s, Assigned[i][s]>> \in guards_for(i)
    BY DEF guards_for
  <2>3. \A g \in guards_for(i) : \E s \in Selectors : g[1] = s /\ g[2] = Assigned[i][s]
    BY DEF guards_for
  <2> QED
    BY <2>1, <2>2, <2>3 DEF Holds
<1> QED
  BY <1>1, <1>2 DEF Assignments

\* Of the edges that hold, one is tried first.
LEMMA SomeTaken ==
  ASSUME NEW n, NEW c, Holding(Graph, n, c) # {}, \A e \in Holding(Graph, n, c) : e.priority \in Nat
  PROVE  Taken(Graph, n, c) # {}
<1> DEFINE P == {e.priority : e \in Holding(Graph, n, c)}
<1>1. P \in SUBSET Nat /\ P # {}
  OBVIOUS
<1>2. PICK x \in P : \A y \in P : x <= y
  BY <1>1, Least
<1>3. PICK e \in Holding(Graph, n, c) : e.priority = x
  BY <1>2
<1> QED
  BY <1>2, <1>3 DEF Taken

LEMMA TakenAtDecision ==
  ASSUME Recorded_, NEW t \in Tree, Decides(t), NEW c \in Assignments
  PROVE  /\ \A e \in Taken(Graph, Decision(t), c) : \E i \in Scenarios : Assigned[i] = c /\ Leads(e.target, t, i)
         /\ \A i \in Through(t) : Assigned[i] = c => Taken(Graph, Decision(t), c) # {}
<1>1. \A e \in Holding(Graph, Decision(t), c) : \E b \in Branches(t) : \E i \in b.by :
          e = GuardedEdge(t, b, i) /\ i \in Scenarios /\ Leads(b.to, t, i)
  BY EdgesOfDecision, BranchLeads DEF Holding
<1>2. \A e \in Taken(Graph, Decision(t), c) : \E i \in Scenarios : Assigned[i] = c /\ Leads(e.target, t, i)
  <2> TAKE e \in Taken(Graph, Decision(t), c)
  <2>1. e \in Holding(Graph, Decision(t), c) /\ Holds(e, c)
    BY DEF Taken, Holding
  <2>2. PICK b \in Branches(t) : \E i \in b.by : e = GuardedEdge(t, b, i) /\ i \in Scenarios /\ Leads(b.to, t, i)
    BY <1>1, <2>1
  <2>3. PICK i \in b.by : e = GuardedEdge(t, b, i) /\ i \in Scenarios /\ Leads(b.to, t, i)
    BY <2>2
  <2>4. e.target = b.to
    BY <2>3 DEF GuardedEdge
  <2> QED
    BY <2>1, <2>3, <2>4, GuardsMean
<1>3. \A i \in Through(t) : Assigned[i] = c => Taken(Graph, Decision(t), c) # {}
  <2> TAKE i \in Through(t)
  <2> HAVE Assigned[i] = c
  <2>1. PICK b \in Branches(t) : i \in b.by
    BY OwnBranch
  <2>2. GuardedEdge(t, b, i) \in Outgoing(Graph, Decision(t)) /\ Holds(GuardedEdge(t, b, i), c)
    BY <2>1, EdgesOfDecision, BranchLeads, GuardsMean
  <2>3. GuardedEdge(t, b, i) \in Holding(Graph, Decision(t), c)
    BY <2>2 DEF Holding
  <2>4. \A e \in Holding(Graph, Decision(t), c) : e.priority \in Nat
    <3> TAKE e \in Holding(Graph, Decision(t), c)
    <3>1. PICK d \in Branches(t) : \E j \in d.by : e = GuardedEdge(t, d, j) /\ j \in Scenarios
      BY <1>1
    <3>2. PICK j \in d.by : e = GuardedEdge(t, d, j) /\ j \in Scenarios
      BY <3>1
    <3>3. e.priority = j
      BY <3>2 DEF GuardedEdge
    <3> QED
      BY <3>2, <3>3, CampaignAssumption DEF CampaignAssumption
  <2> QED
    BY <2>3, <2>4, SomeTaken
<1> QED
  BY <1>2, <1>3

-----------------------------------------------------------------------------
(* The inputs.                                                             *)

LEMMA ClauseMeans ==
  ASSUME NEW i \in Scenarios, call \in Calls
  PROVE  Satisfied(guards_for(i)) <=> Assigned[i] = call.assignment
<1>1. Assigned[i] \in Assignments /\ call.assignment \in Assignments
  BY CampaignAssumption DEF CampaignAssumption, Calls
<1>2. \A s \in Selectors : <<s, Assigned[i][s]>> \in guards_for(i)
  BY DEF guards_for
<1>3. \A g \in guards_for(i) : \E s \in Selectors : g[1] = s /\ g[2] = Assigned[i][s]
  BY DEF guards_for
<1>4. Satisfied(guards_for(i)) <=> \A s \in Selectors : call.assignment[s] = Assigned[i][s]
  BY <1>2, <1>3 DEF Satisfied
<1> QED
  BY <1>1, <1>4 DEF Assignments

\* What the merged inputs ask of a caller who means scenario i are the inputs of i.
LEMMA MissingMeans ==
  ASSUME Recorded_, call \in Calls, graph = Graph
  PROVE  /\ missing_inputs = {} =>
              \A i \in Scenarios : Assigned[i] = call.assignment => traces[i].inputs \subseteq call.inputs
         /\ missing_inputs # {} =>
              \A i \in Scenarios : Assigned[i] = call.assignment => ~(traces[i].inputs \subseteq call.inputs)
<1> DEFINE All == UNION {traces[i].inputs : i \in Scenarios}
<1> DEFINE M == merge_inputs
<1>1. graph.inputs = M
  BY DEF Graph
<1>2. DOMAIN M = Selectors \cup All
  BY DEF merge_inputs
<1>3. \A i \in Scenarios : \A x \in traces[i].inputs : x \in All /\ x \notin Selectors /\ i \in UsersOf(x)
  BY PathType, CampaignAssumption DEF CampaignAssumption, UsersOf
<1>4. \A x \in All \ Selectors : UsersOf(x) = Scenarios => M[x].required
  BY DEF merge_inputs
<1>5. \A x \in All \ Selectors : UsersOf(x) # Scenarios =>
          ~M[x].required /\ M[x].required_when = {guards_for(i) : i \in UsersOf(x)}
  BY DEF merge_inputs, required_when
<1>6. \A x \in All \ Selectors : UsersOf(x) = Scenarios => M[x].required_when = {}
  BY DEF merge_inputs
<1> HIDE DEF M
<1>7. \A i \in Scenarios : call \in Calls => (Satisfied(guards_for(i)) <=> Assigned[i] = call.assignment)
  BY ClauseMeans
<1>8. ASSUME NEW x \in All \ Selectors, x \notin call.inputs, NEW i \in Scenarios, Assigned[i] = call.assignment
      PROVE  x \in missing_inputs <=> x \in traces[i].inputs
  <2>1. x \in DOMAIN graph.inputs \ Supplied
    BY <1>1, <1>2, <1>8 DEF Supplied
  <2>2. x \in missing_inputs <=> M[x].required \/ \E clause \in M[x].required_when : Satisfied(clause)
    BY <1>1, <2>1 DEF missing_inputs
  <2>3. CASE UsersOf(x) = Scenarios
    <3>1. x \in traces[i].inputs
      BY <2>3, <1>8 DEF UsersOf
    <3> QED
      BY <1>4, <1>8, <2>2, <2>3, <3>1
  <2>4. CASE UsersOf(x) # Scenarios
    <3>1. \A j \in UsersOf(x) : Satisfied(guards_for(j)) => j = i
      BY <1>7, <1>8, CampaignAssumption DEF CampaignAssumption, UsersOf
    <3>2. x \in missing_inputs <=> \E j \in UsersOf(x) : Satisfied(guards_for(j))
      BY <1>5, <1>8, <2>2, <2>4
    <3>3. Satisfied(guards_for(i))
      BY <1>7, <1>8
    <3>4. i \in UsersOf(x) <=> x \in traces[i].inputs
      BY DEF UsersOf
    <3> QED
      BY <3>1, <3>2, <3>3, <3>4
  <2> QED
    BY <2>3, <2>4
<1>9. \A x \in missing_inputs : x \in All \ Selectors /\ x \notin call.inputs
  BY <1>1, <1>2 DEF missing_inputs, Supplied
<1> QED
  BY <1>3, <1>8, <1>9

-----------------------------------------------------------------------------
(* The walk.                                                               *)

\* Where the caller is: not in the graph, in front of the gate, or behind the actions of a tree node that the scenario
\* it meant goes through.
Position ==
    \/ at = Nothing /\ done = <<>>
    \/ at = Decision(<<>>) /\ done = <<>> /\ Decides(<<>>)
    \/ \E t \in Tree : \E i \in Scenarios :
          /\ Assigned[i] = call.assignment /\ done = t
          /\ (at = Decision(t) /\ Decides(t) /\ i \in Through(t)) \/ Leads(at, t, i)

WalkInv ==
    /\ Recorded_
    /\ merged = "merged" => graph = Graph
    /\ call = Idle => at = Nothing /\ answer = "none"
    /\ call # Idle => merged = "merged" /\ call \in Calls
    /\ at # Nothing => missing_inputs = {}
    /\ Position

LEMMA WalkInit == Init => WalkInv
  BY DEF Init, WalkInv, Recorded_, Position

\* The tree and the graph depend on nothing but the traces.
LEMMA TreeKept ==
  ASSUME UNCHANGED traces
  PROVE  /\ Tree' = Tree /\ Graph' = Graph /\ Recorded_' = Recorded_
         /\ \A t : Through(t)' = Through(t) /\ (Decides(t)' <=> Decides(t))
         /\ \A i : Path(i)' = Path(i)
         /\ \A n, t, i : Leads(n, t, i)' <=> Leads(n, t, i)
<1>1. \A i : Path(i)' = Path(i)
  BY DEF Path
<1>2. \A i : Keys(i)' = Keys(i)
  BY <1>1 DEF Keys, node_key
<1>3. Tree' = Tree
  BY <1>1, <1>2 DEF Tree
<1>4. \A t : Through(t)' = Through(t)
  BY <1>1, <1>2 DEF Through
<1>5. \A t : Ends(t)' = Ends(t)
  BY <1>2 DEF Ends
<1>6. \A t : Children(t)' = Children(t)
  BY <1>3 DEF Children
<1>7. \A t : Branches(t)' = Branches(t)
  BY <1>4, <1>5, <1>6 DEF Branches
<1>8. \A t : Decides(t)' <=> Decides(t)
  BY <1>7 DEF Decides
<1>9. \A t : Content(t)' = Content(t)
  <2> TAKE t
  <2>1. First(Through(t))' = First(Through(t))
    BY <1>4
  <2> QED
    BY <2>1 DEF Content, Path
<1>10. \A t : After(t)' = After(t)
  <2> TAKE t
  <2> DEFINE any(S) == CHOOSE b \in S : TRUE
  <2>1. After(t) = IF Decides(t) THEN Decision(t) ELSE any(Branches(t)).to
    BY DEF After
  <2>2. After(t)' = IF Decides(t)' THEN Decision(t) ELSE any(Branches(t)').to
    BY DEF After
  <2> HIDE DEF any
  <2>3. any(Branches(t)') = any(Branches(t))
    BY <1>7
  <2> QED
    BY <1>8, <2>1, <2>2, <2>3
<1>11. Edges' = Edges
  BY <1>3, <1>7, <1>8, <1>10 DEF Edges
<1>12. Nodes' = Nodes
  BY <1>3, <1>8 DEF Nodes
<1>13. merge_inputs' = merge_inputs
  BY DEF merge_inputs, required_when, UsersOf
<1>14. Graph' = Graph
  BY <1>9, <1>10, <1>11, <1>12, <1>13 DEF Graph
<1>15. \A n, t, i : Leads(n, t, i)' <=> Leads(n, t, i)
  BY <1>1, <1>3, <1>4 DEF Leads
<1> QED
  BY <1>1, <1>3, <1>4, <1>8, <1>14, <1>15 DEF Recorded_

LEMMA NotStarted ==
  ASSUME Position, at = Nothing
  PROVE  done = <<>>
  BY DEF Position, Leads, Nothing, Action, Decision, Success

\* Behind t, where scenario i goes on.
LEMMA Arrives ==
  ASSUME Recorded_, NEW t \in Tree, NEW i \in Through(t), Assigned[i] = call.assignment,
         done' = t, at' = After(t), UNCHANGED <<traces, call>>
  PROVE  Position'
<1>1. i \in Scenarios
  BY ThroughMeans
<1>2. (at' = Decision(t) /\ Decides(t)) \/ Leads(at', t, i)
  BY AfterLeads DEF After
<1>3. t \in Tree' /\ i \in Through(t)' /\ (Decides(t)' <=> Decides(t)) /\ (Leads(at, t, i)' <=> Leads(at', t, i))
  <2>1. \A n : Leads(n, t, i)' <=> Leads(n, t, i)
    BY TreeKept
  <2>2. Leads(at, t, i)' <=> Leads(at', t, i)
    BY TreeKept DEF Leads
  <2> QED
    BY <2>2, TreeKept
<1> QED
  BY <1>1, <1>2, <1>3 DEF Position

\* In front of an action, the scenario that was meant has it as its next one.
LEMMA PerformTells ==
  ASSUME WalkInv, Perform
  PROVE  \E u \in Tree : \E i \in Through(u) :
           /\ Assigned[i] = call.assignment /\ i \in Scenarios
           /\ Len(done) \in Nat /\ Len(done) < Len(Path(i)) /\ done' = Append(done, Path(i)[Len(done) + 1])
           /\ done' = u /\ at' = After(u) /\ answer' = answer
<1>1. Recorded_ /\ graph = Graph
  BY DEF WalkInv, Perform, Nothing
<1>2. PICK t \in Tree : \E i \in Scenarios : Assigned[i] = call.assignment /\ done = t /\ Leads(at, t, i)
  BY DEF WalkInv, Position, Perform, Nothing, Decision
<1>3. PICK i \in Scenarios : Assigned[i] = call.assignment /\ done = t /\ Leads(at, t, i)
  BY <1>2
<1>4. PICK u \in Tree : u # <<>> /\ at = Action(u) /\ Prefix(u, Len(u) - 1) = t /\ i \in Through(u)
  BY <1>3 DEF Leads, Perform, Success
<1>5. /\ u \in Seq(ActionNodes) /\ Len(u) \in Nat \ {0}
      /\ Len(u) <= Len(Path(i)) /\ Path(i)[Len(u)] = u[Len(u)] /\ Len(Path(i)) \in Nat
  BY <1>1, <1>4, TreeType, EmptySeq, ThroughMeans, PathType
<1>6. Len(t) = Len(u) - 1
  BY <1>4, <1>5, PrefixOf
<1>7. Content(u) = u[Len(u)]
  BY <1>1, <1>4, ContentIs
<1>8. Append(t, u[Len(u)]) = u
  <2>1. Append(Prefix(u, Len(u) - 1), u[Len(u) - 1 + 1]) = Prefix(u, Len(u) - 1 + 1)
    BY <1>5, PrefixAppend
  <2>2. Len(u) - 1 + 1 = Len(u)
    BY <1>5
  <2> QED
    BY <1>4, <1>5, <2>1, <2>2, WholePrefix
<1>9. done' = Append(t, u[Len(u)])
  <2>1. at.tree = u
    BY <1>4 DEF Action
  <2>2. Content(at.tree) = u[Len(u)]
    BY <1>7, <2>1
  <2>3. done' = Append(done, Content(at.tree))
    BY DEF Perform
  <2> QED
    BY <1>3, <2>2, <2>3
<1>10. at' = After(u) /\ answer' = answer
  <2>1. \A e : e \in Taken(graph, at, call.assignment) <=> e = Always(Action(u), After(u))
    BY <1>1, <1>4, EdgesOfAction
  <2>2. \E e \in Taken(graph, at, call.assignment) : at' = e.target /\ UNCHANGED answer
    BY <2>1 DEF Perform, Move
  <2>3. Always(Action(u), After(u)).target = After(u)
    BY DEF Always
  <2> QED
    BY <2>1, <2>2, <2>3
<1>11. Len(t) + 1 = Len(u)
  BY <1>5, <1>6
<1>12. done' = Append(done, Path(i)[Len(done) + 1])
  BY <1>3, <1>5, <1>9, <1>11
<1>13. Len(done) \in Nat /\ Len(done) < Len(Path(i))
  BY <1>3, <1>5, <1>6
<1> QED
  BY <1>3, <1>4, <1>8, <1>9, <1>10, <1>12, <1>13

\* A decision either goes where a meant scenario goes, or nothing was done yet and no scenario is meant.
LEMMA DecideTells ==
  ASSUME WalkInv, Decide
  PROVE  /\ UNCHANGED done
         /\ \/ /\ answer' = answer
               /\ \E t \in Tree : \E i \in Scenarios : Assigned[i] = call.assignment /\ done = t /\ Leads(at', t, i)
            \/ /\ answer' = "no_edge" /\ at' = at /\ done = <<>>
               /\ \A i \in Scenarios : Assigned[i] # call.assignment
<1>1. Recorded_ /\ graph = Graph /\ call \in Calls
  BY DEF WalkInv, Decide, Nothing
<1>2. call.assignment \in Assignments
  BY <1>1 DEF Calls
<1>3. PICK t \in Tree : /\ at = Decision(t) /\ Decides(t) /\ done = t
                        /\ t = <<>> \/ \E i \in Through(t) : Assigned[i] = call.assignment
  BY <1>1, Root DEF WalkInv, Position, Decide, Nothing, Leads, Action, Success
<1>4. CASE \E e \in Taken(graph, at, call.assignment) : at' = e.target /\ UNCHANGED answer
  <2>1. PICK e \in Taken(Graph, Decision(t), call.assignment) : at' = e.target /\ UNCHANGED answer
    BY <1>1, <1>3, <1>4
  <2>2. PICK i \in Scenarios : Assigned[i] = call.assignment /\ Leads(e.target, t, i)
    BY <1>1, <1>2, <1>3, <2>1, TakenAtDecision
  <2>3. UNCHANGED done
    BY DEF Decide
  <2> QED
    BY <1>3, <2>1, <2>2, <2>3
<1>5. CASE Taken(graph, at, call.assignment) = {} /\ answer' = "no_edge" /\ UNCHANGED at
  <2>1. Taken(Graph, Decision(t), call.assignment) = {}
    BY <1>1, <1>3, <1>5
  <2>2. \A i \in Through(t) : Assigned[i] # call.assignment
    BY <1>1, <1>2, <1>3, <2>1, TakenAtDecision
  <2>3. t = <<>> /\ \A i \in Scenarios : Assigned[i] # call.assignment
    BY <1>1, <1>3, <2>2, Root
  <2> QED
    BY <1>3, <1>5, <2>3 DEF Decide
<1> QED
  BY <1>4, <1>5 DEF Decide, Move

LEMMA MissingKept ==
  ASSUME UNCHANGED <<graph, call>>
  PROVE  missing_inputs' = missing_inputs
  BY DEF missing_inputs, Satisfied, Supplied

LEMMA PositionKept ==
  ASSUME Position, UNCHANGED <<traces, call, at, done>>
  PROVE  Position'
<1>1. /\ Tree' = Tree /\ (Decides(<<>>)' <=> Decides(<<>>))
      /\ \A t : Through(t)' = Through(t) /\ (Decides(t)' <=> Decides(t))
  BY TreeKept
<1>2. \A t, i : Leads(at, t, i)' <=> Leads(at, t, i)
  <2> TAKE t, i
  <2> QED
    BY TreeKept DEF Leads
<1>3. UNCHANGED <<call, at, done>>
  OBVIOUS
<1>4. CASE at = Nothing /\ done = <<>>
  BY <1>3, <1>4 DEF Position
<1>5. CASE at = Decision(<<>>) /\ done = <<>> /\ Decides(<<>>)
  BY <1>1, <1>3, <1>5 DEF Position, Decision
<1>6. CASE \E t \in Tree : \E i \in Scenarios :
             /\ Assigned[i] = call.assignment /\ done = t
             /\ (at = Decision(t) /\ Decides(t) /\ i \in Through(t)) \/ Leads(at, t, i)
  <2>1. PICK t \in Tree : \E i \in Scenarios :
             /\ Assigned[i] = call.assignment /\ done = t
             /\ (at = Decision(t) /\ Decides(t) /\ i \in Through(t)) \/ Leads(at, t, i)
    BY <1>6
  <2>2. t \in Tree' /\ \E i \in Scenarios :
             /\ Assigned[i] = call'.assignment /\ done' = t
             /\ (at' = Decision(t) /\ Decides(t)' /\ i \in Through(t)') \/ Leads(at, t, i)'
    BY <1>1, <1>2, <1>3, <2>1
  <2> QED
    BY <2>2 DEF Position, Decision
<1> QED
  BY <1>4, <1>5, <1>6 DEF Position

\* Where the graph is entered: at the gate, or, without selectors, on the path of every scenario.
LEMMA Enters ==
  ASSUME WalkInv, CheckInputs, missing_inputs = {}
  PROVE  Position' /\ done = <<>>
<1>1. Recorded_ /\ graph = Graph /\ call \in Calls /\ done = <<>>
  BY NotStarted DEF WalkInv, CheckInputs
<1>2. at' = After(<<>>) /\ UNCHANGED <<traces, call, done>>
  BY <1>1 DEF CheckInputs, Graph
<1>3. <<>> \in Tree /\ Through(<<>>) = Scenarios
  BY <1>1, Root
<1>4. CASE Decides(<<>>)
  <2>1. at' = Decision(<<>>)
    BY <1>2, <1>4 DEF After
  <2>2. Decides(<<>>)'
    BY <1>2, <1>4, TreeKept
  <2> QED
    BY <1>1, <1>2, <2>1, <2>2 DEF Position, Decision
<1>5. CASE ~Decides(<<>>)
  <2>1. Selectors = {}
    BY <1>5 DEF Decides
  <2>2. PICK i \in Scenarios : TRUE
    BY CampaignAssumption DEF CampaignAssumption
  <2>3. Assigned[i] \in Assignments /\ call.assignment \in Assignments
    BY <1>1, CampaignAssumption DEF CampaignAssumption, Calls
  <2>4. Assigned[i] = call.assignment
    BY <2>1, <2>3 DEF Assignments
  <2> QED
    BY <1>1, <1>2, <1>3, <2>4, Arrives
<1> QED
  BY <1>1, <1>4, <1>5

LEMMA WalkStep ==
  ASSUME WalkInv, [Next]_vars
  PROVE  WalkInv'
<1>1. CASE UNCHANGED vars
  <2>1. UNCHANGED <<traces, graph, call, at, done>>
    BY <1>1 DEF vars
  <2> QED
    BY <1>1, <2>1, PositionKept, MissingKept, TreeKept DEF WalkInv, vars
<1>2. CASE merge_traces
  <2>1. call = Idle /\ at = Nothing
    BY <1>2 DEF WalkInv, merge_traces
  <2>2. UNCHANGED <<traces, call, at, done, answer>>
    BY <1>2 DEF merge_traces
  <2>3. merged' = "merged" => graph' = Graph
    BY <1>2 DEF merge_traces
  <2> QED
    BY <2>1, <2>2, <2>3, PositionKept, TreeKept DEF WalkInv
<1>3. CASE Begin
  <2>1. at = Nothing /\ answer = "none" /\ done = <<>> /\ graph = Graph
    BY <1>3, NotStarted DEF WalkInv, Begin
  <2>2. Position'
    BY <1>3, <2>1 DEF Position, Begin, Nothing
  <2> QED
    BY <1>3, <2>1, <2>2, TreeKept DEF WalkInv, Begin
<1>4. CASE CheckInputs
  <2>1. UNCHANGED <<traces, merged, graph, call, done>> /\ call # Idle /\ at = Nothing
    BY <1>4 DEF CheckInputs
  <2>2. CASE missing_inputs = {}
    BY <1>4, <2>1, <2>2, Enters, MissingKept, TreeKept DEF WalkInv
  <2>3. CASE missing_inputs # {}
    <3>1. at' = at
      BY <1>4, <2>3 DEF CheckInputs
    <3> QED
      BY <2>1, <3>1, PositionKept, MissingKept, TreeKept DEF WalkInv
  <2> QED
    BY <2>2, <2>3
<1>5. CASE Perform
  <2>1. UNCHANGED <<traces, merged, graph, call>> /\ at # Nothing
    BY <1>5 DEF Perform, Nothing
  <2>2. PICK u \in Tree : \E i \in Through(u) : Assigned[i] = call.assignment /\ done' = u /\ at' = After(u)
    BY <1>5, PerformTells
  <2>3. Position'
    BY <2>1, <2>2, Arrives DEF WalkInv
  <2> QED
    BY <2>1, <2>3, MissingKept, TreeKept DEF WalkInv
<1>6. CASE Decide
  <2>1. UNCHANGED <<traces, merged, graph, call, done>> /\ at # Nothing
    BY <1>6 DEF Decide, Nothing
  <2>2. CASE \E t \in Tree : \E i \in Scenarios : Assigned[i] = call.assignment /\ done = t /\ Leads(at', t, i)
    <3>1. PICK t \in Tree : \E i \in Scenarios : Assigned[i] = call.assignment /\ done = t /\ Leads(at', t, i)
      BY <2>2
    <3>2. \A n, i : Leads(n, t, i)' <=> Leads(n, t, i)
      BY <2>1, TreeKept
    <3>3. \A i : Leads(at, t, i)' <=> Leads(at', t, i)
      BY <2>1, TreeKept DEF Leads
    <3>4. Position'
      BY <2>1, <3>1, <3>3, TreeKept DEF Position
    <3> QED
      BY <2>1, <3>4, MissingKept, TreeKept DEF WalkInv
  <2>3. CASE at' = at
    BY <2>1, <2>3, PositionKept, MissingKept, TreeKept DEF WalkInv
  <2> QED
    BY <1>6, <2>2, <2>3, DecideTells
<1>7. CASE Finish
  <2>1. UNCHANGED <<traces, merged, graph, call, at, done>> /\ at # Nothing
    BY <1>7 DEF Finish, Nothing
  <2> QED
    BY <2>1, PositionKept, MissingKept, TreeKept DEF WalkInv
<1>8. CASE Over
  BY <1>1, <1>8 DEF Over
<1> QED
  BY <1>1, <1>2, <1>3, <1>4, <1>5, <1>6, <1>7, <1>8 DEF Next

-----------------------------------------------------------------------------
(* The steps of the walk are steps of DeclaredPaths.                       *)

Declared_Next == Declared!Begin \/ Declared!Act \/ Declared!Succeed \/ Declared!TurnAway

LEMMA StepMaps ==
  ASSUME WalkInv, [Next]_vars
  PROVE  [Declared_Next]_(Declared!vars)
<1>1. UNCHANGED traces
  BY DEF Next, vars, merge_traces, Begin, CheckInputs, Perform, Decide, Finish, Over
<1>2. UNCHANGED <<Paths, Given>>
  BY <1>1 DEF Paths, Given, Path
<1>3. CASE UNCHANGED <<call, done, answer>>
  BY <1>2, <1>3 DEF Declared!vars
<1>4. CASE Begin
  BY <1>2, <1>4 DEF Begin, Declared_Next, Declared!Begin
<1>5. CASE CheckInputs /\ missing_inputs # {}
  <2>1. done = <<>> /\ call # Idle /\ Recorded_ /\ graph = Graph /\ call \in Calls
    BY <1>5, NotStarted DEF WalkInv, CheckInputs
  <2>2. \A i \in Scenarios : Assigned[i] = call.assignment => ~(Given[i] \subseteq call.inputs)
    BY <1>5, <2>1, MissingMeans DEF Given
  <2>3. answer = "none" /\ answer' = "missing_inputs" /\ UNCHANGED <<call, done>>
    BY <1>5 DEF CheckInputs
  <2>4. Declared!TurnAway
    BY <1>2, <2>1, <2>2, <2>3 DEF Declared!TurnAway, Declared!Meant
  <2> QED
    BY <2>4 DEF Declared_Next
<1>6. CASE Perform
  <2>1. /\ call # Idle /\ call \in Calls /\ Recorded_ /\ graph = Graph /\ missing_inputs = {}
        /\ UNCHANGED call /\ answer = "none"
    BY <1>6 DEF WalkInv, Perform, Nothing
  <2>2. PICK i \in Scenarios :
          /\ Assigned[i] = call.assignment /\ Len(done) \in Nat /\ Len(done) < Len(Path(i))
          /\ done' = Append(done, Path(i)[Len(done) + 1]) /\ answer' = answer
    BY <1>6, PerformTells
  <2>3. Needs(Path(i)[Len(done) + 1]) \subseteq traces[i].inputs
    <3>1. traces[i] \in Recorded /\ Path(i) \in Seq(ActionNodes) /\ Len(Path(i)) \in Nat
      BY <2>1, PathType DEF Recorded_
    <3>2. Len(done) + 1 \in 1..Len(Path(i))
      BY <2>2, <3>1
    <3> QED
      BY <3>1, <3>2, TraceAssumption DEF TraceAssumption, Path
  <2>4. traces[i].inputs \subseteq call.inputs
    BY <2>1, <2>2, MissingMeans
  <2>5. Paths[i] = Path(i)
    BY DEF Paths
  <2>6. Declared!Act
    BY <1>2, <2>1, <2>2, <2>3, <2>4, <2>5 DEF Declared!Act, Declared!Meant
  <2> QED
    BY <2>6 DEF Declared_Next
<1>7. CASE Decide /\ ~UNCHANGED answer
  <2>1. call # Idle /\ answer = "none" /\ UNCHANGED <<call, done>>
    BY <1>7 DEF WalkInv, Decide, Nothing
  <2>2. answer' = "no_edge" /\ done = <<>> /\ \A i \in Scenarios : Assigned[i] # call.assignment
    BY <1>7, DecideTells
  <2>3. Declared!TurnAway
    BY <1>2, <2>1, <2>2 DEF Declared!TurnAway, Declared!Meant
  <2> QED
    BY <2>3 DEF Declared_Next
<1>8. CASE Finish
  <2>1. call # Idle /\ answer = "none" /\ answer' = "success" /\ UNCHANGED <<call, done>>
    BY <1>8 DEF WalkInv, Finish, Nothing
  <2>2. PICK i \in Scenarios : Assigned[i] = call.assignment /\ done = Path(i)
    BY <1>8 DEF WalkInv, Position, Leads, Finish, Nothing, Decision, Action
  <2>3. Paths[i] = Path(i)
    BY DEF Paths
  <2>4. Declared!Succeed
    BY <1>2, <2>1, <2>2, <2>3 DEF Declared!Succeed, Declared!Meant
  <2> QED
    BY <2>4 DEF Declared_Next
<1>9. CASE \/ merge_traces \/ Over \/ UNCHANGED vars
           \/ (CheckInputs /\ missing_inputs = {}) \/ (Decide /\ UNCHANGED answer)
  <2>1. UNCHANGED <<call, done, answer>>
    BY <1>9 DEF merge_traces, Over, CheckInputs, Decide, vars
  <2> QED
    BY <1>3, <2>1
<1> QED
  BY <1>4, <1>5, <1>6, <1>7, <1>8, <1>9 DEF Next

LEMMA Walks == Spec => []WalkInv
<1>1. WalkInv /\ [Next]_vars => WalkInv'
  BY WalkStep
<1> QED
  BY WalkInit, <1>1, PTL DEF Spec

\* merge.py: called with the selector values of a recorded scenario, the merged graph performs that scenario's actions,
\* all of them and in order, and needs no input the caller may leave out; called with any others it stops before any
\* action runs.  For every campaign and every set of traces.
THEOREM MergeKeepsPaths == Spec => ImplementsDeclaredPaths
<1>1. Init => Declared!Init
  BY DEF Init, Declared!Init
<1>2. WalkInv /\ [Next]_vars => [Declared_Next]_(Declared!vars)
  BY StepMaps
<1> QED
  BY <1>1, <1>2, Walks, PTL DEF Spec, ImplementsDeclaredPaths, Declared!Spec, Declared_Next

-----------------------------------------------------------------------------
(* The gate.                                                               *)

\* The branches behind a tree node part the scenarios through it.
LEMMA BranchesPart ==
  ASSUME Recorded_, NEW t \in Tree, NEW b \in Branches(t), NEW c \in Branches(t), NEW i \in b.by, i \in c.by
  PROVE  b = c
<1> DEFINE Grows(d) == \E u \in Children(t) : d = [to |-> Action(u), by |-> Through(u)]
<1> DEFINE Stops(d) == d = [to |-> Success, by |-> Ends(t)]
<1>1. (Grows(b) \/ Stops(b)) /\ (Grows(c) \/ Stops(c))
  BY DEF Branches
<1>2. \A u \in Children(t) : i \in Through(u) =>
          /\ i \in Scenarios /\ Len(t) + 1 <= Len(Path(i)) /\ u = Prefix(Path(i), Len(t) + 1)
  <2> TAKE u \in Children(t)
  <2> HAVE i \in Through(u)
  <2>1. u \in Tree /\ Len(u) = Len(t) + 1
    BY DEF Children
  <2> QED
    BY <2>1, ThroughMeans
<1>3. i \in Ends(t) => i \in Scenarios /\ Path(i) = t /\ Len(t) \in Nat
  <2>1. i \in Ends(t) => i \in Scenarios /\ Keys(i) = t
    BY DEF Ends
  <2> QED
    BY <2>1, PathType, TreeType
<1>4. Grows(b) /\ Grows(c) => b = c
  BY <1>2
<1>5. ~(Grows(b) /\ Stops(c)) /\ ~(Stops(b) /\ Grows(c))
  BY <1>2, <1>3
<1> QED
  BY <1>1, <1>4, <1>5

LEMMA GateHolds ==
  ASSUME WalkInv
  PROVE  GateIsDeclared
<1> SUFFICES ASSUME merged = "merged", Selectors # {}
             PROVE  /\ {e.guards : e \in Outgoing(graph, graph.entry)} = {guards_for(i) : i \in Scenarios}
                    /\ \A e, f \in Outgoing(graph, graph.entry) : e.guards = f.guards => e = f
  BY DEF GateIsDeclared
<1> DEFINE root == <<>>
<1>1. Recorded_ /\ graph = Graph /\ Decides(root)
  BY DEF WalkInv, Decides
<1>2. root \in Tree /\ Through(root) = Scenarios
  BY <1>1, Root
<1>3. graph.entry = Decision(root)
  BY <1>1 DEF Graph, After
<1> HIDE DEF root
<1>4. \A e : e \in Outgoing(graph, graph.entry) <=> \E b \in Branches(root) : \E i \in b.by : e = GuardedEdge(root, b, i)
  BY <1>1, <1>2, <1>3, EdgesOfDecision
<1>5. \A b, i : GuardedEdge(root, b, i).guards = guards_for(i)
  BY DEF GuardedEdge
<1>6. \A i \in Scenarios : \E b \in Branches(root) : i \in b.by
  BY <1>1, <1>2, OwnBranch
<1>7. \A b \in Branches(root) : \A i \in b.by : i \in Scenarios
  BY <1>1, <1>2, BranchLeads
<1>8. {e.guards : e \in Outgoing(graph, graph.entry)} = {guards_for(i) : i \in Scenarios}
  <2>1. \A e \in Outgoing(graph, graph.entry) : \E i \in Scenarios : e.guards = guards_for(i)
    BY <1>4, <1>5, <1>7
  <2>2. \A i \in Scenarios : \E e \in Outgoing(graph, graph.entry) : e.guards = guards_for(i)
    BY <1>4, <1>5, <1>6
  <2> QED
    BY <2>1, <2>2
<1>9. \A i, j \in Scenarios : guards_for(i) = guards_for(j) => i = j
  <2> SUFFICES ASSUME NEW i \in Scenarios, NEW j \in Scenarios, guards_for(i) = guards_for(j)
               PROVE  i = j
    OBVIOUS
  <2>1. Assigned[i] \in Assignments /\ Assigned[j] \in Assignments
    BY CampaignAssumption DEF CampaignAssumption
  <2>2. \A s \in Selectors : Assigned[i][s] = Assigned[j][s]
    <3> TAKE s \in Selectors
    <3>1. <<s, Assigned[i][s]>> \in guards_for(j)
      BY DEF guards_for
    <3> QED
      BY <3>1 DEF guards_for
  <2>3. Assigned[i] = Assigned[j]
    BY <2>1, <2>2 DEF Assignments
  <2> QED
    BY <2>3, CampaignAssumption DEF CampaignAssumption
<1>10. ASSUME NEW e \in Outgoing(graph, graph.entry), NEW f \in Outgoing(graph, graph.entry), e.guards = f.guards
       PROVE  e = f
  <2>1. PICK b \in Branches(root) : \E i \in b.by : e = GuardedEdge(root, b, i)
    BY <1>4
  <2>2. PICK i \in b.by : e = GuardedEdge(root, b, i)
    BY <2>1
  <2>3. PICK c \in Branches(root) : \E j \in c.by : f = GuardedEdge(root, c, j)
    BY <1>4
  <2>4. PICK j \in c.by : f = GuardedEdge(root, c, j)
    BY <2>3
  <2>5. i = j
    BY <1>5, <1>7, <1>9, <1>10, <2>2, <2>4
  <2>6. b = c
    BY <1>1, <1>2, <2>5, BranchesPart
  <2> QED
    BY <2>2, <2>4, <2>5, <2>6
<1> QED
  BY <1>8, <1>10

\* approval.py reads the assignments to test from the entry gate, so the gate must have exactly one edge for each
\* declared assignment and no other: approval can then neither miss a scenario nor ask for one nobody recorded.
THEOREM GateDeclared == Spec => []GateIsDeclared
<1>1. WalkInv => GateIsDeclared
  BY GateHolds
<1> QED
  BY <1>1, Walks, PTL

-----------------------------------------------------------------------------
(* Connected: as many rounds as there are nodes are enough to reach every  *)
(* node, and to take away every node that is on no cycle.                  *)

Onward(g, X) == X \cup UNION {Successors(g, n) : n \in X}
Staying(g, X) == {n \in X : Successors(g, n) \cap X # {}}

\* A function on 0..N is defined by its value at 0 and by how the next one is made.
Rounds(f, N, U, G, A) == f \in [0..N -> U] /\ f[0] = A /\ \A k \in 1..N : f[k] = G[f[k - 1]]

LEMMA RoundsExist ==
  ASSUME NEW U, NEW G \in [U -> U], NEW A \in U, NEW N \in Nat
  PROVE  \E f : Rounds(f, N, U, G, A)
<1> USE DEF Rounds
<1> DEFINE Iter(n, f) == Rounds(f, n, U, G, A)
           T == {n \in Nat : ~ \E f : Iter(n, f)}
<1>1. ASSUME T # {}
      PROVE  FALSE
  <2>1. PICK x \in T : \A y \in T : x <= y
    BY <1>1, Least
  <2>2. x # 0
    <3>1. Iter(0, [k \in 0..0 |-> A])
      OBVIOUS
    <3> QED
      BY <3>1
  <2>3. x \in Nat /\ x - 1 \in Nat /\ ~(x <= x - 1)
    BY <2>2
  <2>4. PICK f : Iter(x - 1, f)
    BY <2>1, <2>3
  <2> DEFINE h == [k \in 0..x |-> IF k = x THEN G[f[x - 1]] ELSE f[k]]
  <2>5. f[x - 1] \in U
    BY <2>3, <2>4
  <2>6. h \in [0..x -> U] /\ h[0] = A
    BY <2>3, <2>4, <2>5
  <2>7. ASSUME NEW k \in 1..x
        PROVE  h[k] = G[h[k - 1]]
    <3>1. k \in 0..x /\ k - 1 \in 0..x /\ k - 1 # x
      BY <2>3
    <3>2. h[k - 1] = f[k - 1] /\ h[k] = IF k = x THEN G[f[x - 1]] ELSE f[k]
      BY <3>1
    <3>3. CASE k = x
      BY <3>2, <3>3
    <3>4. CASE k # x
      <4>1. k \in 1..x - 1
        BY <3>4, <2>3
      <4> QED
        BY <3>2, <3>4, <4>1, <2>4
    <3> QED
      BY <3>3, <3>4
  <2> QED
    BY <2>1, <2>6, <2>7
<1> QED
  BY <1>1

\* The two recursive functions of Connected.
LEMMA RoundsAre ==
  ASSUME NEW g, Cardinality(g.nodes) \in Nat, g.entry \in g.nodes,
         \A n \in g.nodes : Successors(g, n) \subseteq g.nodes
  PROVE  \E r, l \in [0..Cardinality(g.nodes) -> SUBSET g.nodes] :
           /\ r[0] = {g.entry} /\ \A k \in 1..Cardinality(g.nodes) : r[k] = Onward(g, r[k - 1])
           /\ l[0] = g.nodes /\ \A k \in 1..Cardinality(g.nodes) : l[k] = Staying(g, l[k - 1])
           /\ Connected(g) <=> r[Cardinality(g.nodes)] = g.nodes /\ l[Cardinality(g.nodes)] = {}
<1> DEFINE N == Cardinality(g.nodes)
           RB(f, k) == IF k = 0 THEN {g.entry} ELSE f[k - 1] \cup UNION {Successors(g, n) : n \in f[k - 1]}
           LB(f, k) == IF k = 0 THEN g.nodes ELSE {n \in f[k - 1] : Successors(g, n) \cap f[k - 1] # {}}
           RF(f) == f = [k \in 0..N |-> RB(f, k)]
           LF(f) == f = [k \in 0..N |-> LB(f, k)]
           r == CHOOSE f : RF(f)
           l == CHOOSE f : LF(f)
           GR == [X \in SUBSET g.nodes |-> Onward(g, X)]
           GL == [X \in SUBSET g.nodes |-> Staying(g, X)]
<1>1. Connected(g) <=> r[N] = g.nodes /\ l[N] = {}
  BY DEF Connected
<1>2. GR \in [SUBSET g.nodes -> SUBSET g.nodes] /\ \A X \in SUBSET g.nodes : GR[X] = Onward(g, X)
  BY DEF Onward
<1>3. GL \in [SUBSET g.nodes -> SUBSET g.nodes] /\ \A X \in SUBSET g.nodes : GL[X] = Staying(g, X)
  BY DEF Staying
<1> HIDE DEF GR, GL, N
<1>4. N \in Nat /\ {g.entry} \in SUBSET g.nodes /\ g.nodes \in SUBSET g.nodes
  BY DEF N
<1>5. \E f : RF(f)
  <2>1. PICK f : Rounds(f, N, SUBSET g.nodes, GR, {g.entry})
    BY <1>2, <1>4, RoundsExist
  <2>2. \A k \in 0..N : f[k] = RB(f, k)
    <3> TAKE k \in 0..N
    <3>1. CASE k = 0
      BY <2>1, <3>1 DEF Rounds
    <3>2. CASE k # 0
      <4>1. k \in 1..N /\ k - 1 \in 0..N
        BY <1>4, <3>2
      <4>2. f[k] = Onward(g, f[k - 1])
        BY <1>2, <2>1, <4>1 DEF Rounds
      <4> QED
        BY <3>2, <4>2 DEF Onward
    <3> QED
      BY <3>1, <3>2
  <2>3. f = [k \in 0..N |-> f[k]]
    BY <2>1 DEF Rounds
  <2> HIDE DEF RB
  <2>4. RF(f)
    BY <2>2, <2>3
  <2> QED
    BY <2>4
<1>6. \E f : LF(f)
  <2>1. PICK f : Rounds(f, N, SUBSET g.nodes, GL, g.nodes)
    BY <1>3, <1>4, RoundsExist
  <2>2. \A k \in 0..N : f[k] = LB(f, k)
    <3> TAKE k \in 0..N
    <3>1. CASE k = 0
      BY <2>1, <3>1 DEF Rounds
    <3>2. CASE k # 0
      <4>1. k \in 1..N /\ k - 1 \in 0..N
        BY <1>4, <3>2
      <4>2. f[k] = Staying(g, f[k - 1])
        BY <1>3, <2>1, <4>1 DEF Rounds
      <4> QED
        BY <3>2, <4>2 DEF Staying
    <3> QED
      BY <3>1, <3>2
  <2>3. f = [k \in 0..N |-> f[k]]
    BY <2>1 DEF Rounds
  <2> HIDE DEF LB
  <2>4. LF(f)
    BY <2>2, <2>3
  <2> QED
    BY <2>4
<1>7. RF(r) /\ LF(l)
  <2> HIDE DEF RF, LF
  <2> QED
    BY <1>5, <1>6
<1> HIDE DEF r, l
<1>8. r[0] = {g.entry} /\ \A k \in 1..N : r[k] = Onward(g, r[k - 1])
  <2>1. \A k \in 0..N : r[k] = RB(r, k)
    <3> HIDE DEF RB
    <3> QED
      BY <1>7
  <2>2. 0 \in 0..N /\ \A k \in 1..N : k \in 0..N /\ k # 0
    BY <1>4
  <2> QED
    BY <2>1, <2>2 DEF Onward
<1>9. l[0] = g.nodes /\ \A k \in 1..N : l[k] = Staying(g, l[k - 1])
  <2>1. \A k \in 0..N : l[k] = LB(l, k)
    <3> HIDE DEF LB
    <3> QED
      BY <1>7
  <2>2. 0 \in 0..N /\ \A k \in 1..N : k \in 0..N /\ k # 0
    BY <1>4
  <2> QED
    BY <2>1, <2>2 DEF Staying
<1>10. r \in [0..N -> SUBSET g.nodes]
  <2> DEFINE T == {k \in 0..N : ~(r[k] \subseteq g.nodes)}
  <2>1. ASSUME T # {}
        PROVE  FALSE
    <3>1. T \in SUBSET Nat
      BY <1>4
    <3>2. PICK x \in T : \A y \in T : x <= y
      BY <2>1, <3>1, Least
    <3>3. x \in 1..N /\ x - 1 \in 0..N /\ ~(x <= x - 1)
      BY <1>4, <1>8, <3>2
    <3>4. r[x - 1] \subseteq g.nodes
      BY <3>2, <3>3
    <3>5. r[x] \subseteq g.nodes
      BY <1>8, <3>3, <3>4 DEF Onward
    <3> QED
      BY <3>2, <3>5
  <2>2. r = [k \in 0..N |-> r[k]]
    BY <1>7
  <2>3. \A k \in 0..N : r[k] \in SUBSET g.nodes
    BY <2>1
  <2> HIDE DEF RF
  <2> QED
    BY <2>2, <2>3
<1>11. l \in [0..N -> SUBSET g.nodes]
  <2> DEFINE T == {k \in 0..N : ~(l[k] \subseteq g.nodes)}
  <2>1. ASSUME T # {}
        PROVE  FALSE
    <3>1. T \in SUBSET Nat
      BY <1>4
    <3>2. PICK x \in T : \A y \in T : x <= y
      BY <2>1, <3>1, Least
    <3>3. x \in 1..N /\ x - 1 \in 0..N /\ ~(x <= x - 1)
      BY <1>4, <1>9, <3>2
    <3>4. l[x - 1] \subseteq g.nodes
      BY <3>2, <3>3
    <3>5. l[x] \subseteq g.nodes
      BY <1>9, <3>3, <3>4 DEF Staying
    <3> QED
      BY <3>2, <3>5
  <2>2. l = [k \in 0..N |-> l[k]]
    BY <1>7
  <2>3. \A k \in 0..N : l[k] \in SUBSET g.nodes
    BY <2>1
  <2> HIDE DEF LF
  <2> QED
    BY <2>2, <2>3
<1> QED
  BY <1>1, <1>8, <1>9, <1>10, <1>11 DEF N

\* What is reached grows until it is closed; what is left shrinks until it holds only nodes with an edge inside.
LEMMA ConnectedWhen ==
  ASSUME NEW g, IsFiniteSet(g.nodes), g.entry \in g.nodes,
         \A n \in g.nodes : Successors(g, n) \subseteq g.nodes,
         Acyclic(g), AllReachable(g)
  PROVE  Connected(g)
<1> DEFINE N == Cardinality(g.nodes)
<1>1. \A S \in SUBSET g.nodes : IsFiniteSet(S) /\ Cardinality(S) \in Nat /\ Cardinality(S) <= N
  BY FS_Subset, FS_CardinalityType
<1>2. N \in Nat
  BY FS_CardinalityType
<1>3. PICK r, l \in [0..N -> SUBSET g.nodes] :
           /\ r[0] = {g.entry} /\ \A k \in 1..N : r[k] = Onward(g, r[k - 1])
           /\ l[0] = g.nodes /\ \A k \in 1..N : l[k] = Staying(g, l[k - 1])
           /\ Connected(g) <=> r[N] = g.nodes /\ l[N] = {}
  BY <1>2, RoundsAre
<1> DEFINE ROK(k) == g.entry \in r[k] /\ (Closed(g, r[k]) \/ Cardinality(r[k]) >= k + 1)
           LOK(k) == (\A n \in l[k] : Successors(g, n) \cap l[k] # {}) \/ Cardinality(l[k]) <= N - k
           T      == {k \in 0..N : ~(ROK(k) /\ LOK(k))}
<1>4. ROK(0) /\ LOK(0)
  <2>1. 0 \in 0..N
    BY <1>2
  <2>2. Cardinality({g.entry}) = 1
    BY FS_Singleton
  <2> QED
    BY <1>2, <1>3, <2>1, <2>2
<1>5. ASSUME NEW k \in 1..N, ROK(k - 1)
      PROVE  ROK(k)
  <2>1. k - 1 \in 0..N /\ k \in 0..N /\ r[k] = r[k - 1] \cup UNION {Successors(g, n) : n \in r[k - 1]}
    BY <1>2, <1>3 DEF Onward
  <2>2. r[k - 1] \subseteq r[k] /\ r[k] \in SUBSET g.nodes /\ g.entry \in r[k - 1]
    BY <1>3, <1>5, <2>1
  <2>3. CASE Closed(g, r[k - 1])
    <3>1. r[k] = r[k - 1]
      BY <2>1, <2>3 DEF Closed
    <3> QED
      BY <2>3, <3>1 DEF Closed
  <2>4. CASE ~Closed(g, r[k - 1])
    <3>1. r[k] # r[k - 1]
      BY <2>1, <2>2, <2>4 DEF Closed
    <3>2. Cardinality(r[k - 1]) # Cardinality(r[k]) /\ Cardinality(r[k - 1]) <= Cardinality(r[k])
      BY <1>1, <2>2, <3>1, FS_Subset
    <3>3. Cardinality(r[k - 1]) \in Nat /\ Cardinality(r[k]) \in Nat
      BY <1>1, <2>2
    <3> QED
      BY <1>5, <2>2, <2>4, <3>2, <3>3
  <2> QED
    BY <2>3, <2>4
<1>6. ASSUME NEW k \in 1..N, LOK(k - 1)
      PROVE  LOK(k)
  <2>1. k - 1 \in 0..N /\ k \in 0..N /\ l[k] = {n \in l[k - 1] : Successors(g, n) \cap l[k - 1] # {}}
    BY <1>2, <1>3 DEF Staying
  <2>2. l[k] \subseteq l[k - 1] /\ l[k - 1] \in SUBSET g.nodes /\ l[k] \in SUBSET g.nodes
    BY <1>3, <2>1
  <2>3. CASE \A n \in l[k - 1] : Successors(g, n) \cap l[k - 1] # {}
    <3>1. l[k] = l[k - 1]
      BY <2>1, <2>3
    <3> QED
      BY <2>3, <3>1
  <2>4. CASE ~ \A n \in l[k - 1] : Successors(g, n) \cap l[k - 1] # {}
    <3>1. l[k] # l[k - 1]
      BY <2>1, <2>4
    <3>2. Cardinality(l[k - 1]) # Cardinality(l[k]) /\ Cardinality(l[k]) <= Cardinality(l[k - 1])
      BY <1>1, <2>2, <3>1, FS_Subset
    <3>3. Cardinality(l[k - 1]) \in Nat /\ Cardinality(l[k]) \in Nat
      BY <1>1, <2>2
    <3> QED
      BY <1>2, <1>6, <2>4, <3>2, <3>3
  <2> QED
    BY <2>3, <2>4
<1> HIDE DEF ROK, LOK
<1>7. ASSUME T # {}
      PROVE  FALSE
  <2>1. T \in SUBSET Nat
    BY <1>2
  <2>2. PICK x \in T : \A y \in T : x <= y
    BY <1>7, <2>1, Least
  <2>3. x \in 1..N /\ x - 1 \in 0..N /\ ~(x <= x - 1)
    BY <1>2, <1>4, <2>2
  <2>4. ROK(x - 1) /\ LOK(x - 1)
    BY <2>2, <2>3
  <2> QED
    BY <1>5, <1>6, <2>2, <2>3, <2>4
<1>8. ROK(N) /\ LOK(N) /\ N \in 0..N
  BY <1>2, <1>7
<1>9. r[N] = g.nodes
  <2>1. r[N] \in SUBSET g.nodes /\ Cardinality(r[N]) <= N /\ Cardinality(r[N]) \in Nat
    BY <1>1, <1>3, <1>8
  <2>2. Closed(g, r[N])
    BY <1>2, <1>8, <2>1 DEF ROK
  <2> QED
    BY <2>1, <2>2 DEF AllReachable
<1>10. l[N] = {}
  <2>1. l[N] \in SUBSET g.nodes /\ IsFiniteSet(l[N]) /\ Cardinality(l[N]) \in Nat
    BY <1>1, <1>3, <1>8
  <2>2. CASE \A n \in l[N] : Successors(g, n) \cap l[N] # {}
    BY <2>1, <2>2 DEF Acyclic
  <2>3. CASE Cardinality(l[N]) <= N - N
    <3>1. Cardinality(l[N]) = 0
      BY <1>2, <2>1, <2>3
    <3> QED
      BY <2>1, <3>1, FS_EmptySet
  <2> QED
    BY <1>8, <2>2, <2>3 DEF LOK
<1> QED
  BY <1>3, <1>9, <1>10

\* The other way round: a closed set keeps what is reached inside, a set in which every node has an edge is never left.
LEMMA ConnectedOnlyWhen ==
  ASSUME NEW g, IsFiniteSet(g.nodes), g.entry \in g.nodes,
         \A n \in g.nodes : Successors(g, n) \subseteq g.nodes,
         Connected(g)
  PROVE  Acyclic(g) /\ AllReachable(g)
<1> DEFINE N == Cardinality(g.nodes)
<1>1. N \in Nat
  BY FS_CardinalityType
<1>2. PICK r, l \in [0..N -> SUBSET g.nodes] :
           /\ r[0] = {g.entry} /\ \A k \in 1..N : r[k] = Onward(g, r[k - 1])
           /\ l[0] = g.nodes /\ \A k \in 1..N : l[k] = Staying(g, l[k - 1])
           /\ Connected(g) <=> r[N] = g.nodes /\ l[N] = {}
  BY <1>1, RoundsAre
<1> HIDE DEF N
<1>3. ASSUME NEW S \in SUBSET g.nodes, Closed(g, S)
      PROVE  S = g.nodes
  <2> DEFINE T == {k \in 0..N : ~(r[k] \subseteq S)}
  <2>1. ASSUME T # {}
        PROVE  FALSE
    <3>1. T \in SUBSET Nat
      BY <1>1
    <3>2. PICK x \in T : \A y \in T : x <= y
      BY <2>1, <3>1, Least
    <3>3. x \in 1..N /\ x - 1 \in 0..N /\ ~(x <= x - 1)
      BY <1>1, <1>2, <1>3, <3>2 DEF Closed
    <3>4. r[x - 1] \subseteq S
      BY <3>2, <3>3
    <3>5. r[x] \subseteq S
      BY <1>2, <1>3, <3>3, <3>4 DEF Onward, Closed
    <3> QED
      BY <3>2, <3>5
  <2>2. N \in 0..N
    BY <1>1
  <2>3. r[N] \subseteq S
    BY <2>1, <2>2
  <2> QED
    BY <1>2, <2>3
<1>4. ASSUME NEW S \in SUBSET g.nodes, S # {}, \A n \in S : Successors(g, n) \cap S # {}
      PROVE  FALSE
  <2> DEFINE T == {k \in 0..N : ~(S \subseteq l[k])}
  <2>1. ASSUME T # {}
        PROVE  FALSE
    <3>1. T \in SUBSET Nat
      BY <1>1
    <3>2. PICK x \in T : \A y \in T : x <= y
      BY <2>1, <3>1, Least
    <3>3. x \in 1..N /\ x - 1 \in 0..N /\ ~(x <= x - 1)
      BY <1>1, <1>2, <3>2
    <3>4. S \subseteq l[x - 1]
      BY <3>2, <3>3
    <3>5. l[x] = Staying(g, l[x - 1])
      BY <1>2, <3>3
    <3>6. S \subseteq l[x]
      BY <1>4, <3>4, <3>5 DEF Staying
    <3> QED
      BY <3>2, <3>6
  <2>2. N \in 0..N
    BY <1>1
  <2>3. S \subseteq l[N]
    BY <2>1, <2>2
  <2> QED
    BY <1>2, <1>4, <2>3
<1> QED
  BY <1>3, <1>4 DEF Acyclic, AllReachable

\* GraphRules folds the two searches of validate into one step: for every finite graph whose edges end in nodes that
\* step accepts exactly what has no cycle and no unreachable node, which is what module Validation's searches accept.
THEOREM ConnectedIsSearched ==
  ASSUME NEW g, IsFiniteSet(g.nodes), g.entry \in g.nodes,
         \A n \in g.nodes : Successors(g, n) \subseteq g.nodes
  PROVE  Connected(g) <=> Acyclic(g) /\ AllReachable(g)
  BY ConnectedWhen, ConnectedOnlyWhen

-----------------------------------------------------------------------------
(* The merged graph keeps the rules.                                       *)

LEMMA SomeoneThrough ==
  ASSUME Recorded_, NEW t \in Tree
  PROVE  Through(t) # {}
<1>1. PICK i \in Scenarios : \E n \in 0..Len(Path(i)) : t = Prefix(Keys(i), n)
  BY DEF Tree
<1>2. PICK n \in 0..Len(Path(i)) : t = Prefix(Keys(i), n)
  BY <1>1
<1>3. Path(i) \in Seq(ActionNodes) /\ Keys(i) = Path(i) /\ Len(Path(i)) \in Nat
  BY PathType
<1>4. n \in Nat /\ n <= Len(Path(i))
  BY <1>3
<1>5. Len(t) = n
  BY <1>2, <1>3, <1>4, PrefixOf
<1>6. i \in Through(t)
  BY <1>2, <1>4, <1>5 DEF Through
<1> QED
  BY <1>6

\* A branch leads to a child or to the end, and some scenario takes it.
LEMMA BranchIs ==
  ASSUME Recorded_, NEW t \in Tree, NEW b \in Branches(t)
  PROVE  /\ b.by # {} /\ b.by \subseteq Scenarios
         /\ \/ \E u \in Tree : u # <<>> /\ Len(u) = Len(t) + 1 /\ b.to = Action(u)
            \/ b.to = Success
<1>1. CASE \E u \in Children(t) : b = [to |-> Action(u), by |-> Through(u)]
  <2>1. PICK u \in Children(t) : b.to = Action(u) /\ b.by = Through(u)
    BY <1>1
  <2>2. u \in Tree /\ Len(u) = Len(t) + 1
    BY <2>1 DEF Children
  <2>3. u # <<>>
    BY <2>2, TreeType, EmptySeq
  <2>4. Through(u) # {} /\ Through(u) \subseteq Scenarios
    BY <2>2, SomeoneThrough DEF Through
  <2> QED
    BY <2>1, <2>2, <2>3, <2>4
<1>2. CASE Ends(t) # {} /\ b = [to |-> Success, by |-> Ends(t)]
  <2>1. Ends(t) \subseteq Scenarios
    BY DEF Ends
  <2> QED
    BY <1>2, <2>1
<1> QED
  BY <1>1, <1>2 DEF Branches

LEMMA NodesAre ==
  /\ \A n \in Nodes : \/ \E t \in Tree : t # <<>> /\ n = Action(t)
                      \/ \E t \in Tree : Decides(t) /\ n = Decision(t)
                      \/ n = Success
  /\ \A t \in Tree : (t # <<>> => Action(t) \in Nodes) /\ (Decides(t) => Decision(t) \in Nodes)
  /\ Success \in Nodes
  BY DEF Nodes

\* What follows a tree node is further on, or is the decision behind it, or the end.
LEMMA AfterIs ==
  ASSUME Recorded_, NEW t \in Tree
  PROVE  \/ Decides(t) /\ After(t) = Decision(t)
         \/ \E b \in Branches(t) : After(t) = b.to /\ \A c \in Branches(t) : c = b
<1>1. CASE Decides(t)
  BY <1>1 DEF After
<1>2. CASE ~Decides(t)
  <2>1. PICK i \in Through(t) : TRUE
    BY SomeoneThrough
  <2>2. PICK b \in Branches(t) : i \in b.by
    BY OwnBranch
  <2>3. (CHOOSE c \in Branches(t) : TRUE) = b /\ \A c \in Branches(t) : c = b
    BY <1>2, <2>2 DEF Decides
  <2> QED
    BY <1>2, <2>3 DEF After
<1> QED
  BY <1>1, <1>2

LEMMA AfterIsNode ==
  ASSUME Recorded_, NEW t \in Tree
  PROVE  After(t) \in Nodes
  BY AfterIs, BranchIs, NodesAre

\* A decision tells scenarios apart, so there is a selector to tell them by.
LEMMA DecidesBySelector ==
  ASSUME Recorded_, NEW t \in Tree, Decides(t)
  PROVE  Selectors # {}
<1> SUFFICES ASSUME Selectors = {}
             PROVE  FALSE
  OBVIOUS
<1>1. PICK b, c \in Branches(t) : b # c
  BY DEF Decides
<1>2. PICK i \in b.by : i \in Scenarios
  BY BranchIs
<1>3. PICK j \in c.by : j \in Scenarios
  BY BranchIs
<1>4. i # j
  BY <1>1, <1>2, <1>3, BranchesPart
<1>5. Assigned[i] \in [{} -> Values] /\ Assigned[j] \in [{} -> Values]
  BY <1>2, <1>3, CampaignAssumption DEF CampaignAssumption, Assignments
<1>6. Assigned[i] = Assigned[j]
  BY <1>5
<1> QED
  BY <1>2, <1>3, <1>4, <1>6, CampaignAssumption DEF CampaignAssumption

LEMMA EdgesAre ==
  ASSUME NEW e \in Edges
  PROVE  \/ \E t \in Tree : t # <<>> /\ e = Always(Action(t), After(t))
         \/ \E t \in Tree : Decides(t) /\ \E b \in Branches(t) : \E i \in b.by : e = GuardedEdge(t, b, i)
  BY DEF Edges

LEMMA GraphFields ==
  /\ Graph.nodes = Nodes /\ Graph.entry = After(<<>>) /\ Graph.edges = Edges /\ Graph.inputs = merge_inputs
  /\ \A n \in Nodes :
         /\ Graph.kind[n] = n.kind
         /\ Graph.effect[n] = IF n.kind = "action" THEN Content(n.tree).effect ELSE "none"
         /\ Graph.retry_safety[n] = IF n.kind = "action" THEN Content(n.tree).retry_safety ELSE "safe"
         /\ Graph.status[n] = IF n = Success THEN "success" ELSE "none"
         /\ Graph.outcome_code[n] = "none"
  BY DEF Graph

LEMMA InputsKeepRules ==
  ASSUME Recorded_
  PROVE  InputRules(Graph)
<1> DEFINE All == UNION {traces[i].inputs : i \in Scenarios}
           M == merge_inputs
<1>1. DOMAIN M = Selectors \cup All
  BY DEF merge_inputs
<1>2. \A x \in DOMAIN M : x \in Selectors => M[x].selector /\ M[x].required /\ M[x].required_when = {}
  BY DEF merge_inputs
<1>3. \A x \in DOMAIN M : x \notin Selectors =>
          /\ ~M[x].selector
          /\ UsersOf(x) = Scenarios => M[x].required /\ M[x].required_when = {}
          /\ UsersOf(x) # Scenarios => ~M[x].required /\ M[x].required_when = {guards_for(i) : i \in UsersOf(x)}
  BY DEF merge_inputs, required_when
<1> HIDE DEF M
<1>4. ASSUME NEW x \in DOMAIN M, NEW clause \in M[x].required_when
      PROVE  clause # {} /\ \A term \in clause : term[1] \in DOMAIN M /\ M[term[1]].selector
  <2>1. x \notin Selectors /\ UsersOf(x) # Scenarios
    BY <1>2, <1>3, <1>4
  <2>2. PICK i \in UsersOf(x) : clause = guards_for(i)
    BY <1>3, <1>4, <2>1
  <2>3. PICK j \in Scenarios : i # j /\ i \in Scenarios
    BY <2>1, <2>2 DEF UsersOf
  <2>4. Selectors # {}
    <3> SUFFICES ASSUME Selectors = {}
                 PROVE  FALSE
      OBVIOUS
    <3>1. Assigned[i] \in [{} -> Values] /\ Assigned[j] \in [{} -> Values]
      BY <2>3, CampaignAssumption DEF CampaignAssumption, Assignments
    <3>2. Assigned[i] = Assigned[j]
      BY <3>1
    <3> QED
      BY <2>3, <3>2, CampaignAssumption DEF CampaignAssumption
  <2>5. \A term \in clause : term[1] \in Selectors
    BY <2>2 DEF guards_for
  <2>6. clause # {}
    BY <2>2, <2>4 DEF guards_for
  <2> QED
    BY <1>1, <1>2, <2>5, <2>6
<1> QED
  BY <1>1, <1>2, <1>3, <1>4, GraphFields DEF InputRules, M

LEMMA NodesKeepRules ==
  ASSUME Recorded_
  PROVE  NodeRules(Graph)
<1> SUFFICES ASSUME NEW n \in Nodes
             PROVE  CASE Graph.kind[n] = "action"   -> ActionRule(Graph, n)
                      [] Graph.kind[n] = "decision" -> PassiveRule(Graph, n) /\ Graph.status[n] = "none"
                      [] Graph.kind[n] = "terminal" -> PassiveRule(Graph, n) /\ TerminalRule(Graph, n)
  BY GraphFields DEF NodeRules
<1>1. CASE \E t \in Tree : t # <<>> /\ n = Action(t)
  <2>1. PICK t \in Tree : t # <<>> /\ n = Action(t)
    BY <1>1
  <2>2. n.kind = "action" /\ n.tree = t /\ n # Success
    BY <2>1 DEF Action, Success
  <2>3. PICK i \in Through(t) : TRUE
    BY SomeoneThrough
  <2>4. Content(t) = t[Len(t)] /\ Len(t) \in Nat /\ Len(t) # 0
    BY <2>1, <2>3, ContentIs, TreeType, EmptySeq
  <2>5. i \in Scenarios /\ Len(t) \in 1..Len(Path(i)) /\ Path(i)[Len(t)] = Content(t)
    BY <2>3, <2>4, ThroughMeans, PathType
  <2>6. Content(t).effect \in NO_AUTOMATIC_RETRY => Content(t).retry_safety = "never_retry"
    BY <2>5, TraceAssumption DEF TraceAssumption, Recorded_, Path
  <2>7. ActionRule(Graph, n)
    BY <2>2, <2>6, GraphFields DEF ActionRule
  <2> QED
    BY <2>2, <2>7, GraphFields
<1>2. CASE \E t \in Tree : Decides(t) /\ n = Decision(t)
  <2>1. n.kind = "decision" /\ n # Success
    BY <1>2 DEF Decision, Success
  <2>2. PassiveRule(Graph, n) /\ Graph.status[n] = "none"
    BY <2>1, GraphFields DEF PassiveRule
  <2> QED
    BY <2>1, <2>2, GraphFields
<1>3. CASE n = Success
  <2>1. n.kind = "terminal"
    BY <1>3 DEF Success
  <2>2. PassiveRule(Graph, n) /\ TerminalRule(Graph, n)
    BY <1>3, <2>1, GraphFields DEF PassiveRule, TerminalRule, TERMINAL_STATUSES
  <2> QED
    BY <2>1, <2>2, GraphFields
<1> QED
  BY <1>1, <1>2, <1>3, NodesAre

LEMMA EntryKeepsRule ==
  ASSUME Recorded_
  PROVE  EntryRule(Graph)
<1>1. <<>> \in Tree
  BY Root
<1>2. Graph.entry \in Nodes /\ Graph.entry = After(<<>>)
  BY <1>1, AfterIsNode, GraphFields
<1>3. After(<<>>).kind # "terminal"
  <2>1. CASE Decides(<<>>)
    BY <2>1 DEF After, Decision
  <2>2. CASE ~Decides(<<>>)
    <3>1. PICK i \in Through(<<>>) : TRUE
      BY <1>1, SomeoneThrough
    <3>2. Leads(After(<<>>), <<>>, i)
      BY <1>1, <2>2, AfterLeads
    <3>3. Path(i) # <<>>
      BY PathType DEF Through
    <3> QED
      BY <3>2, <3>3 DEF Leads, Action
  <2> QED
    BY <2>1, <2>2
<1> QED
  BY <1>2, <1>3, GraphFields DEF EntryRule

LEMMA EdgeKeepsRule ==
  ASSUME Recorded_, NEW e \in Edges
  PROVE  EdgeRule(Graph, e)
<1>1. CASE \E t \in Tree : t # <<>> /\ e = Always(Action(t), After(t))
  <2>1. PICK t \in Tree : t # <<>> /\ e = Always(Action(t), After(t))
    BY <1>1
  <2>2. Action(t) \in Nodes /\ After(t) \in Nodes /\ Action(t).kind = "action"
    BY <2>1, NodesAre, AfterIsNode DEF Action
  <2>3. e.source = Action(t) /\ e.target = After(t) /\ e.always /\ e.guards = {} /\ e.priority = 0
    BY <2>1 DEF Always
  <2> QED
    BY <2>2, <2>3, GraphFields DEF EdgeRule
<1>2. CASE \E t \in Tree : Decides(t) /\ \E b \in Branches(t) : \E i \in b.by : e = GuardedEdge(t, b, i)
  <2>1. PICK t \in Tree : Decides(t) /\ \E b \in Branches(t) : \E i \in b.by : e = GuardedEdge(t, b, i)
    BY <1>2
  <2>2. PICK b \in Branches(t) : \E i \in b.by : e = GuardedEdge(t, b, i)
    BY <2>1
  <2>3. PICK i \in b.by : e = GuardedEdge(t, b, i)
    BY <2>2
  <2>4. e.source = Decision(t) /\ e.target = b.to /\ e.always = FALSE /\ e.guards = guards_for(i) /\ e.priority = i
    BY <2>3 DEF GuardedEdge
  <2>5. Decision(t) \in Nodes /\ Decision(t).kind = "decision"
    BY <2>1, NodesAre DEF Decision
  <2>6. b.to \in Nodes
    BY BranchIs, NodesAre
  <2>7. i \in Scenarios /\ i \in Int
    <3>1. i \in Scenarios
      BY BranchIs
    <3> QED
      BY <3>1, CampaignAssumption DEF CampaignAssumption
  <2>8. guards_for(i) # {}
    BY <2>1, DecidesBySelector DEF guards_for
  <2>9. \A guard \in guards_for(i) : guard[1] \in DOMAIN merge_inputs
    BY DEF guards_for, merge_inputs
  <2> QED
    BY <2>4, <2>5, <2>6, <2>7, <2>8, <2>9, GraphFields DEF EdgeRule
<1> QED
  BY <1>1, <1>2, EdgesAre

\* The edges behind an action node and behind a decision node.
LEMMA OutgoingAre ==
  ASSUME Recorded_
  PROVE  /\ \A t \in Tree : t # <<>> => Outgoing(Graph, Action(t)) = {Always(Action(t), After(t))}
         /\ \A t \in Tree : Decides(t) =>
                \A e : e \in Outgoing(Graph, Decision(t)) <=> \E b \in Branches(t) : \E i \in b.by : e = GuardedEdge(t, b, i)
         /\ Outgoing(Graph, Success) = {}
<1>1. ASSUME NEW t \in Tree, t # <<>>
      PROVE  Outgoing(Graph, Action(t)) = {Always(Action(t), After(t))}
  <2>1. Always(Action(t), After(t)) \in Edges /\ Always(Action(t), After(t)).source = Action(t)
    BY <1>1 DEF Edges, Always
  <2>2. \A e \in Edges : e.source = Action(t) => e = Always(Action(t), After(t))
    BY EdgesAre DEF Always, GuardedEdge, Action, Decision
  <2> QED
    BY <2>1, <2>2, GraphFields DEF Outgoing
<1>2. \A e \in Edges : e.source # Success
  BY EdgesAre DEF Always, GuardedEdge, Action, Decision, Success
<1> QED
  BY <1>1, <1>2, EdgesOfDecision, GraphFields DEF Outgoing

LEMMA EdgesKeepRules ==
  ASSUME Recorded_
  PROVE  EdgeRules(Graph)
<1>1. ASSUME NEW e \in Edges, NEW f \in Edges, e.source = f.source, e.priority = f.priority
      PROVE  e = f
  <2>1. CASE \E t \in Tree : t # <<>> /\ e = Always(Action(t), After(t))
    <3>1. PICK t \in Tree : t # <<>> /\ e = Always(Action(t), After(t))
      BY <2>1
    <3>2. e \in Outgoing(Graph, Action(t)) /\ f \in Outgoing(Graph, Action(t))
      BY <1>1, <3>1, GraphFields DEF Outgoing, Always
    <3> QED
      BY <3>1, <3>2, OutgoingAre
  <2>2. CASE \E t \in Tree : Decides(t) /\ \E b \in Branches(t) : \E i \in b.by : e = GuardedEdge(t, b, i)
    <3>1. PICK t \in Tree : Decides(t) /\ \E b \in Branches(t) : \E i \in b.by : e = GuardedEdge(t, b, i)
      BY <2>2
    <3>2. PICK b \in Branches(t) : \E i \in b.by : e = GuardedEdge(t, b, i)
      BY <3>1
    <3>3. PICK i \in b.by : e = GuardedEdge(t, b, i)
      BY <3>2
    <3>4. f \in Outgoing(Graph, Decision(t))
      BY <1>1, <3>3, GraphFields DEF Outgoing, GuardedEdge
    <3>5. PICK c \in Branches(t) : \E j \in c.by : f = GuardedEdge(t, c, j)
      BY <3>1, <3>4, OutgoingAre
    <3>6. PICK j \in c.by : f = GuardedEdge(t, c, j)
      BY <3>5
    <3>7. i = j
      BY <1>1, <3>3, <3>6 DEF GuardedEdge
    <3>8. b = c
      BY <3>7, BranchesPart
    <3> QED
      BY <3>3, <3>6, <3>7, <3>8
  <2> QED
    BY <2>1, <2>2, EdgesAre
<1>2. ASSUME NEW n \in Nodes
      PROVE  FallbackRule(Graph, n) /\ (Graph.kind[n] # "terminal" => Outgoing(Graph, n) # {})
  <2>1. CASE \E t \in Tree : t # <<>> /\ n = Action(t)
    BY <2>1, OutgoingAre DEF FallbackRule
  <2>2. CASE \E t \in Tree : Decides(t) /\ n = Decision(t)
    <3>1. PICK t \in Tree : Decides(t) /\ n = Decision(t)
      BY <2>2
    <3>2. \A e \in Outgoing(Graph, n) : ~e.always
      BY <3>1, OutgoingAre DEF GuardedEdge
    <3>3. PICK i \in Through(t) : TRUE
      BY SomeoneThrough
    <3>4. PICK b \in Branches(t) : i \in b.by
      BY OwnBranch
    <3>5. GuardedEdge(t, b, i) \in Outgoing(Graph, n)
      BY <3>1, <3>4, OutgoingAre
    <3> QED
      BY <3>2, <3>5 DEF FallbackRule
  <2>3. CASE n = Success
    BY <2>3, OutgoingAre, GraphFields DEF FallbackRule, Success
  <2> QED
    BY <2>1, <2>2, <2>3, NodesAre
<1> QED
  BY <1>1, <1>2, EdgeKeepsRule, GraphFields DEF EdgeRules

-----------------------------------------------------------------------------
(* The merged graph is finite, every node of it can be reached, and it has *)
(* no cycle.                                                               *)

LEMMA ImageFinite ==
  ASSUME NEW S, IsFiniteSet(S), NEW f, f = [x \in S |-> f[x]]
  PROVE  IsFiniteSet({f[x] : x \in S})
<1> DEFINE T == {f[x] : x \in S}
<1>1. f \in Surjection(S, T)
  BY DEF Surjection
<1> QED
  BY <1>1, FS_Surjection

LEMMA TreeFinite ==
  ASSUME Recorded_
  PROVE  IsFiniteSet(Tree)
<1> DEFINE P(i) == {Prefix(Keys(i), n) : n \in 0..Len(Path(i))}
           cut(i) == [n \in 0..Len(Path(i)) |-> Prefix(Keys(i), n)]
           all == [i \in Scenarios |-> P(i)]
<1>1. ASSUME NEW i \in Scenarios
      PROVE  IsFiniteSet(P(i))
  <2>1. IsFiniteSet(0..Len(Path(i)))
    BY PathType, FS_Interval
  <2>2. IsFiniteSet({cut(i)[n] : n \in 0..Len(Path(i))})
    <3>1. cut(i) = [n \in 0..Len(Path(i)) |-> cut(i)[n]]
      OBVIOUS
    <3> HIDE DEF cut
    <3> QED
      BY <2>1, <3>1, ImageFinite
  <2>3. {cut(i)[n] : n \in 0..Len(Path(i))} = P(i)
    OBVIOUS
  <2> QED
    BY <2>2, <2>3
<1> HIDE DEF P
<1>2. IsFiniteSet({all[i] : i \in Scenarios})
  <2>1. all = [i \in Scenarios |-> all[i]]
    OBVIOUS
  <2> HIDE DEF all
  <2> QED
    BY <2>1, ImageFinite, CampaignAssumption DEF CampaignAssumption
<1>3. {all[i] : i \in Scenarios} = {P(i) : i \in Scenarios}
  OBVIOUS
<1>4. IsFiniteSet(UNION {P(i) : i \in Scenarios})
  BY <1>1, <1>2, <1>3, FS_UNION
<1> QED
  BY <1>4 DEF Tree, P

LEMMA NodesFinite ==
  ASSUME Recorded_
  PROVE  IsFiniteSet(Nodes)
<1> DEFINE A == [t \in Tree |-> Action(t)]
           D == [t \in Tree |-> Decision(t)]
           AS == {A[t] : t \in Tree}
           DS == {D[t] : t \in Tree}
<1>1. IsFiniteSet(AS)
  <2>1. A = [t \in Tree |-> A[t]]
    OBVIOUS
  <2> HIDE DEF A
  <2> QED
    BY <2>1, TreeFinite, ImageFinite
<1>2. IsFiniteSet(DS)
  <2>1. D = [t \in Tree |-> D[t]]
    OBVIOUS
  <2> HIDE DEF D
  <2> QED
    BY <2>1, TreeFinite, ImageFinite
<1>3. Nodes \subseteq (AS \cup DS) \cup {Success}
  BY NodesAre
<1> HIDE DEF AS, DS
<1>4. IsFiniteSet((AS \cup DS) \cup {Success})
  BY <1>1, <1>2, FS_Union, FS_AddElement
<1> QED
  BY <1>3, <1>4, FS_Subset

\* What follows a tree node in a set that the edges do not leave, and where it can go from there.
LEMMA BranchFollows ==
  ASSUME Recorded_, NEW t \in Tree, NEW b \in Branches(t),
         NEW S, \A n \in S : Successors(Graph, n) \subseteq S, After(t) \in S
  PROVE  b.to \in S
<1>1. CASE Decides(t)
  <2>1. After(t) = Decision(t)
    BY <1>1 DEF After
  <2>2. PICK i \in b.by : TRUE
    BY BranchIs
  <2>3. GuardedEdge(t, b, i) \in Outgoing(Graph, Decision(t)) /\ GuardedEdge(t, b, i).target = b.to
    BY <1>1, OutgoingAre DEF GuardedEdge
  <2>4. b.to \in Successors(Graph, Decision(t))
    BY <2>3 DEF Successors
  <2> QED
    BY <2>1, <2>4
<1>2. CASE ~Decides(t)
  BY <1>2, AfterIs
<1> QED
  BY <1>1, <1>2

\* A tree node that is not the root is a child.
LEMMA ParentIs ==
  ASSUME Recorded_, NEW t \in Tree, t # <<>>
  PROVE  \E p \in Tree : Len(p) = Len(t) - 1 /\ [to |-> Action(t), by |-> Through(t)] \in Branches(p)
<1>1. PICK i \in Through(t) : TRUE
  BY SomeoneThrough
<1>2. /\ i \in Scenarios /\ Len(t) <= Len(Path(i)) /\ t = Prefix(Path(i), Len(t))
      /\ Path(i) \in Seq(ActionNodes) /\ Len(Path(i)) \in Nat /\ Keys(i) = Path(i) /\ Len(t) \in Nat /\ Len(t) # 0
  BY <1>1, ThroughMeans, PathType, TreeType, EmptySeq
<1> DEFINE p == Prefix(Path(i), Len(t) - 1)
<1>3. Len(t) - 1 \in Nat /\ Len(t) - 1 \in 0..Len(Path(i)) /\ Len(t) - 1 <= Len(t) /\ Len(t) - 1 <= Len(Path(i))
  BY <1>2
<1>4. p \in Tree
  BY <1>2, <1>3 DEF Tree
<1>5. Len(p) = Len(t) - 1
  BY <1>2, <1>3, PrefixOf
<1>6. Prefix(t, Len(p)) = p
  BY <1>2, <1>3, <1>5, PrefixOfPrefix
<1>7. t \in Children(p)
  BY <1>2, <1>5, <1>6 DEF Children
<1> QED
  BY <1>4, <1>5, <1>7 DEF Branches

LEMMA GraphReachable ==
  ASSUME Recorded_
  PROVE  AllReachable(Graph)
<1> SUFFICES ASSUME NEW S \in SUBSET Nodes, Closed(Graph, S)
             PROVE  Nodes \subseteq S
  BY GraphFields DEF AllReachable
<1>1. After(<<>>) \in S /\ \A n \in S : Successors(Graph, n) \subseteq S
  BY GraphFields DEF Closed
<1>2. ASSUME NEW t \in Tree, t # <<>>, NEW p \in Tree, After(p) \in S,
             [to |-> Action(t), by |-> Through(t)] \in Branches(p)
      PROVE  Action(t) \in S /\ After(t) \in S
  <2>1. Action(t) \in S
    BY <1>1, <1>2, BranchFollows
  <2>2. After(t) \in Successors(Graph, Action(t))
    <3>1. Always(Action(t), After(t)) \in Outgoing(Graph, Action(t))
      BY <1>2, OutgoingAre
    <3>2. Always(Action(t), After(t)).target = After(t)
      BY DEF Always
    <3> QED
      BY <3>1, <3>2 DEF Successors
  <2> QED
    BY <1>1, <2>1, <2>2
<1> DEFINE missed == {t \in Tree : After(t) \notin S}
           lens == {Len(t) : t \in missed}
<1>3. ASSUME missed # {}
      PROVE  FALSE
  <2>1. lens \in SUBSET Nat /\ lens # {}
    BY <1>3, TreeType
  <2>2. PICK x \in lens : \A y \in lens : x <= y
    BY <2>1, Least
  <2>3. PICK t \in missed : Len(t) = x
    BY <2>2
  <2>4. t \in Tree /\ t # <<>> /\ Len(t) \in Nat
    BY <1>1, <2>3, TreeType
  <2>5. PICK p \in Tree : Len(p) = Len(t) - 1 /\ [to |-> Action(t), by |-> Through(t)] \in Branches(p)
    BY <2>4, ParentIs
  <2>6. ~(x <= Len(p))
    BY <2>3, <2>4, <2>5
  <2>7. p \notin missed
    BY <2>2, <2>6
  <2> QED
    BY <1>2, <2>3, <2>4, <2>5, <2>7
<1>4. \A t \in Tree : After(t) \in S
  BY <1>3
<1>5. \A t \in Tree : t # <<>> => Action(t) \in S
  BY <1>2, <1>4, ParentIs
<1>6. \A t \in Tree : Decides(t) => Decision(t) \in S
  BY <1>4 DEF After
<1>7. Success \in S
  <2>1. PICK i \in Scenarios : TRUE
    BY CampaignAssumption DEF CampaignAssumption
  <2>2. Path(i) \in Seq(ActionNodes) /\ Keys(i) = Path(i) /\ Len(Path(i)) \in Nat
    BY <2>1, PathType
  <2>3. Path(i) = Prefix(Keys(i), Len(Path(i))) /\ Len(Path(i)) \in 0..Len(Path(i))
    BY <2>2, WholePrefix
  <2>4. Path(i) \in Tree
    BY <2>1, <2>3 DEF Tree
  <2>5. i \in Ends(Path(i))
    BY <2>1, <2>2 DEF Ends
  <2>6. [to |-> Success, by |-> Ends(Path(i))] \in Branches(Path(i))
    BY <2>5 DEF Branches
  <2> QED
    BY <1>1, <1>4, <2>4, <2>6, BranchFollows
<1> QED
  BY <1>5, <1>6, <1>7, NodesAre

\* A finite set has an element of the greatest weight: else take the smallest subset without one, and one of its
\* elements away.
LEMMA Heaviest ==
  ASSUME NEW H, IsFiniteSet(H), H # {}, NEW w \in [H -> Nat]
  PROVE  \E e \in H : \A f \in H : w[f] <= w[e]
<1> DEFINE Headless(S) == S # {} /\ ~ \E e \in S : \A f \in S : w[f] <= w[e]
           sizes == {Cardinality(S) : S \in {S \in SUBSET H : Headless(S)}}
<1> SUFFICES ASSUME Headless(H)
             PROVE  FALSE
  OBVIOUS
<1>1. \A S \in SUBSET H : IsFiniteSet(S) /\ Cardinality(S) \in Nat
  BY FS_Subset, FS_CardinalityType
<1>2. sizes \in SUBSET Nat /\ sizes # {}
  BY <1>1
<1>3. PICK k \in sizes : \A j \in sizes : k <= j
  BY <1>2, Least
<1>4. PICK S \in SUBSET H : Headless(S) /\ Cardinality(S) = k
  BY <1>3
<1>5. PICK e \in S : TRUE
  BY <1>4
<1>6. S \ {e} \in SUBSET H /\ Cardinality(S \ {e}) = k - 1 /\ k \in Nat
  BY <1>1, <1>4, <1>5, FS_RemoveElement
<1>7. ~Headless(S \ {e})
  <2>1. ASSUME Headless(S \ {e})
        PROVE  FALSE
    <3>1. Cardinality(S \ {e}) \in sizes
      BY <1>6, <2>1
    <3> HIDE DEF sizes
    <3>2. k <= Cardinality(S \ {e})
      BY <1>3, <3>1
    <3> QED
      BY <1>6, <3>2
  <2> QED
    BY <2>1
<1>8. \A f \in S : w[f] \in Nat
  OBVIOUS
<1>9. \A x \in S : \E f \in S : w[x] < w[f]
  <2> TAKE x \in S
  <2>1. PICK f \in S : ~(w[f] <= w[x])
    BY <1>4
  <2>2. w[x] \in Nat /\ w[f] \in Nat
    BY <1>8
  <2> QED
    BY <2>1, <2>2
<1>10. PICK f \in S : w[e] < w[f]
  BY <1>5, <1>9
<1>11. f \in S \ {e}
  BY <1>8, <1>10
<1>12. PICK m \in S \ {e} : \A h \in S \ {e} : w[h] <= w[m]
  BY <1>7, <1>11
<1>13. PICK h \in S : w[m] < w[h]
  BY <1>9, <1>12
<1>14. h = e
  BY <1>8, <1>12, <1>13
<1> QED
  BY <1>8, <1>10, <1>11, <1>12, <1>13, <1>14

\* How far from the root a node is: every edge leads further away, or to the end, behind which there is none.
Depth(n) == 2 * Len(n.tree) + IF n.kind = "decision" THEN 1 ELSE 0

LEMMA EdgesGoDown ==
  ASSUME Recorded_, NEW n \in Nodes, NEW m \in Successors(Graph, n), m # Success
  PROVE  Depth(n) < Depth(m)
<1>1. PICK e \in Outgoing(Graph, n) : m = e.target
  BY DEF Successors
<1>2. CASE \E t \in Tree : t # <<>> /\ n = Action(t)
  <2>1. PICK t \in Tree : t # <<>> /\ n = Action(t)
    BY <1>2
  <2>2. m = After(t)
    BY <1>1, <2>1, OutgoingAre DEF Always
  <2>3. Len(t) \in Nat /\ Depth(n) = 2 * Len(t)
    BY <2>1, TreeType DEF Depth, Action
  <2>4. CASE Decides(t) /\ After(t) = Decision(t)
    <3>1. m.tree = t /\ m.kind = "decision"
      BY <2>2, <2>4 DEF Decision
    <3>2. Depth(m) = 2 * Len(t) + 1
      BY <2>3, <3>1 DEF Depth
    <3> QED
      BY <2>3, <3>2
  <2>5. CASE \E b \in Branches(t) : After(t) = b.to
    <3>1. PICK u \in Tree : Len(u) = Len(t) + 1 /\ m = Action(u)
      BY <2>2, <2>5, BranchIs
    <3>2. Depth(m) = 2 * Len(u)
      BY <2>3, <3>1 DEF Depth, Action
    <3> QED
      BY <2>3, <3>1, <3>2
  <2> QED
    BY <2>4, <2>5, AfterIs
<1>3. CASE \E t \in Tree : Decides(t) /\ n = Decision(t)
  <2>1. PICK t \in Tree : Decides(t) /\ n = Decision(t)
    BY <1>3
  <2>2. Len(t) \in Nat /\ Depth(n) = 2 * Len(t) + 1
    BY <2>1, TreeType DEF Depth, Decision
  <2>3. PICK b \in Branches(t) : m = b.to
    BY <1>1, <2>1, OutgoingAre DEF GuardedEdge
  <2>4. PICK u \in Tree : Len(u) = Len(t) + 1 /\ m = Action(u)
    BY <2>3, BranchIs
  <2>5. Depth(m) = 2 * Len(u)
    BY <2>2, <2>4 DEF Depth, Action
  <2> QED
    BY <2>2, <2>4, <2>5
<1>4. CASE n = Success
  BY <1>1, <1>4, OutgoingAre
<1> QED
  BY <1>2, <1>3, <1>4, NodesAre

LEMMA DepthType ==
  ASSUME Recorded_, NEW n \in Nodes
  PROVE  Depth(n) \in Nat
<1>1. \A t \in Tree : Len(t) \in Nat
  BY TreeType
<1>2. CASE \E t \in Tree : n = Action(t)
  BY <1>1, <1>2 DEF Depth, Action
<1>3. CASE \E t \in Tree : n = Decision(t)
  BY <1>1, <1>3 DEF Depth, Decision
<1>4. CASE n = Success
  BY <1>4 DEF Depth, Success
<1> QED
  BY <1>2, <1>3, <1>4, NodesAre

LEMMA GraphAcyclic ==
  ASSUME Recorded_
  PROVE  Acyclic(Graph)
<1> SUFFICES ASSUME NEW S \in SUBSET Nodes, S # {}, \A n \in S : Successors(Graph, n) \cap S # {}
             PROVE  FALSE
  BY GraphFields DEF Acyclic
<1> DEFINE w == [n \in S |-> Depth(n)]
<1>1. w \in [S -> Nat]
  BY DepthType
<1>2. IsFiniteSet(S)
  BY NodesFinite, FS_Subset
<1>3. Success \notin S
  BY OutgoingAre DEF Successors
<1> HIDE DEF w
<1>4. PICK e \in S : \A f \in S : w[f] <= w[e]
  BY <1>1, <1>2, Heaviest
<1>5. PICK m \in S : m \in Successors(Graph, e)
  OBVIOUS
<1>6. Depth(e) < Depth(m)
  BY <1>3, <1>5, EdgesGoDown
<1>7. Depth(m) <= Depth(e) /\ Depth(m) \in Nat /\ Depth(e) \in Nat
  BY <1>4, <1>5, DepthType DEF w
<1> QED
  BY <1>6, <1>7

LEMMA GraphIsValid ==
  ASSUME Recorded_
  PROVE  Rules(Graph) /\ Connected(Graph)
<1>1. Rules(Graph)
  BY InputsKeepRules, NodesKeepRules, EntryKeepsRule, EdgesKeepRules DEF Rules
<1>2. IsFiniteSet(Graph.nodes) /\ Graph.entry \in Graph.nodes
  BY NodesFinite, EntryKeepsRule, GraphFields DEF EntryRule
<1>3. \A n \in Graph.nodes : Successors(Graph, n) \subseteq Graph.nodes
  <2>1. \A e \in Edges : e.target \in Nodes
    BY EdgeKeepsRule, GraphFields DEF EdgeRule
  <2> QED
    BY <2>1, GraphFields DEF Successors, Outgoing
<1> QED
  BY <1>1, <1>2, <1>3, GraphAcyclic, GraphReachable, ConnectedWhen

\* merge_traces ends in validate: whatever traces are recorded, when they agree validate accepts the graph, so a
\* campaign never fails there after all its discoveries were paid for.
THEOREM AgreementSuffices == Spec => []AgreementIsEnough
<1> DEFINE Inv == Recorded_ /\ AgreementIsEnough
<1>1. Init => Inv
  BY DEF Init, Recorded_, AgreementIsEnough
<1>2. Inv /\ [Next]_vars => Inv'
  <2> SUFFICES ASSUME Inv, [Next]_vars
               PROVE  Inv'
    OBVIOUS
  <2>1. CASE merge_traces
    <3>1. UNCHANGED traces /\ (merged' # "invalid" \/ ~(Rules(Graph) /\ Connected(Graph)))
      BY <2>1 DEF merge_traces
    <3> QED
      BY <3>1, GraphIsValid DEF Recorded_, AgreementIsEnough
  <2>2. CASE Begin \/ CheckInputs \/ Perform \/ Decide \/ Finish \/ Over \/ UNCHANGED vars
    <3>1. UNCHANGED <<traces, merged>>
      BY <2>2 DEF Begin, CheckInputs, Perform, Decide, Finish, Over, vars
    <3> QED
      BY <3>1 DEF Recorded_, AgreementIsEnough
  <2> QED
    BY <2>1, <2>2 DEF Next
<1>3. Inv => AgreementIsEnough
  OBVIOUS
<1> QED
  BY <1>1, <1>2, <1>3, PTL DEF Spec
=============================================================================
