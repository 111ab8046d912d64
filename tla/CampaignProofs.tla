--------------------------- MODULE CampaignProofs ---------------------------
(***************************************************************************)
(* Theorems about Campaign, for every number of scenarios, every declared  *)
(* outcome, every disk and every number of runs: a graph that was ever     *)
(* saved holds the agreeing traces of all the scenarios, and what the      *)
(* reviewer declared stands in it.                                         *)
(***************************************************************************)
EXTENDS Campaign, TLAPS

\* The frame conditions of Campaign.
USE DEF vars, records, merge, directory

Traces == [contract : Contracts \cup {"none"}, outcomes : SUBSET Outcomes]

\* The reviewer's definitions are in the trace, and nothing else under their codes.
Told(t) ==
    /\ DeclaredOutcomes \subseteq t.outcomes
    /\ \A o \in t.outcomes : o.code \in DOMAIN Declared => o \in DeclaredOutcomes

Sound(g) ==
    /\ g.traces \in Seq(Traces) /\ Len(g.traces) = N
    /\ \A i, j \in 1..N : g.traces[i].contract = g.traces[j].contract
    /\ \A i \in 1..N : Told(g.traces[i])
    /\ g.outcomes = {[code |-> o.code, means |-> o.means] : o \in UNION {g.traces[i].outcomes : i \in 1..N}}

DiskSound ==
    /\ disk = [v \in Versions |-> disk[v]]
    /\ \A v \in Versions : disk[v] \in {Absent, Empty, Torn, Other} \/ Sound(disk[v])

CampaignInv ==
    /\ at \in 0..N
    /\ built \in Traces /\ traces \in Seq(Traces)
    /\ \A i \in 1..Len(traces) : Told(traces[i])
    /\ pc = "keep" => Told(built)
    /\ pc = "resolve" => at = 0
    /\ pc \in {"resolve", "next"} => Len(traces) = at
    /\ pc \in {"discover", "reconcile", "keep"} => at >= 1 /\ Len(traces) = at - 1
    /\ pc \in {"save", "open", "write"} => Len(traces) = N /\ Compatible
    /\ DiskSound

LEMMA CampaignInit == Init => CampaignInv
<1> SUFFICES ASSUME Init PROVE CampaignInv
  OBVIOUS
<1>1. N \in Nat \ {0}
  BY CampaignAssumption DEF CampaignAssumption
<1>2. NoTrace \in Traces
  BY DEF NoTrace, Traces
<1> QED
  BY <1>1, <1>2 DEF Init, CampaignInv, DiskSound, Outcomes

\* What `discover` built is a trace of the model, and reconciling it makes it tell what the reviewer said.
LEMMA DiscoverBuilds ==
  ASSUME Discover
  PROVE  built' \in Traces
<1>1. PICK c \in Contracts, planned \in UNION {kSubset(k, [code : Codes, means : Meanings]) : k \in 0..MaxPlanned} :
        built' = [contract |-> c,
                  outcomes |-> {[code |-> o.code, means |-> o.means, source |-> "planner"] : o \in planned} \cup DeclaredOutcomes]
  BY DEF Discover
<1>2. planned \subseteq [code : Codes, means : Meanings]
  BY DEF kSubset
<1>3. {[code |-> o.code, means |-> o.means, source |-> "planner"] : o \in planned} \subseteq Outcomes
  BY <1>2 DEF Outcomes
<1>4. DeclaredOutcomes \subseteq Outcomes
  BY CampaignAssumption DEF CampaignAssumption, DeclaredOutcomes, Outcomes
<1> QED
  BY <1>1, <1>3, <1>4 DEF Traces

LEMMA ReconcileTells ==
  ASSUME Reconcile, built \in Traces
  PROVE  built' \in Traces /\ Told(built')
<1> DEFINE O == reconcile_outcomes(built.outcomes \ DeclaredOutcomes)
<1>1. built' = [built EXCEPT !.outcomes = O]
  BY DEF Reconcile
<1>2. DeclaredOutcomes \subseteq Outcomes
  BY CampaignAssumption DEF CampaignAssumption, DeclaredOutcomes, Outcomes
<1>3. O \subseteq Outcomes
  BY <1>2 DEF reconcile_outcomes, Traces
<1>4. DeclaredOutcomes \subseteq O /\ \A o \in O : o.code \in DOMAIN Declared => o \in DeclaredOutcomes
  BY DEF reconcile_outcomes
<1> HIDE DEF O
<1>5. built' \in Traces /\ built'.outcomes = O
  BY <1>1, <1>3 DEF Traces
<1> QED
  BY <1>4, <1>5 DEF Told

LEMMA KeepTells ==
  ASSUME CampaignInv, KeepTrace
  PROVE  /\ traces' \in Seq(Traces) /\ Len(traces') = at
         /\ \A i \in 1..Len(traces') : Told(traces'[i])
<1>1. /\ traces \in Seq(Traces) /\ built \in Traces /\ Told(built) /\ Len(traces) = at - 1 /\ at \in Int
      /\ \A i \in 1..Len(traces) : Told(traces[i])
      /\ traces' = Append(traces, built)
  BY CampaignAssumption DEF CampaignInv, KeepTrace, CampaignAssumption
<1>2. traces' \in Seq(Traces) /\ Len(traces') = at
  BY <1>1
<1>3. ASSUME NEW i \in 1..Len(traces') PROVE traces'[i] \in {built} \cup {traces[j] : j \in 1..Len(traces)}
  BY <1>1, <1>3
<1> QED
  BY <1>1, <1>2, <1>3

\* What is written is the graph of all the traces.
LEMMA WriteIsSound ==
  ASSUME CampaignInv, WriteFile
  PROVE  Sound(Graph)
<1>1. /\ traces \in Seq(Traces) /\ Len(traces) = N /\ Compatible
      /\ \A i \in 1..Len(traces) : Told(traces[i])
  BY DEF CampaignInv, WriteFile
<1>2. DOMAIN traces = 1..N
  BY <1>1
<1>3. \A i, j \in 1..N : traces[i].contract = traces[j].contract
  BY <1>1, <1>2 DEF Compatible
<1> HIDE DEF Told
<1> QED
  BY <1>1, <1>2, <1>3 DEF Sound, Graph

LEMMA DiskStep ==
  ASSUME CampaignInv, [Next]_vars
  PROVE  DiskSound'
<1>0. DiskSound
  BY DEF CampaignInv
\* Every step leaves the disk as it is or puts one content into one file.
<1>1. ASSUME NEW v \in Versions, NEW c, disk' = [disk EXCEPT ![v] = c], c \in {Absent, Empty, Torn, Other} \/ Sound(c)
      PROVE  DiskSound'
  BY <1>0, <1>1 DEF DiskSound
<1>2. ASSUME NEW v, v \notin Versions, NEW c, disk' = [disk EXCEPT ![v] = c]
      PROVE  DiskSound'
  BY <1>0, <1>2 DEF DiskSound
<1>3. ASSUME UNCHANGED disk
      PROVE  DiskSound'
  BY <1>0, <1>3 DEF DiskSound
<1>4. CASE WriteFile
  <2>1. Sound(Graph)
    BY <1>4, WriteIsSound
  <2>2. disk' = [disk EXCEPT ![version] = Graph] \/ disk' = [disk EXCEPT ![version] = Torn]
    BY <1>4 DEF WriteFile, Put
  <2> HIDE DEF DiskSound
  <2> QED
    BY <2>1, <2>2, <1>1, <1>2
<1>5. CASE OpenFile
  BY <1>5, <1>1, <1>2 DEF OpenFile
<1>6. CASE WriteFails
  BY <1>6, <1>1, <1>2, <1>3 DEF WriteFails, HalfWritten
<1>7. CASE OtherSaves
  <2>1. PICK r \in Recorders : OtherRecords(r) \/ OtherFindsFree(r) \/ OtherOpens(r) \/ OtherWrites(r) \/ OtherStops(r)
    BY <1>7 DEF OtherSaves
  <2>2. CASE OtherRecords(r) \/ OtherFindsFree(r)
    BY <2>2, <1>3 DEF OtherRecords, OtherFindsFree
  <2>3. CASE OtherOpens(r)
    BY <2>3, <1>1, <1>2 DEF OtherOpens
  <2>4. CASE OtherWrites(r)
    BY <2>4, <1>1, <1>2 DEF OtherWrites, Put
  <2>5. CASE OtherStops(r)
    BY <2>5, <1>1, <1>2, <1>3 DEF OtherStops
  <2> QED
    BY <2>1, <2>2, <2>3, <2>4, <2>5
<1>8. CASE UNCHANGED vars \/ ~(WriteFile \/ OpenFile \/ WriteFails \/ OtherSaves)
  <2>1. UNCHANGED disk
    BY <1>8 DEF Next, ResolveReuse, StartScenario, Discover, Reconcile, DiscoveryFails, KeepTrace, KeepFails, MergeTraces,
         SaveRefused, PathIsFree, Finish, LogFails, Dies, Rerun, Done
  <2> QED
    BY <2>1, <1>3
<1> QED
  BY <1>4, <1>5, <1>6, <1>7, <1>8

\* Another recorder touches nothing of the campaign but the directory.
LEMMA OthersApart ==
  ASSUME OtherSaves
  PROVE  UNCHANGED <<pc, runs, records, evidence, built, merge, verdict, summary>>
  BY DEF OtherSaves, OtherRecords, OtherFindsFree, OtherOpens, OtherWrites, OtherStops, OtherDoes

LEMMA CampaignStep ==
  ASSUME CampaignInv, [Next]_vars
  PROVE  CampaignInv'
<1>0. N \in Nat \ {0} /\ DiskSound'
  BY CampaignAssumption, DiskStep DEF CampaignAssumption
<1>1. CASE UNCHANGED vars \/ Done \/ OtherSaves \/ PathIsFree \/ OpenFile
  <2>1. /\ UNCHANGED <<at, built, traces>> /\ Compatible' = Compatible
        /\ pc' = pc \/ (pc = "save" /\ pc' = "open") \/ (pc = "open" /\ pc' = "write")
    BY <1>1, OthersApart DEF Done, PathIsFree, OpenFile, Compatible, Conflicts
  <2> QED
    BY <2>1, <1>0 DEF CampaignInv
<1>2. CASE Discover
  BY <1>0, <1>2, DiscoverBuilds DEF CampaignInv, Discover
<1>3. CASE Reconcile
  BY <1>0, <1>3, ReconcileTells DEF CampaignInv, Reconcile
<1>4. CASE DiscoveryFails \/ KeepFails
  <2>1. NoTrace \in Traces
    BY DEF NoTrace, Traces
  <2> QED
    BY <2>1, <1>0, <1>4 DEF CampaignInv, DiscoveryFails, KeepFails, ScenarioFailed, EndWith
<1>5. CASE KeepTrace
  <2>1. /\ pc' = "next" /\ UNCHANGED at /\ built' = NoTrace
    BY <1>5 DEF KeepTrace
  <2>2. at \in 0..N /\ NoTrace \in Traces
    BY DEF CampaignInv, NoTrace, Traces
  <2> QED
    BY <2>1, <2>2, <1>0, <1>5, KeepTells DEF CampaignInv
<1>6. CASE MergeTraces
  <2>1. at = N /\ Len(traces) = N
    BY <1>6 DEF MergeTraces, CampaignInv
  <2>2. CASE Compatible /\ next_version \in Versions
    BY <2>1, <2>2, <1>0, <1>6 DEF CampaignInv, MergeTraces, Compatible, Conflicts
  <2>3. CASE ~(Compatible /\ next_version \in Versions)
    BY <2>3, <1>0, <1>6 DEF CampaignInv, MergeTraces, EndWith
  <2> QED
    BY <2>2, <2>3
<1>7. CASE SaveRefused \/ WriteFile \/ WriteFails \/ Finish \/ LogFails \/ Dies
  BY <1>0, <1>7 DEF CampaignInv, SaveRefused, WriteFile, WriteFails, HalfWritten, EndWith, Finish, LogFails, Dies
<1>8. CASE Rerun
  <2>1. NoTrace \in Traces
    BY DEF NoTrace, Traces
  <2> QED
    BY <2>1, <1>0, <1>8 DEF CampaignInv, Rerun
<1>9. CASE ResolveReuse
  BY <1>0, <1>9 DEF CampaignInv, ResolveReuse, EndWith
<1>10. CASE StartScenario
  BY <1>0, <1>10 DEF CampaignInv, StartScenario
<1> QED
  BY <1>1, <1>2, <1>3, <1>4, <1>5, <1>6, <1>7, <1>8, <1>9, <1>10 DEF Next

LEMMA CampaignHolds == Spec => []CampaignInv
  BY CampaignInit, CampaignStep, PTL DEF Spec

\* run_campaign, "Only when every scenario succeeded": whatever fails or dies, and however often the campaign is run,
\* a graph that was ever saved holds the traces of all the scenarios, and they agree.
THEOREM SavedIsWhole == Spec => []AllOrNothing
<1>1. CampaignInv => AllOrNothing
  BY DEF CampaignInv, DiskSound, AllOrNothing, Graphs, Sound
<1> QED
  BY <1>1, CampaignHolds, PTL

\* reconcile_outcomes: in a saved graph a declared code means what the reviewer said and nothing else, whatever the
\* planners declared, and no other outcome is lost.
THEOREM ReviewerStands == Spec => []ReviewerWins
<1>1. ASSUME CampaignInv, NEW g \in Graphs, NEW c \in Codes
      PROVE  LET meanings == {o.means : o \in {p \in g.outcomes : p.code = c}}
                 recorded == {o.means : o \in {p \in UNION {g.traces[i].outcomes : i \in 1..N} : p.code = c}}
             IN  IF c \in DOMAIN Declared THEN meanings = {Declared[c]} ELSE meanings = recorded
  <2> DEFINE All == UNION {g.traces[i].outcomes : i \in 1..N}
             meanings == {o.means : o \in {p \in g.outcomes : p.code = c}}
             recorded == {o.means : o \in {p \in All : p.code = c}}
  <2>1. Sound(g)
    BY <1>1 DEF CampaignInv, DiskSound, Graphs
  <2>2. meanings = recorded
    <3>1. g.outcomes = {[code |-> o.code, means |-> o.means] : o \in All}
      BY <2>1 DEF Sound
    <3>2. ASSUME NEW o \in All, o.code = c PROVE o.means \in meanings
      <4>1. [code |-> o.code, means |-> o.means] \in g.outcomes
        BY <3>1
      <4> QED
        BY <4>1, <3>2
    <3>3. ASSUME NEW p \in g.outcomes, p.code = c PROVE p.means \in recorded
      BY <3>1, <3>3
    <3> QED
      BY <3>2, <3>3
  <2>3. ASSUME c \in DOMAIN Declared PROVE recorded = {Declared[c]}
    <3> DEFINE d == [code |-> c, means |-> Declared[c], source |-> "reviewer"]
    <3>1. 1 \in 1..N
      BY CampaignAssumption DEF CampaignAssumption
    <3>2. d \in DeclaredOutcomes
      BY <2>3 DEF DeclaredOutcomes
    <3>3. d \in All
      BY <2>1, <3>1, <3>2 DEF Sound, Told
    <3>4. ASSUME NEW o \in All, o.code = c PROVE o.means = Declared[c]
      <4>1. o \in DeclaredOutcomes
        BY <2>1, <2>3, <3>4 DEF Sound, Told
      <4> QED
        BY <4>1, <3>4 DEF DeclaredOutcomes
    <3> QED
      BY <3>3, <3>4
  <2> QED
    BY <2>2, <2>3
<1>2. CampaignInv => ReviewerWins
  BY <1>1 DEF ReviewerWins
<1> QED
  BY <1>2, CampaignHolds, PTL

\* reconcile_outcomes, "never fails the scenario": no two traces disagree about a code the reviewer declared.
THEOREM DeclaredAgree == Spec => []DeclaredNeverConflict
<1>1. CampaignInv => DeclaredNeverConflict
  <2> SUFFICES ASSUME CampaignInv, NEW c \in Conflicts, c \in DOMAIN Declared PROVE FALSE
    BY DEF DeclaredNeverConflict
  <2>1. PICK i, j \in DOMAIN traces : \E o \in traces[i].outcomes, p \in traces[j].outcomes :
          o.code = c /\ p.code = c /\ o.means # p.means
    BY DEF Conflicts
  <2>2. Told(traces[i]) /\ Told(traces[j])
    BY DEF CampaignInv
  <2>3. ASSUME NEW o \in traces[i].outcomes \cup traces[j].outcomes, o.code = c PROVE o.means = Declared[c]
    BY <2>2, <2>3 DEF Told, DeclaredOutcomes
  <2> QED
    BY <2>1, <2>3
<1> QED
  BY <1>1, CampaignHolds, PTL

-----------------------------------------------------------------------------
(***************************************************************************)
(* The summary.  What it will say is settled step by step: each call of    *)
(* the campaign leaves the records of the scenarios as far as it came, and *)
(* whoever else saves touches only files whose path it had found free.     *)
(***************************************************************************)
\* How far the records of the scenarios have come.
Upto(k, last) ==
  \A i \in 1..N : status[i] = (IF i < k THEN "succeeded" ELSE IF i = k THEN last ELSE "absent")

Progressed ==
    /\ pc = "resolve" => Upto(0, "absent")
    /\ pc = "next" => Upto(at + 1, "absent")
    /\ pc \in {"discover", "reconcile", "keep"} => Upto(at, "pending")
    /\ pc \in {"save", "open", "write"} => Upto(N + 1, "absent")
    /\ pc = "finish" =>
         \/ verdict = "reuse_misconfigured" /\ Upto(0, "absent")
         \/ verdict = "failed" /\ at \in 1..N /\ Upto(at, "failed")
         \/ verdict \in {"merge_failed", "succeeded"} /\ Upto(N + 1, "absent")

Written ==
    /\ pc \in {"save", "open", "write"} => version \in Versions
    /\ pc = "write" => disk[version] = Empty \/ version \in found
    /\ pc = "finish" /\ verdict = "succeeded" => version \in Versions /\ (disk[version] = Graph \/ version \in found)

\* Who is about to open or write a file found its path free.
FoundFirst ==
    /\ others = [r \in Recorders |-> others[r]]
    /\ \A r \in Recorders : others[r].does \in {"open", "write"} => others[r].version \in found

NamedFirst == \A i \in 1..N : status[i] = "succeeded" => i \in named

Summed ==
    /\ pc \notin {"saved", "failed"} => summary = NoSummary
    /\ summary # NoSummary =>
         /\ Stopped(summary)
         /\ {i \in 1..N : summary.scenarios[i] = "succeeded"} \subseteq summary.named
         /\ summary.status = "succeeded" =>
              summary.artifact \in Versions /\ (disk[summary.artifact] = Graph \/ summary.artifact \in found)

StatusOK == status \in [1..N -> {"absent", "pending", "succeeded", "failed"}]

SummaryInv == StatusOK /\ Progressed /\ Written /\ NamedFirst /\ Summed

LEMMA SummaryInit == Init => SummaryInv /\ FoundFirst
  BY DEF Init, SummaryInv, StatusOK, Progressed, Upto, Written, FoundFirst, Idle, NamedFirst, Summed

\* Whoever else saves keeps to the files whose path somebody else than the campaign found free.
LEMMA OthersKeep ==
  ASSUME OtherSaves, DiskSound, FoundFirst
  PROVE  /\ found \subseteq found' /\ FoundFirst'
         /\ \A v \in Versions : v \notin found' => disk'[v] = disk[v]
<1>1. PICK r \in Recorders : OtherRecords(r) \/ OtherFindsFree(r) \/ OtherOpens(r) \/ OtherWrites(r) \/ OtherStops(r)
  BY DEF OtherSaves
<1>2. CASE OtherRecords(r)
  BY <1>2 DEF OtherRecords, OtherDoes, FoundFirst
<1>3. CASE OtherFindsFree(r)
  BY <1>3 DEF OtherFindsFree, OtherDoes, FoundFirst
<1>4. CASE OtherOpens(r)
  <2>1. others[r].version \in found /\ UNCHANGED found /\ disk' = [disk EXCEPT ![others[r].version] = Empty]
    BY <1>4 DEF OtherOpens, FoundFirst
  <2>2. FoundFirst'
    BY <2>1, <1>4 DEF OtherOpens, OtherDoes, FoundFirst
  <2> QED
    BY <2>1, <2>2 DEF DiskSound
<1>5. CASE OtherWrites(r)
  <2>1. others[r].version \in found /\ UNCHANGED found
    BY <1>5 DEF OtherWrites, FoundFirst
  <2>2. FoundFirst'
    BY <2>1, <1>5 DEF OtherWrites, Idle, FoundFirst
  <2>3. PICK c : disk' = [disk EXCEPT ![others[r].version] = c]
    BY <1>5 DEF OtherWrites, Put
  <2> QED
    BY <2>1, <2>2, <2>3 DEF DiskSound
<1>6. CASE OtherStops(r)
  <2>1. FoundFirst' /\ UNCHANGED found
    BY <1>6 DEF OtherStops, Idle, FoundFirst
  <2>2. CASE others[r].does = "write" /\ disk' = [disk EXCEPT ![others[r].version] = Torn]
    BY <2>1, <2>2 DEF DiskSound, FoundFirst
  <2> QED
    BY <2>1, <2>2, <1>6 DEF OtherStops
<1> QED
  BY <1>1, <1>2, <1>3, <1>4, <1>5, <1>6

LEMMA FoundStep ==
  ASSUME FoundFirst, DiskSound, [Next]_vars
  PROVE  FoundFirst'
<1>1. CASE OtherSaves
  BY <1>1, OthersKeep
<1>2. CASE UNCHANGED vars \/ ~OtherSaves
  <2>1. UNCHANGED <<others, found>>
    BY <1>2 DEF Next, ResolveReuse, StartScenario, Discover, Reconcile, DiscoveryFails, KeepTrace, KeepFails, MergeTraces,
         SaveRefused, PathIsFree, OpenFile, WriteFile, WriteFails, HalfWritten, Finish, LogFails, Dies, Rerun, Done
  <2> QED
    BY <2>1 DEF FoundFirst
<1> QED
  BY <1>1, <1>2

LEMMA SummaryStep ==
  ASSUME CampaignInv, SummaryInv, FoundFirst, [Next]_vars
  PROVE  SummaryInv'
<1>0. N \in Nat \ {0} /\ at \in 0..N /\ StatusOK /\ DiskSound
  BY CampaignAssumption DEF CampaignAssumption, CampaignInv, SummaryInv
<1>1. CASE UNCHANGED vars \/ Done
  <2>1. UNCHANGED <<pc, at, status, named, version, disk, found, verdict, summary, traces>> /\ Graph' = Graph
    BY <1>1 DEF Done, Graph
  <2> QED
    BY <2>1 DEF SummaryInv, StatusOK, Progressed, Upto, Written, NamedFirst, Summed
<1>2. CASE ResolveReuse
  <2>1. Progressed'
    BY <1>0, <1>2 DEF ResolveReuse, EndWith, CampaignInv, SummaryInv, Progressed, Upto
  <2> QED
    BY <2>1, <1>2 DEF ResolveReuse, EndWith, SummaryInv, StatusOK, Written, NamedFirst, Summed
<1>3. CASE StartScenario
  <2>1. Progressed' /\ StatusOK' /\ NamedFirst'
    BY <1>0, <1>3 DEF StartScenario, SummaryInv, Progressed, Upto, StatusOK, NamedFirst
  <2> QED
    BY <2>1, <1>3 DEF StartScenario, SummaryInv, Written, Summed
<1>4. CASE Discover \/ Reconcile
  BY <1>4 DEF Discover, Reconcile, SummaryInv, StatusOK, Progressed, Upto, Written, NamedFirst, Summed
<1>5. CASE DiscoveryFails \/ KeepFails
  <2>1. Progressed' /\ StatusOK' /\ NamedFirst'
    BY <1>0, <1>5 DEF DiscoveryFails, KeepFails, ScenarioFailed, EndWith, CampaignInv, SummaryInv, Progressed, Upto,
        StatusOK, NamedFirst
  <2> QED
    BY <2>1, <1>5 DEF DiscoveryFails, KeepFails, ScenarioFailed, EndWith, SummaryInv, Written, Summed
<1>6. CASE KeepTrace
  <2>0. /\ at \in 1..N /\ Upto(at, "pending") /\ pc' = "next" /\ UNCHANGED at
        /\ status' = [status EXCEPT ![at] = "succeeded"] /\ named' = named \cup {at}
    BY <1>0, <1>6 DEF KeepTrace, CampaignInv, SummaryInv, Progressed
  <2>1. Progressed' /\ StatusOK' /\ NamedFirst'
    BY <1>0, <2>0 DEF SummaryInv, Progressed, Upto, StatusOK, NamedFirst
  <2> QED
    BY <2>1, <1>6 DEF KeepTrace, SummaryInv, Written, Summed
<1>7. CASE MergeTraces
  <2>1. Progressed'
    BY <1>0, <1>7 DEF MergeTraces, EndWith, SummaryInv, Progressed, Upto
  <2> QED
    BY <2>1, <1>7 DEF MergeTraces, EndWith, SummaryInv, StatusOK, Written, NamedFirst, Summed
<1>8. CASE SaveRefused \/ PathIsFree \/ WriteFails
  BY <1>8 DEF SaveRefused, PathIsFree, WriteFails, HalfWritten, EndWith, SummaryInv, StatusOK, Progressed, Upto, Written, NamedFirst, Summed
<1>9. CASE OpenFile
  <2>1. version \in Versions /\ disk'[version] = Empty
    BY <1>0, <1>9 DEF OpenFile, SummaryInv, Written, DiskSound
  <2> QED
    BY <2>1, <1>9 DEF OpenFile, SummaryInv, StatusOK, Progressed, Upto, Written, NamedFirst, Summed
<1>10. CASE WriteFile
  <2>1. version \in Versions /\ Graph' = Graph /\ UNCHANGED <<version, found>>
    BY <1>10 DEF WriteFile, SummaryInv, Written, Graph
  <2>2. disk'[version] = Graph \/ version \in found
    <3>1. disk[version] = Empty => disk' = [disk EXCEPT ![version] = Graph]
      BY <1>10 DEF WriteFile, Put
    <3> QED
      BY <2>1, <3>1, <1>0, <1>10 DEF WriteFile, SummaryInv, Written, DiskSound
  <2> QED
    BY <2>1, <2>2, <1>10 DEF WriteFile, EndWith, SummaryInv, StatusOK, Progressed, Upto, Written, NamedFirst, Summed
<1>11. CASE Finish
  <2>1. /\ summary' = [status |-> verdict, artifact |-> IF verdict = "succeeded" THEN version ELSE 0,
                       scenarios |-> status, named |-> named]
        /\ pc' \in {"saved", "failed"} /\ Graph' = Graph /\ UNCHANGED <<status, named, disk, found>>
    BY <1>11 DEF Finish, Graph
  <2>2. Stopped(summary')
    <3>1. CASE verdict = "failed" /\ at \in 1..N /\ Upto(at, "failed")
      BY <2>1, <3>1 DEF Stopped, Upto
    <3>2. CASE verdict = "reuse_misconfigured" /\ Upto(0, "absent")
      BY <1>0, <2>1, <3>2 DEF Stopped, Upto
    <3>3. CASE verdict \in {"merge_failed", "succeeded"} /\ Upto(N + 1, "absent")
      BY <1>0, <2>1, <3>3 DEF Stopped, Upto
    <3> QED
      BY <1>11, <3>1, <3>2, <3>3 DEF Finish, SummaryInv, Progressed
  <2>3. /\ {i \in 1..N : summary'.scenarios[i] = "succeeded"} \subseteq summary'.named
        /\ summary'.status = "succeeded" =>
             summary'.artifact \in Versions /\ (disk'[summary'.artifact] = Graph' \/ summary'.artifact \in found')
    BY <1>11, <2>1 DEF Finish, SummaryInv, NamedFirst, Written
  <2>4. Summed'
    BY <2>1, <2>2, <2>3 DEF Summed, Stopped
  <2> QED
    BY <2>1, <2>4, <1>11 DEF SummaryInv, StatusOK, Progressed, Written, NamedFirst
<1>12. CASE LogFails \/ Dies
  BY <1>12 DEF LogFails, Dies, Over, SummaryInv, StatusOK, Progressed, Written, NamedFirst, Summed
<1>13. CASE Rerun
  BY <1>0, <1>13 DEF Rerun, SummaryInv, StatusOK, Progressed, Upto, Written, NamedFirst, Summed
<1>14. CASE OtherSaves
  <2>1. UNCHANGED <<pc, at, status, named, version, verdict, summary>> /\ Graph' = Graph
    BY <1>14, OthersApart DEF Graph
  <2>2. /\ found \subseteq found'
        /\ \A v \in Versions : v \notin found' => disk'[v] = disk[v]
    BY <1>0, <1>14, OthersKeep
  <2>3. Written' /\ Summed'
    BY <2>1, <2>2 DEF SummaryInv, Written, Summed, Stopped
  <2> QED
    BY <2>1, <2>3 DEF SummaryInv, StatusOK, Progressed, Upto, NamedFirst
<1> QED
  BY <1>1, <1>2, <1>3, <1>4, <1>5, <1>6, <1>7, <1>8, <1>9, <1>10, <1>11, <1>12, <1>13, <1>14 DEF Next

\* finish: the summary tells how far the campaign came, whatever failed, and the graph it names is on disk, whoever
\* else saves, unless another recorder found the same path free, for any number of scenarios, recorders and runs.
THEOREM SummaryIsTrue == Spec => []SummaryTells
<1>1. SummaryInv => SummaryTells
  BY DEF SummaryInv, Summed, SummaryTells
<1>2. CampaignInv /\ FoundFirst /\ [Next]_vars => FoundFirst'
  BY FoundStep DEF CampaignInv
<1>3. CampaignInv /\ FoundFirst /\ SummaryInv /\ [Next]_vars => SummaryInv'
  BY SummaryStep
<1> QED
  BY <1>1, <1>2, <1>3, SummaryInit, CampaignHolds, PTL DEF Spec
=============================================================================
