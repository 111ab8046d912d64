------------------------------ MODULE Campaign ------------------------------
(***************************************************************************)
(* A campaign (campaign.py): the declared scenarios are discovered one     *)
(* after another, and only when all succeeded are their traces merged and  *)
(* one draft is saved.  What a discovery does is module Discovery, how     *)
(* traces become a graph is module Merge; here they succeed, fail and      *)
(* disagree.  The file system is shared with other recorders, may fail at  *)
(* any write, and keeps what a crash leaves; a campaign may be run again.  *)
(***************************************************************************)
EXTENDS Integers, Sequences, FiniteSetsExt

CONSTANTS
    N,            \* the number of scenarios
    Codes, Meanings,
    Declared,     \* the outcomes of the specification: a function from codes to meanings
    Contracts,    \* what a trace may say the capability is
    DiskFails,    \* whether a write may fail
    Interrupted,  \* whether the process may die
    Recorders,    \* the other discoveries and campaigns that save under the name
    MaxVersion, MaxRuns, MaxPlanned \* bound the model: files, campaigns, outcomes of one trace that a planner declared

Versions == 1..MaxVersion
Outcomes == [code : Codes, means : Meanings, source : {"planner", "reviewer"}]
DeclaredOutcomes == {[code |-> c, means |-> Declared[c], source |-> "reviewer"] : c \in DOMAIN Declared}

ASSUME CampaignAssumption ==
    /\ N \in Nat \ {0} /\ MaxVersion \in Nat \ {0} /\ MaxRuns \in Nat \ {0} /\ MaxPlanned \in Nat
    /\ DOMAIN Declared \subseteq Codes /\ \A c \in DOMAIN Declared : Declared[c] \in Meanings
    /\ DiskFails \in BOOLEAN /\ Interrupted \in BOOLEAN

VARIABLES
    pc, runs,
    at,         \* the scenario in work
    status,     \* per scenario, the status of its record
    named,      \* the scenarios whose record names their evidence
    evidence,   \* the scenarios whose evidence is in its directory
    built,      \* the artifact discovery just built
    traces,
    version,    \* the version next_version gave the merged graph
    disk,
    others,     \* what each other recorder is about to do to which version
    found,      \* history: the versions of which another recorder found the path free
    verdict,    \* the status `finish` is called with
    summary

records == <<at, status, named>>
merge == <<traces, version>>
directory == <<disk, others, found>>
vars == <<pc, runs, records, evidence, built, merge, directory, verdict, summary>>

NoTrace == [contract |-> "none", outcomes |-> {}]
NoSummary == [status |-> "none", artifact |-> 0, scenarios |-> <<>>, named |-> {}]
Absent == [kind |-> "absent", traces |-> <<>>, outcomes |-> {}]
Empty == [Absent EXCEPT !.kind = "empty"]
Torn == [Absent EXCEPT !.kind = "torn"]
Other == [Absent EXCEPT !.kind = "other"]
Idle == [does |-> "nothing", version |-> 0]
Over == {"saved", "failed", "escaped", "died"}

Init ==
    /\ pc = "resolve" /\ runs = 1 /\ disk = [v \in Versions |-> Absent]
    /\ others = [r \in Recorders |-> Idle] /\ found = {}
    /\ at = 0 /\ status = [i \in 1..N |-> "absent"] /\ named = {} /\ evidence = {}
    /\ built = NoTrace /\ traces = <<>> /\ version = 0 /\ verdict = "none" /\ summary = NoSummary

-----------------------------------------------------------------------------
(* The scenarios. *)

\* `finish` is the last call of every campaign that ends by itself.
EndWith(how) == verdict' = how /\ pc' = "finish"

ResolveReuse ==
    /\ pc = "resolve"
    /\ \/ pc' = "next" /\ UNCHANGED verdict
       \/ EndWith("reuse_misconfigured")
    /\ UNCHANGED <<runs, records, evidence, built, merge, directory, summary>>

StartScenario ==
    /\ pc = "next" /\ at < N
    /\ at' = at + 1 /\ status' = [status EXCEPT ![at + 1] = "pending"] /\ pc' = "discover"
    /\ UNCHANGED <<runs, named, evidence, built, merge, directory, verdict, summary>>

\* `discover` appends the declared outcomes to what its planner declared: one code may occur twice, with two meanings.
Discover ==
    /\ pc = "discover" /\ pc' = "reconcile"
    /\ \E c \in Contracts, planned \in UNION {kSubset(k, [code : Codes, means : Meanings]) : k \in 0..MaxPlanned} :
         built' = [contract |-> c,
                   outcomes |-> {[code |-> o.code, means |-> o.means, source |-> "planner"] : o \in planned} \cup DeclaredOutcomes]
    /\ UNCHANGED <<runs, records, evidence, merge, directory, verdict, summary>>

\* Faulty forms of reconcile_outcomes: the planner's copy survives where it differs, alone or beside the reviewer's.
reconcile_for_planner(recorded) ==
    recorded \cup {d \in DeclaredOutcomes : \A o \in recorded : o.code # d.code}
reconcile_identical(recorded) ==
    {o \in recorded : \A d \in DeclaredOutcomes : o.code # d.code \/ o.means # d.means} \cup DeclaredOutcomes

\* Every planner copy of a declared code is dropped.
reconcile_outcomes(recorded) ==
    {o \in recorded : o.code \notin DOMAIN Declared} \cup DeclaredOutcomes

Reconcile ==
    /\ pc = "reconcile" /\ pc' = "keep"
    /\ built' = [built EXCEPT !.outcomes = reconcile_outcomes(built.outcomes \ DeclaredOutcomes)]
    /\ UNCHANGED <<runs, records, evidence, merge, directory, verdict, summary>>

\* Faulty forms of ScenarioFailed: the next scenario has its turn, and the record stays as it was.
ScenarioSkipped == status' = [status EXCEPT ![at] = "failed"] /\ pc' = "next" /\ UNCHANGED verdict
ScenarioFailedSilently == EndWith("failed") /\ UNCHANGED status

\* A failed scenario ends the campaign.
ScenarioFailed == status' = [status EXCEPT ![at] = "failed"] /\ EndWith("failed")

\* The session, the planner, the discovery, the declared outputs: any failure; its evidence is copied unless that fails.
DiscoveryFails ==
    /\ pc \in {"discover", "reconcile"} /\ ScenarioFailed
    /\ \/ evidence' = evidence \cup {at} /\ named' = named \cup {at}
       \/ DiskFails /\ UNCHANGED <<evidence, named>>
    /\ built' = NoTrace
    /\ UNCHANGED <<runs, at, merge, directory, summary>>

\* The evidence is copied, then the trace is written beside it, then both are named in the record.
KeepTrace ==
    /\ pc = "keep" /\ pc' = "next"
    /\ evidence' = evidence \cup {at} /\ named' = named \cup {at}
    /\ traces' = Append(traces, built) /\ status' = [status EXCEPT ![at] = "succeeded"]
    /\ built' = NoTrace
    /\ UNCHANGED <<runs, at, version, directory, verdict, summary>>

KeepFails ==
    /\ pc = "keep" /\ DiskFails /\ ScenarioFailed
    /\ evidence' \in {evidence, evidence \cup {at}}
    /\ built' = NoTrace
    /\ UNCHANGED <<runs, at, named, merge, directory, summary>>

-----------------------------------------------------------------------------
(* The merge and the save. *)

\* check_compatible and merge_outcomes, within one trace too: a code has one meaning, whoever declared it.
Conflicts == {c \in Codes : \E i, j \in DOMAIN traces : \E o \in traces[i].outcomes, p \in traces[j].outcomes :
                                o.code = c /\ p.code = c /\ o.means # p.means}
Compatible == Conflicts = {} /\ \A i, j \in DOMAIN traces : traces[i].contract = traces[j].contract

next_version == 1 + Max({0} \cup {v \in Versions : disk[v] # Absent})

MergeTraces ==
    /\ pc = "next" /\ at = N
    /\ IF Compatible /\ next_version \in Versions
       THEN version' = next_version /\ pc' = "save" /\ UNCHANGED verdict
       ELSE EndWith("merge_failed") /\ UNCHANGED version
    /\ UNCHANGED <<runs, records, evidence, built, traces, directory, summary>>

\* The path was taken meanwhile, a sensitive value is in the graph, or the file cannot be opened.
SaveRefused ==
    /\ pc \in {"save", "open"} /\ EndWith("merge_failed")
    /\ UNCHANGED <<runs, records, evidence, built, merge, directory, summary>>

\* `path.exists()`; the file is opened, which truncates it, in a step of its own.
PathIsFree ==
    /\ pc = "save" /\ disk[version] = Absent /\ pc' = "open"
    /\ UNCHANGED <<runs, records, evidence, built, merge, directory, verdict, summary>>

OpenFile ==
    /\ pc = "open" /\ pc' = "write"
    /\ disk' = [disk EXCEPT ![version] = Empty]
    /\ UNCHANGED <<runs, records, evidence, built, merge, others, found, verdict, summary>>

\* The union of the outcomes by code; the meanings are one.
Graph == [kind |-> "graph", traces |-> traces,
          outcomes |-> {[code |-> o.code, means |-> o.means] : o \in UNION {traces[i].outcomes : i \in DOMAIN traces}}]

\* The text goes to the start of the file: of a longer text that was written since it was opened a tail is left.
Put(v, content) == disk' \in {[disk EXCEPT ![v] = c] : c \in {content} \cup (IF disk[v] = Empty THEN {} ELSE {Torn})}

WriteFile ==
    /\ pc = "write" /\ EndWith("succeeded") /\ Put(version, Graph)
    /\ UNCHANGED <<runs, records, evidence, built, merge, others, found, summary>>

\* The disk is full before the first or in the middle of write_text.
HalfWritten == pc = "write" /\ DiskFails /\ disk' \in {disk, [disk EXCEPT ![version] = Torn]}

\* Faulty form of WriteFails: the failure is swallowed.
WriteFailsUnnoticed ==
    /\ HalfWritten /\ EndWith("succeeded")
    /\ UNCHANGED <<runs, records, evidence, built, merge, others, found, summary>>

WriteFails ==
    /\ HalfWritten /\ EndWith("merge_failed")
    /\ UNCHANGED <<runs, records, evidence, built, merge, others, found, summary>>

-----------------------------------------------------------------------------
(* The end, and what goes on around it. *)

Finish ==
    /\ pc = "finish"
    /\ summary' = [status |-> verdict, artifact |-> IF verdict = "succeeded" THEN version ELSE 0,
                   scenarios |-> status, named |-> named]
    /\ pc' = IF verdict = "succeeded" THEN "saved" ELSE "failed" \* CampaignFailed
    /\ UNCHANGED <<runs, records, evidence, built, merge, directory, verdict>>

\* The log of the campaign is written between any two of these steps, outside every handler.
LogFails ==
    /\ pc \notin Over /\ DiskFails /\ pc' = "escaped"
    /\ UNCHANGED <<runs, records, evidence, built, merge, directory, verdict, summary>>

Dies ==
    /\ pc \notin Over /\ Interrupted /\ pc' = "died"
    /\ UNCHANGED <<runs, records, evidence, built, merge, directory, verdict, summary>>

Rerun ==
    /\ pc \in Over /\ runs < MaxRuns /\ runs' = runs + 1
    /\ pc' = "resolve" /\ UNCHANGED directory
    /\ at' = 0 /\ status' = [i \in 1..N |-> "absent"] /\ named' = {} /\ evidence' = {}
    /\ built' = NoTrace /\ traces' = <<>> /\ version' = 0 /\ verdict' = "none" /\ summary' = NoSummary

\* Another discovery or campaign saves under the name, with the same steps in between.
OtherDoes(r, what, v) ==
    /\ others' = [others EXCEPT ![r] = [does |-> what, version |-> v]]
    /\ UNCHANGED <<pc, runs, records, evidence, built, merge, verdict, summary>>

OtherRecords(r) ==
    /\ others[r] = Idle /\ next_version \in Versions
    /\ OtherDoes(r, "exists", next_version) /\ UNCHANGED <<disk, found>>

OtherFindsFree(r) ==
    /\ others[r].does = "exists" /\ disk[others[r].version] = Absent
    /\ OtherDoes(r, "open", others[r].version)
    /\ found' = found \cup {others[r].version} /\ UNCHANGED disk

OtherOpens(r) ==
    /\ others[r].does = "open" /\ disk' = [disk EXCEPT ![others[r].version] = Empty]
    /\ OtherDoes(r, "write", others[r].version) /\ UNCHANGED found

OtherWrites(r) ==
    /\ others[r].does = "write" /\ Put(others[r].version, Other)
    /\ others' = [others EXCEPT ![r] = Idle]
    /\ UNCHANGED <<pc, runs, records, evidence, built, merge, found, verdict, summary>>

\* It is refused, dies, or fails to write all it has.
OtherStops(r) ==
    /\ others[r] # Idle /\ others' = [others EXCEPT ![r] = Idle]
    /\ \/ UNCHANGED disk
       \/ others[r].does = "write" /\ disk' = [disk EXCEPT ![others[r].version] = Torn]
    /\ UNCHANGED <<pc, runs, records, evidence, built, merge, found, verdict, summary>>

OtherSaves == \E r \in Recorders :
    OtherRecords(r) \/ OtherFindsFree(r) \/ OtherOpens(r) \/ OtherWrites(r) \/ OtherStops(r)

Done == pc \in Over /\ runs = MaxRuns /\ UNCHANGED vars

Next ==
    \/ ResolveReuse \/ StartScenario \/ Discover \/ Reconcile \/ DiscoveryFails \/ KeepTrace \/ KeepFails
    \/ MergeTraces \/ SaveRefused \/ PathIsFree \/ OpenFile \/ WriteFile \/ WriteFails
    \/ Finish \/ LogFails \/ Dies \/ Rerun \/ OtherSaves \/ Done

Spec == Init /\ [][Next]_vars

-----------------------------------------------------------------------------
(* Properties *)

Graphs == {disk[v] : v \in Versions} \ {Absent, Empty, Torn, Other}

\* run_campaign, "Only when every scenario succeeded": a graph that was ever saved, by this campaign or an earlier
\* one that failed or died, holds the traces of all the scenarios, and they agree.
AllOrNothing ==
    \A g \in Graphs : Len(g.traces) = N /\ \A i, j \in 1..N : g.traces[i].contract = g.traces[j].contract

\* reconcile_outcomes, "authoritative for their codes": in a saved graph a declared code means what the reviewer
\* said and nothing else, and no other outcome of a trace is lost.
ReviewerWins ==
    \A g \in Graphs : \A c \in Codes :
        LET meanings == {o.means : o \in {p \in g.outcomes : p.code = c}}
            recorded == {o.means : o \in {p \in UNION {g.traces[i].outcomes : i \in 1..N} : p.code = c}}
        IN  IF c \in DOMAIN Declared THEN meanings = {Declared[c]} ELSE meanings = recorded

\* reconcile_outcomes, "never fails the scenario": what makes a merge fail is never a code the reviewer declared.
DeclaredNeverConflict == Conflicts \cap DOMAIN Declared = {}

\* finish: the summary of a campaign that failed tells how far it came: the scenarios before the failed one
\* succeeded, none after it started, and a failed merge had every trace.  The graph that a success names is there,
\* whoever else saves, unless another recorder found the same path free (SavedStays).
Stopped(s) ==
    CASE s.status = "reuse_misconfigured" -> \A i \in 1..N : s.scenarios[i] = "absent"
      [] s.status = "failed" -> \E k \in 1..N : \A i \in 1..N :
             s.scenarios[i] = (IF i < k THEN "succeeded" ELSE IF i = k THEN "failed" ELSE "absent")
      [] OTHER -> \A i \in 1..N : s.scenarios[i] = "succeeded"
SummaryTells ==
    summary # NoSummary =>
        /\ Stopped(summary)
        /\ {i \in 1..N : summary.scenarios[i] = "succeeded"} \subseteq summary.named
        /\ summary.status = "succeeded" => disk[summary.artifact] = Graph \/ summary.artifact \in found

-----------------------------------------------------------------------------
(* Statements of the documentation that the code does not keep (README, 5). *)

\* CampaignFailed, "Nothing was saved": no file of this campaign is left where artifacts are kept.
NothingSaved == pc = "failed" /\ version \in Versions \ found => disk[version] \notin {Empty, Torn}

\* save_artifact, "never overwrites: artifacts are immutable once saved": the graph a summary names stays.
SavedStays == summary.status = "succeeded" => disk[summary.artifact] = Graph

\* run_campaign, "previously saved artifacts are never touched": what a campaign opens to write holds no artifact.
SavedUntouched == [][OpenFile => disk[version] \in {Absent, Empty, Torn}]_vars

\* finish, "the summary mapping every scenario to its evidence": evidence that was kept is named.
EvidenceNamed == summary # NoSummary => evidence = summary.named
=============================================================================
