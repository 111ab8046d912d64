------------------------------ MODULE Lifecycle ------------------------------
(***************************************************************************)
(* The life of an artifact around replay (src/src/cua/lifecycle.py,        *)
(* stability.py, approval.py and save_artifact of artifact.py):            *)
(*                                                                         *)
(*   draft -> stability runs -> human approval -> approved -> unattended   *)
(*                                                                         *)
(* Every operation is a command-line process of its own.  They share the   *)
(* directory artifacts/ and the reports in evidence/ and nothing else: no  *)
(* lock, no rename.  A step of the model lies between two accesses of one  *)
(* process to a shared file, so the steps of other processes, and a person *)
(* with a text editor, fall in between.  A process may stop for good after *)
(* any step (a crash): nothing makes it take the next one.                 *)
(*                                                                         *)
(* One capability name is modelled; a file is the artifact it holds, and   *)
(* the SHA-256 digest of a file is its content.                            *)
(***************************************************************************)
EXTENDS Naturals, Sequences, FiniteSets

CONSTANTS
  Bodies,            (* the graphs an artifact may hold                    *)
  Assignments,       (* selector assignments                               *)
  Declared,          (* body -> assignments its entry gate admits, {} without selectors *)
  Recorders,         (* discover and campaign processes: they save a draft *)
  Testers,           (* stability processes                                *)
  Approvers,         (* approve processes                                  *)
  Runners,           (* replay processes and discoveries that reuse a flow *)
  Purposes,          (* what a runner runs a flow for                      *)
  MinRuns,           (* stability.MIN_RUNS_FOR_APPROVAL                    *)
  RunCounts,         (* the --runs values a tester may be given            *)
  MaxVersion,        (* bound: revisions of the capability                 *)
  MaxEdits,          (* bound: edits of draft files                        *)
  EditsAnytime       (* whether an edit may fall between a load of a file and the hash of it *)

Versions  == 1..MaxVersion
Processes == Recorders \cup Testers \cup Approvers \cup Runners
Savers    == Recorders \cup Approvers

NoAssignment == "none"
PURPOSES == {"supervised", "stability", "unattended", "discovery_reuse"}

ASSUME KindsAssumption ==
  /\ Recorders \cap (Testers \cup Approvers \cup Runners) = {}
  /\ Testers \cap (Approvers \cup Runners) = {}
  /\ Approvers \cap Runners = {}
  /\ Declared \in [Bodies -> SUBSET Assignments]
  /\ NoAssignment \notin Assignments

ASSUME LifecycleBounds ==
  /\ MinRuns \in Nat \ {0}
  /\ RunCounts \subseteq Nat \ {0}
  /\ MaxVersion \in Nat \ {0}
  /\ MaxEdits \in Nat
  /\ EditsAnytime \in BOOLEAN
  /\ Purposes \subseteq PURPOSES \ {"stability"}

VARIABLES
  files,             \* artifacts/NAME.vN.json, by revision
  reports,           \* evidence/*/report.json, by the process that wrote it
  edits,
  (* each process: its arguments and the locals it carries between two steps *)
  pc,
  path,              \* the revision its artifact argument names
  loaded,            \* the artifact in memory
  digest,            \* what sha256_of returned for it
  purpose,           \* of a replay
  params,            \* a tester's selector assignment
  announced,         \* the assignment its report will name
  runs,              \* the runs a tester was asked for
  records,           \* its run records
  outcome,           \* of the replay in progress
  bundle,            \* of that replay: the artifact copy and the digest in the manifest
  cited,             \* the reports an approver was given
  target             \* the revision a saver writes

shared  == <<files, reports, edits>>
testing == <<params, announced, runs, records>>
saving  == <<cited, target>>
running == <<purpose, outcome, bundle>>
vars == <<shared, pc, path, loaded, digest, testing, saving, running>>

-----------------------------------------------------------------------------
(* Contents of a file.  A torn file is one that does not parse: opened for *)
(* writing and not written yet, or written by two processes at once.       *)
Missing == [status |-> "missing"]
Torn    == [status |-> "torn"]
Artifact(s, v, b, p) == [status |-> s, version |-> v, body |-> b, by |-> p]
Artifacts == [status : {"draft", "approved"}, version : Versions, body : Bodies, by : Savers]
Contents  == Artifacts \cup {Missing, Torn}

Exists(v) == files[v] # Missing
Parses(v) == files[v] \in Artifacts           \* load_artifact succeeds
is_approved(artifact) == artifact.status = "approved"

NoReport == [status |-> "unpublished"]
NoBundle == [copy |-> Missing, sha256 |-> Missing]

Init ==
  /\ files = [v \in Versions |-> Missing]
  /\ reports = [t \in Testers |-> NoReport]
  /\ edits = 0
  /\ pc = [p \in Processes |-> "idle"]
  /\ path = [p \in Processes |-> 0]
  /\ loaded = [p \in Processes |-> Missing]
  /\ digest = [p \in Processes |-> Missing]
  /\ purpose = [p \in Testers \cup Runners |-> "stability"]
  /\ params = [t \in Testers |-> NoAssignment]
  /\ announced = [t \in Testers |-> NoAssignment]
  /\ runs = [t \in Testers |-> 0]
  /\ records = [t \in Testers |-> <<>>]
  /\ outcome = [p \in Testers \cup Runners |-> "none"]
  /\ bundle = [p \in Testers \cup Runners |-> NoBundle]
  /\ cited = [a \in Approvers |-> {}]
  /\ target = [p \in Savers |-> 0]

Goto(p, step) == pc' = [pc EXCEPT ![p] = step]

-----------------------------------------------------------------------------
(* Saving: next_version, then save_artifact tests whether the path exists, *)
(* opens it (which truncates) and writes.                                  *)
(* v is the least revision above `floor` and above every existing one.     *)
next_version(v, floor) ==
  /\ v > floor
  /\ \A w \in Versions : Exists(w) => w < v
  /\ v > floor + 1 => Exists(v - 1)

(* discover and campaign: a new draft under the next revision.             *)
Record(p, b) ==
  /\ pc[p] = "idle"
  /\ \E v \in Versions :
       /\ next_version(v, 0)
       /\ target' = [target EXCEPT ![p] = v]
       /\ loaded' = [loaded EXCEPT ![p] = Artifact("draft", v, b, p)]
  /\ Goto(p, "exists")
  /\ UNCHANGED <<shared, path, digest, testing, cited, running>>

RefuseOverwrite(p) ==
  /\ pc[p] = "exists"
  /\ Exists(target[p])
  /\ Goto(p, "refused")
  /\ UNCHANGED <<shared, path, loaded, digest, testing, saving, running>>

PathIsFree(p) ==
  /\ pc[p] = "exists"
  /\ ~Exists(target[p])
  /\ Goto(p, "open")
  /\ UNCHANGED <<shared, path, loaded, digest, testing, saving, running>>

OpenFile(p) ==
  /\ pc[p] = "open"
  /\ files' = [files EXCEPT ![target[p]] = Torn]
  /\ Goto(p, "write")
  /\ UNCHANGED <<reports, edits, path, loaded, digest, testing, saving, running>>

(* The text goes to the start of the file: over the longer text of a saver *)
(* that wrote since the file was opened it leaves a tail.                  *)
WriteFile(p) ==
  /\ pc[p] = "write"
  /\ \/ files' = [files EXCEPT ![target[p]] = loaded[p]]
     \/ /\ files[target[p]] # Torn
        /\ files' = [files EXCEPT ![target[p]] = Torn]
  /\ Goto(p, "saved")
  /\ UNCHANGED <<reports, edits, path, loaded, digest, testing, saving, running>>

Save(p) == RefuseOverwrite(p) \/ PathIsFree(p) \/ OpenFile(p) \/ WriteFile(p)

-----------------------------------------------------------------------------
(* lifecycle.run_replay: the gate, then the engine.                        *)
ApprovedOnly == {"unattended", "discovery_reuse"}
(* A faulty form of the gate: the purpose added last is forgotten.         *)
BlockedUnattended(p) == purpose[p] = "unattended" /\ ~is_approved(loaded[p])
Blocked(p) == purpose[p] \in ApprovedOnly /\ ~is_approved(loaded[p])

(* What a flow of this body can answer under an assignment: the entry gate *)
(* has no edge for one the graph does not declare.                         *)
Admits(b, a) == Declared[b] = {} \/ a \in Declared[b]
Outcomes(p) ==
  {"failure", "error"} \cup
  IF p \in Testers => Admits(loaded[p].body, params[p]) THEN {"success"} ELSE {}

Replay(p) ==
  /\ pc[p] = "replay"
  /\ \E o \in IF Blocked(p) THEN {"artifact_not_approved"} ELSE Outcomes(p) :
       outcome' = [outcome EXCEPT ![p] = o]
  /\ Goto(p, "replayed")
  /\ UNCHANGED <<shared, path, loaded, digest, testing, saving, purpose, bundle>>

(* lifecycle.write_bundle, in its two reads of the artifact's path.  A run *)
(* that raised has no bundle, nor has a segment replayed by a discovery.   *)
Bundled(p) == outcome[p] # "error" /\ purpose[p] # "discovery_reuse"
CopyArtifact(p) ==
  /\ pc[p] = "replayed" /\ Bundled(p)
  /\ bundle' = [bundle EXCEPT ![p] = [NoBundle EXCEPT !.copy = files[path[p]]]]
  /\ Goto(p, "manifest")
  /\ UNCHANGED <<shared, path, loaded, digest, testing, saving, purpose, outcome>>

WriteManifest(p) ==
  /\ pc[p] = "manifest"
  /\ bundle' = [bundle EXCEPT ![p].sha256 = files[path[p]]]
  /\ Goto(p, "bundled")
  /\ UNCHANGED <<shared, path, loaded, digest, testing, saving, purpose, outcome>>

RunOver(p) == pc[p] = "bundled" \/ (pc[p] = "replayed" /\ ~Bundled(p))

-----------------------------------------------------------------------------
(* stability.run_stability: the artifact is loaded once for the identity   *)
(* in the report and once more, then hashed, by every run.                 *)
selector_assignment(artifact, a) ==
  IF Declared[artifact.body] = {} THEN NoAssignment ELSE a

StartStability(t, v, a, n) ==
  /\ pc[t] = "idle"
  /\ Parses(v)
  /\ path' = [path EXCEPT ![t] = v]
  /\ params' = [params EXCEPT ![t] = a]
  /\ announced' = [announced EXCEPT ![t] = selector_assignment(files[v], a)]
  /\ runs' = [runs EXCEPT ![t] = n]
  /\ Goto(t, "load")
  /\ UNCHANGED <<shared, loaded, digest, records, saving, running>>

(* A run record; `ran` is history: the artifact the run had in memory.     *)
RunRecord(t, o) == [artifact_sha256 |-> digest[t], status |-> o, ran |-> loaded[t]]
(* A faulty form of NextRun: an off-by-one in the range of runs.           *)
NextRunTooMany(t, rest) == IF rest + 1 = 0 THEN "report" ELSE "load"
NextRun(t, rest) == IF rest = 0 THEN "report" ELSE "load"
AddRecord(t, record) ==
  /\ records' = [records EXCEPT ![t] = Append(@, record)]
  /\ Goto(t, NextRun(t, runs[t] - Len(records[t]) - 1))

LoadRun(t) ==
  /\ pc[t] = "load"
  /\ Parses(path[t])
  /\ loaded' = [loaded EXCEPT ![t] = files[path[t]]]
  /\ Goto(t, "hash")
  /\ UNCHANGED <<shared, path, digest, testing, saving, running>>

LoadRunFails(t) ==
  /\ pc[t] = "load"
  /\ ~Parses(path[t])
  /\ AddRecord(t, RunRecord(t, "error"))
  /\ UNCHANGED <<shared, path, loaded, digest, params, announced, runs, saving, running>>

HashRun(t) ==
  /\ pc[t] = "hash"
  /\ digest' = [digest EXCEPT ![t] = files[path[t]]]
  /\ Goto(t, "replay")
  /\ UNCHANGED <<shared, path, loaded, testing, saving, running>>

FinishRun(t) ==
  /\ RunOver(t)
  /\ AddRecord(t, RunRecord(t, outcome[t]))
  /\ loaded' = [loaded EXCEPT ![t] = Missing]
  /\ digest' = [digest EXCEPT ![t] = Missing]
  /\ outcome' = [outcome EXCEPT ![t] = "none"]
  /\ bundle' = [bundle EXCEPT ![t] = NoBundle]
  /\ UNCHANGED <<shared, path, params, announced, runs, saving, purpose>>

(* build_report hashes the path once more; `params` is history.            *)
WriteReport(t) ==
  /\ pc[t] = "report"
  /\ reports' = [reports EXCEPT ![t] =
       [status |-> "published", version |-> path[t], sha256 |-> files[path[t]],
        selector_assignment |-> announced[t], runs |-> records[t], params |-> params[t]]]
  /\ Goto(t, "saved")
  /\ UNCHANGED <<files, edits, path, loaded, digest, testing, saving, running>>

Stability(t) ==
  \/ \E v \in Versions, a \in Assignments, n \in RunCounts : StartStability(t, v, a, n)
  \/ LoadRun(t) \/ LoadRunFails(t) \/ HashRun(t) \/ FinishRun(t) \/ WriteReport(t)

-----------------------------------------------------------------------------
(* stability.summarize, as verify_report recomputes it: a verdict from the *)
(* run records alone.                                                      *)
Completed(report) == {i \in 1..Len(report.runs) : report.runs[i].status # "error"}
Eligible(report) ==
  /\ Cardinality(Completed(report)) >= MinRuns
  /\ \A i \in 1..Len(report.runs) :
       /\ report.runs[i].status = "success"
       /\ report.runs[i].artifact_sha256 = report.sha256

(* approval.load_report: a report about exactly this artifact file.  The   *)
(* faulty form before it trusts the name and version alone.                *)
QualifiesByVersion(report, draft, sha256) ==
  /\ report.version = draft.version
  /\ Eligible(report)
Qualifies(report, draft, sha256) ==
  /\ report.sha256 = sha256
  /\ report.version = draft.version
  /\ Eligible(report)

(* approval.check_coverage: each declared assignment exactly once.  The    *)
(* faulty form before it refuses the undeclared and forgets the uncovered. *)
CoversNoOther(declared, T) ==
  declared # {} =>
    /\ {reports[t].selector_assignment : t \in T} \subseteq declared
    /\ Cardinality(T) = Cardinality({reports[t].selector_assignment : t \in T})
Covers(declared, T) ==
  declared # {} =>
    /\ {reports[t].selector_assignment : t \in T} = declared
    /\ Cardinality(T) = Cardinality(declared)

StartApproval(a, v, T) ==
  /\ pc[a] = "idle"
  /\ T # {} /\ \A t \in T : reports[t] # NoReport
  /\ Parses(v) /\ files[v].status = "draft"
  /\ path' = [path EXCEPT ![a] = v]
  /\ loaded' = [loaded EXCEPT ![a] = files[v]]
  /\ cited' = [cited EXCEPT ![a] = T]
  /\ Goto(a, "hash")
  /\ UNCHANGED <<shared, digest, testing, target, running>>

HashDraft(a) ==
  /\ pc[a] = "hash"
  /\ digest' = [digest EXCEPT ![a] = files[path[a]]]
  /\ Goto(a, "review")
  /\ UNCHANGED <<shared, path, loaded, testing, saving, running>>

Accepted(a) ==
  /\ \A t \in cited[a] : Qualifies(reports[t], loaded[a], digest[a])
  /\ Covers(Declared[loaded[a].body], cited[a])

Review(a) ==
  /\ pc[a] = "review"
  /\ Goto(a, IF Accepted(a) THEN "number" ELSE "refused")
  /\ UNCHANGED <<shared, path, loaded, digest, testing, saving, running>>

(* The approved copy is a later version than its source.                   *)
NumberApproved(a) ==
  /\ pc[a] = "number"
  /\ \E v \in Versions :
       /\ next_version(v, loaded[a].version)
       /\ target' = [target EXCEPT ![a] = v]
       /\ loaded' = [loaded EXCEPT ![a] = Artifact("approved", v, @.body, a)]
  /\ Goto(a, "exists")
  /\ UNCHANGED <<shared, path, digest, testing, cited, running>>

Approve(a) ==
  \/ \E v \in Versions, T \in SUBSET Testers : StartApproval(a, v, T)
  \/ HashDraft(a) \/ Review(a) \/ NumberApproved(a) \/ Save(a)

-----------------------------------------------------------------------------
(* __main__.cmd_replay, and replay_segment of a discovery.                 *)
StartReplay(r, v, why) ==
  /\ pc[r] = "idle"
  /\ Parses(v)
  /\ path' = [path EXCEPT ![r] = v]
  /\ loaded' = [loaded EXCEPT ![r] = files[v]]
  /\ purpose' = [purpose EXCEPT ![r] = why]
  /\ Goto(r, "replay")
  /\ UNCHANGED <<shared, digest, testing, saving, outcome, bundle>>

FinishReplay(r) ==
  /\ RunOver(r)
  /\ bundle' = [bundle EXCEPT ![r] = NoBundle]
  /\ Goto(r, "saved")
  /\ UNCHANGED <<shared, path, loaded, digest, testing, saving, purpose, outcome>>

Run(r) ==
  \/ \E v \in Versions, why \in Purposes : StartReplay(r, v, why)
  \/ FinishReplay(r)

(* External: a person edits a draft file.  An approved one is not touched: *)
(* approval is a local review record and does not claim to withstand that. *)
Edit(v, b) ==
  /\ edits < MaxEdits
  /\ Parses(v) /\ files[v].status = "draft" /\ files[v].body # b
  /\ EditsAnytime \/ \A p \in Processes : pc[p] = "hash" => path[p] # v
  /\ files' = [files EXCEPT ![v].body = b]
  /\ edits' = edits + 1
  /\ UNCHANGED <<reports, pc, path, loaded, digest, testing, saving, running>>

-----------------------------------------------------------------------------
Step ==
  \/ \E d \in Recorders : Save(d) \/ \E b \in Bodies : Record(d, b)
  \/ \E t \in Testers : Stability(t)
  \/ \E a \in Approvers : Approve(a)
  \/ \E r \in Runners : Run(r)
  \/ \E p \in Testers \cup Runners : Replay(p) \/ CopyArtifact(p) \/ WriteManifest(p)

Next == Step \/ \E v \in Versions, b \in Bodies : Edit(v, b)

Spec == Init /\ [][Next]_vars

-----------------------------------------------------------------------------
Saving  == {"exists", "open", "write"}
Running == {"replay", "replayed", "manifest", "bundled"}
Testing == {"load", "hash"} \cup Running
Results == {"success", "failure", "error"}
RunRecords == [artifact_sha256 : Contents, status : Results, ran : Contents]
Reports == [status : {"published"}, version : Versions, sha256 : Contents,
            selector_assignment : Assignments \cup {NoAssignment},
            runs : Seq(RunRecords), params : Assignments \cup {NoAssignment}]

(* Every variable has its type, and a tester records no run too many.      *)
SharedOK ==
  /\ files \in [Versions -> Contents]
  /\ reports \in [Testers -> Reports \cup {NoReport}]
  /\ edits \in Nat
PlaceOK ==
  /\ pc \in [Processes -> {"idle", "load", "hash", "report", "review", "number", "saved",
                           "refused"} \cup Saving \cup Running]
  /\ \A d \in Recorders : pc[d] \in {"idle", "saved", "refused"} \cup Saving
  /\ \A t \in Testers : pc[t] \in {"idle", "report", "saved"} \cup Testing
  /\ \A a \in Approvers :
       pc[a] \in {"idle", "hash", "review", "number", "saved", "refused"} \cup Saving
  /\ \A r \in Runners : pc[r] \in {"idle", "saved"} \cup Running
LocalsOK ==
  /\ path \in [Processes -> Versions \cup {0}]
  /\ \A p \in Processes \ Recorders : pc[p] # "idle" => path[p] \in Versions
  /\ loaded \in [Processes -> Contents]
  /\ \A p \in Processes :
       pc[p] \in {"hash", "review", "number"} \cup Saving \cup Running => loaded[p] \in Artifacts
  /\ digest \in [Processes -> Contents]
TestingOK ==
  /\ params \in [Testers -> Assignments \cup {NoAssignment}]
  /\ announced \in [Testers -> Assignments \cup {NoAssignment}]
  /\ runs \in [Testers -> Nat]
  /\ records \in [Testers -> Seq(RunRecords)]
  /\ \A t \in Testers :
       /\ pc[t] = "idle" => records[t] = <<>>
       /\ pc[t] \in Testing => Len(records[t]) < runs[t]
       /\ Len(records[t]) <= runs[t]
SavingOK ==
  /\ cited \in [Approvers -> SUBSET Testers]
  /\ target \in [Savers -> Versions \cup {0}]
  /\ \A p \in Savers : pc[p] \in Saving => target[p] \in Versions
RunningOK ==
  /\ purpose \in [Testers \cup Runners -> PURPOSES]
  /\ \A t \in Testers : purpose[t] = "stability"
  /\ outcome \in [Testers \cup Runners -> Results \cup {"none", "artifact_not_approved"}]
  /\ \A t \in Testers : pc[t] \in Running \ {"replay"} => outcome[t] \in Results
  /\ bundle \in [Testers \cup Runners -> [copy : Contents, sha256 : Contents]]
TypeOK == SharedOK /\ PlaceOK /\ LocalsOK /\ TestingOK /\ SavingOK /\ RunningOK

(* "it proves that a named reviewer saw eligible stability evidence for    *)
(* exactly this artifact file" (approval.py:3): what approve turns into an *)
(* approved artifact is what every run of every cited report had in memory. *)
ApprovedWasTested ==
  \A a \in Approvers :
    pc[a] \in {"number", "exists", "open", "write", "saved"} =>
      \A t \in cited[a] : \A i \in 1..Len(reports[t].runs) :
        reports[t].runs[i].ran.body = loaded[a].body

(* The contract of the whole pipeline, whatever runs beside it: a body is  *)
(* approved only after enough spotless runs of that very body under every  *)
(* assignment it declares, and runs unattended only once it is approved.   *)
Spotless(report, b, a) ==
  /\ report # NoReport /\ report.params = a
  /\ Len(report.runs) >= MinRuns
  /\ \A i \in 1..Len(report.runs) :
       report.runs[i].status = "success" /\ report.runs[i].ran.body = b
Contract == INSTANCE Promotion WITH
  tested   <- {x \in Bodies \X Assignments :
                 \E t \in Testers : Spotless(reports[t], x[1], x[2])},
  approved <- {loaded[a].body : a \in {a \in Approvers : pc[a] = "saved"}},
  executed <- {loaded[r].body : r \in {r \in Runners :
                 purpose[r] \in ApprovedOnly
                 /\ outcome[r] \in {"success", "failure", "error"}}}
ImplementsPromotion == Contract!Spec

-----------------------------------------------------------------------------
(* Statements of the documentation that the code does not keep (README, 5).*)

(* "never overwrites: artifacts are immutable once saved" (artifact.py:867). *)
NeverOverwritten == [][\A v \in Versions : Parses(v) => Parses(v)']_vars

(* The bundle holds "a byte-exact copy of the artifact that ran"           *)
(* (lifecycle.py:19).                                                      *)
BundleIsWhatRan ==
  \A p \in Testers \cup Runners : pc[p] = "manifest" => bundle[p].copy = loaded[p]
=============================================================================
