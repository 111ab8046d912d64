---------------------------- MODULE LifecycleProofs ----------------------------
(***************************************************************************)
(* Proofs about Lifecycle for any number of processes, bodies, revisions   *)
(* and edits.                                                              *)
(***************************************************************************)
EXTENDS Lifecycle, FiniteSetTheorems, TLAPS

-----------------------------------------------------------------------------
(* Types *)

LEMMA Kinds ==
  /\ \A d \in Recorders : d \notin Testers /\ d \notin Approvers /\ d \notin Runners
  /\ \A t \in Testers : t \notin Approvers /\ t \notin Runners
  /\ \A a \in Approvers : a \notin Runners
  BY KindsAssumption

LEMMA InitType == Init => TypeOK
<1> SUFFICES ASSUME Init PROVE TypeOK
  OBVIOUS
<1>1. SharedOK
  BY DEF Init, SharedOK, Contents
<1>2. PlaceOK
  BY DEF Init, PlaceOK, Processes
<1>3. LocalsOK
  BY DEF Init, LocalsOK, Contents, Processes, Saving, Running
<1>4. TestingOK
  BY DEF Init, TestingOK, Testing, Running, Processes
<1>5. SavingOK
  BY DEF Init, SavingOK, Saving, Savers, Processes
<1>6. RunningOK
  BY DEF Init, RunningOK, PURPOSES, NoBundle, Contents, Running, Processes
<1>7. QED
  BY <1>1, <1>2, <1>3, <1>4, <1>5, <1>6 DEF TypeOK

LEMMA StartStabilityType ==
  ASSUME PlaceOK, TestingOK, NEW p \in Testers, NEW v \in Versions, NEW x \in Assignments,
         NEW n \in RunCounts, StartStability(p, v, x, n)
  PROVE  TestingOK'
<1>1. n \in Nat /\ n > 0
  BY LifecycleBounds
<1>2. announced' \in [Testers -> Assignments \cup {NoAssignment}]
  BY DEF StartStability, TestingOK, selector_assignment
<1>3. records[p] = <<>> /\ records' = records
  BY DEF StartStability, TestingOK
<1>4. \A t \in Testers : (t # p => pc'[t] = pc[t] /\ runs'[t] = runs[t]) /\ runs'[p] = n /\ pc'[p] = "load"
  BY DEF StartStability, TestingOK, PlaceOK, Goto, Processes
<1>5. QED
  BY <1>1, <1>2, <1>3, <1>4 DEF StartStability, TestingOK

LEMMA AddRecordType ==
  ASSUME PlaceOK, TestingOK, NEW t \in Testers, pc[t] \in Testing,
         NEW record \in RunRecords, AddRecord(t, record), UNCHANGED <<params, announced, runs>>
  PROVE  TestingOK' /\ pc'[t] \in {"load", "report"} /\ \A p \in Processes : p # t => pc'[p] = pc[p]
<1>1. \A p \in Processes : p # t => pc'[p] = pc[p]
  BY DEF AddRecord, Goto, PlaceOK
<1>2. /\ records' \in [Testers -> Seq(RunRecords)]
      /\ Len(records'[t]) = Len(records[t]) + 1
      /\ \A u \in Testers : u # t => records'[u] = records[u]
  BY DEF AddRecord, TestingOK
<1>3. pc'[t] = NextRun(t, runs[t] - Len(records[t]) - 1)
  BY DEF AddRecord, Goto, PlaceOK, Processes
<1>4. /\ Len(records[t]) \in Nat /\ runs[t] \in Nat /\ Len(records[t]) < runs[t]
  BY DEF TestingOK
<1>5. pc'[t] \in {"load", "report"} /\ (pc'[t] = "load" => Len(records'[t]) < runs[t]) /\ Len(records'[t]) <= runs[t]
  BY <1>2, <1>3, <1>4 DEF NextRun
<1>6. \A u \in Testers : u # t => pc'[u] = pc[u]
  BY <1>1 DEF Processes
<1>7. \A u \in Testers : /\ pc'[u] = "idle" => records'[u] = <<>>
                         /\ pc'[u] \in Testing => Len(records'[u]) < runs'[u]
                         /\ Len(records'[u]) <= runs'[u]
  <2> SUFFICES ASSUME NEW u \in Testers
      PROVE /\ pc'[u] = "idle" => records'[u] = <<>>
            /\ pc'[u] \in Testing => Len(records'[u]) < runs'[u]
            /\ Len(records'[u]) <= runs'[u]
    OBVIOUS
  <2>1. CASE u = t
    BY <2>1, <1>5 DEF Testing, Running
  <2>2. CASE u # t
    BY <2>2, <1>2, <1>6 DEF TestingOK
  <2>3. QED
    BY <2>1, <2>2
<1>8. QED
  BY <1>1, <1>2, <1>5, <1>7 DEF TestingOK

LEMMA LoadRunFailsType ==
  ASSUME PlaceOK, LocalsOK, TestingOK, NEW p \in Testers, LoadRunFails(p)
  PROVE  TestingOK'
<1>1. RunRecord(p, "error") \in RunRecords
  BY DEF RunRecord, RunRecords, LocalsOK, Processes, Results
<1>2. QED
  BY <1>1, AddRecordType DEF LoadRunFails, Testing

LEMMA FinishRunType ==
  ASSUME PlaceOK, LocalsOK, TestingOK, RunningOK, NEW p \in Testers, FinishRun(p)
  PROVE  TestingOK'
<1>1. pc[p] \in Running \ {"replay"}
  BY DEF FinishRun, RunOver, Running
<1>2. RunRecord(p, outcome[p]) \in RunRecords
  BY <1>1 DEF RunRecord, RunRecords, LocalsOK, RunningOK, Processes
<1>3. QED
  BY <1>1, <1>2, AddRecordType DEF FinishRun, Testing

LEMMA FinishRunLocals ==
  ASSUME PlaceOK, LocalsOK, TestingOK, NEW p \in Testers, FinishRun(p)
  PROVE  LocalsOK'
<1>1. pc[p] # "idle" /\ pc'[p] \in {"load", "report"}
  BY DEF FinishRun, RunOver, AddRecord, NextRun, Goto, PlaceOK, Processes
<1>2. \A q \in Processes : q # p => pc'[q] = pc[q] /\ loaded'[q] = loaded[q]
  BY DEF FinishRun, AddRecord, Goto, PlaceOK, LocalsOK
<1>3. loaded' \in [Processes -> Contents] /\ digest' \in [Processes -> Contents]
  BY DEF FinishRun, LocalsOK, Contents
<1>4. QED
  BY <1>1, <1>2, <1>3, Kinds DEF FinishRun, LocalsOK, Saving, Running, Processes

LEMMA EditType ==
  ASSUME SharedOK, NEW v \in Versions, NEW b \in Bodies, Edit(v, b)
  PROVE  SharedOK'
<1>1. [files[v] EXCEPT !.body = b] \in Contents
  <2>1. files[v] \in Artifacts
    BY DEF Edit, Parses
  <2>2. [files[v] EXCEPT !.body = b] \in Artifacts
    BY <2>1 DEF Artifacts
  <2>3. QED
    BY <2>2 DEF Contents
<1>2. files' = [files EXCEPT ![v] = [files[v] EXCEPT !.body = b]]
  BY DEF Edit
<1>3. QED
  BY <1>1, <1>2 DEF Edit, SharedOK

LEMMA RecordOK ==
  ASSUME TypeOK, NEW p \in Recorders, NEW b \in Bodies, Record(p, b)
  PROVE  TypeOK'
<1> USE DEF TypeOK
<1>1. SharedOK'
  BY DEF SharedOK, Record, shared
<1>2. PlaceOK'
  BY Kinds DEF PlaceOK, Record, Goto, Processes, Saving
<1>3. LocalsOK'
  BY DEF LocalsOK, Record, Goto, Processes, Savers, Contents, Artifacts, Artifact
<1>4. TestingOK'
  BY Kinds DEF TestingOK, Record, Goto, testing
<1>5. SavingOK'
  BY DEF SavingOK, Record, Goto, Savers
<1>6. RunningOK'
  BY Kinds DEF RunningOK, Record, Goto, running
<1>7. QED
  BY <1>1, <1>2, <1>3, <1>4, <1>5, <1>6

LEMMA RefuseOverwriteOK ==
  ASSUME TypeOK, NEW p \in Savers, RefuseOverwrite(p)
  PROVE  TypeOK'
<1> USE DEF TypeOK
<1>1. SharedOK'
  BY DEF SharedOK, RefuseOverwrite, shared
<1>2. PlaceOK'
  BY Kinds DEF PlaceOK, RefuseOverwrite, Goto, Processes, Saving, Running, Testing
<1>3. LocalsOK'
  BY DEF LocalsOK, RefuseOverwrite, Goto, PlaceOK
<1>4. TestingOK'
  BY DEF TestingOK, RefuseOverwrite, Goto, testing, PlaceOK
<1>5. SavingOK'
  BY DEF SavingOK, RefuseOverwrite, Goto, saving, Saving
<1>6. RunningOK'
  BY DEF RunningOK, RefuseOverwrite, Goto, running, Running
<1>7. QED
  BY <1>1, <1>2, <1>3, <1>4, <1>5, <1>6

LEMMA PathIsFreeOK ==
  ASSUME TypeOK, NEW p \in Savers, PathIsFree(p)
  PROVE  TypeOK'
<1> USE DEF TypeOK
<1>1. SharedOK'
  BY DEF SharedOK, PathIsFree, shared
<1>2. PlaceOK'
  BY Kinds DEF PlaceOK, PathIsFree, Goto, Processes, Saving, Running, Testing
<1>3. LocalsOK'
  BY DEF LocalsOK, PathIsFree, Goto, PlaceOK
<1>4. TestingOK'
  BY DEF TestingOK, PathIsFree, Goto, testing, PlaceOK
<1>5. SavingOK'
  BY DEF SavingOK, PathIsFree, Goto, saving, Saving
<1>6. RunningOK'
  BY DEF RunningOK, PathIsFree, Goto, running, Running
<1>7. QED
  BY <1>1, <1>2, <1>3, <1>4, <1>5, <1>6

LEMMA OpenFileOK ==
  ASSUME TypeOK, NEW p \in Savers, OpenFile(p)
  PROVE  TypeOK'
<1> USE DEF TypeOK
<1>1. SharedOK'
  BY Kinds DEF SharedOK, OpenFile, Processes, Saving, Running, Savers, LocalsOK,
     SavingOK, TestingOK, Contents, Artifacts, Torn, Reports, RunRecords
<1>2. PlaceOK'
  BY Kinds DEF PlaceOK, OpenFile, Goto, Processes, Saving, Running, Testing
<1>3. LocalsOK'
  BY DEF LocalsOK, OpenFile, Goto, PlaceOK
<1>4. TestingOK'
  BY DEF TestingOK, OpenFile, Goto, testing, PlaceOK
<1>5. SavingOK'
  BY DEF SavingOK, OpenFile, Goto, saving, Saving
<1>6. RunningOK'
  BY DEF RunningOK, OpenFile, Goto, running, Running
<1>7. QED
  BY <1>1, <1>2, <1>3, <1>4, <1>5, <1>6

LEMMA WriteFileOK ==
  ASSUME TypeOK, NEW p \in Savers, WriteFile(p)
  PROVE  TypeOK'
<1> USE DEF TypeOK
<1>1. SharedOK'
  BY Kinds DEF SharedOK, WriteFile, Processes, Saving, Running, Savers, LocalsOK,
     SavingOK, TestingOK, Contents, Artifacts, Torn, Reports, RunRecords
<1>2. PlaceOK'
  BY Kinds DEF PlaceOK, WriteFile, Goto, Processes, Saving, Running, Testing
<1>3. LocalsOK'
  BY DEF LocalsOK, WriteFile, Goto, PlaceOK
<1>4. TestingOK'
  BY DEF TestingOK, WriteFile, Goto, testing, PlaceOK
<1>5. SavingOK'
  BY DEF SavingOK, WriteFile, Goto, saving, Saving
<1>6. RunningOK'
  BY DEF RunningOK, WriteFile, Goto, running, Running
<1>7. QED
  BY <1>1, <1>2, <1>3, <1>4, <1>5, <1>6

LEMMA ReplayOK ==
  ASSUME TypeOK, NEW p \in Testers \cup Runners, Replay(p)
  PROVE  TypeOK'
<1> USE DEF TypeOK
<1>1. SharedOK'
  BY DEF SharedOK, Replay, shared
<1>2. PlaceOK'
  BY Kinds DEF PlaceOK, Replay, Goto, Processes, Running, Testing
<1>3. LocalsOK'
  BY DEF LocalsOK, Replay, Goto, PlaceOK
<1>4. TestingOK'
  BY DEF TestingOK, Replay, Goto, testing, PlaceOK
<1>5. SavingOK'
  BY DEF SavingOK, Replay, Goto, saving, Saving
<1>6. RunningOK'
  BY DEF RunningOK, Replay, Goto, ApprovedOnly, Blocked, Outcomes, Results
<1>7. QED
  BY <1>1, <1>2, <1>3, <1>4, <1>5, <1>6

LEMMA CopyArtifactOK ==
  ASSUME TypeOK, NEW p \in Testers \cup Runners, CopyArtifact(p)
  PROVE  TypeOK'
<1> USE DEF TypeOK
<1>1. SharedOK'
  BY DEF SharedOK, CopyArtifact, shared
<1>2. PlaceOK'
  BY Kinds DEF PlaceOK, CopyArtifact, Goto, Processes, Running, Testing
<1>3. LocalsOK'
  BY DEF LocalsOK, CopyArtifact, Goto, PlaceOK
<1>4. TestingOK'
  BY DEF TestingOK, CopyArtifact, Goto, testing, PlaceOK, Saving
<1>5. SavingOK'
  BY DEF SavingOK, CopyArtifact, Goto, saving, Saving
<1>6. RunningOK'
  BY DEF RunningOK, CopyArtifact, Goto, PlaceOK, Processes, Saving, SharedOK, LocalsOK,
     NoBundle, Contents
<1>7. QED
  BY <1>1, <1>2, <1>3, <1>4, <1>5, <1>6

LEMMA WriteManifestOK ==
  ASSUME TypeOK, NEW p \in Testers \cup Runners, WriteManifest(p)
  PROVE  TypeOK'
<1> USE DEF TypeOK
<1>1. SharedOK'
  BY DEF SharedOK, WriteManifest, shared
<1>2. PlaceOK'
  BY Kinds DEF PlaceOK, WriteManifest, Goto, Processes, Running, Testing
<1>3. LocalsOK'
  BY DEF LocalsOK, WriteManifest, Goto, PlaceOK
<1>4. TestingOK'
  BY DEF TestingOK, WriteManifest, Goto, testing, PlaceOK
<1>5. SavingOK'
  BY DEF SavingOK, WriteManifest, Goto, saving, Saving
<1>6. RunningOK'
  BY DEF RunningOK, WriteManifest, Goto, PlaceOK, Processes, Saving, SharedOK, LocalsOK
<1>7. QED
  BY <1>1, <1>2, <1>3, <1>4, <1>5, <1>6

LEMMA StartStabilityOK ==
  ASSUME TypeOK, NEW p \in Testers, NEW v \in Versions, NEW x \in Assignments,
     NEW n \in RunCounts, StartStability(p, v, x, n)
  PROVE  TypeOK'
<1> USE DEF TypeOK
<1>1. SharedOK'
  BY DEF SharedOK, StartStability, shared
<1>2. PlaceOK'
  BY Kinds DEF PlaceOK, StartStability, Goto, Processes, Testing
<1>3. LocalsOK'
  BY DEF LocalsOK, StartStability, Goto, Processes, Saving, Running
<1>4. TestingOK'
  BY StartStabilityType
<1>5. SavingOK'
  BY DEF SavingOK, StartStability, Goto, saving, Saving
<1>6. RunningOK'
  BY DEF RunningOK, StartStability, Goto, running, Running
<1>7. QED
  BY <1>1, <1>2, <1>3, <1>4, <1>5, <1>6

LEMMA LoadRunOK ==
  ASSUME TypeOK, NEW p \in Testers, LoadRun(p)
  PROVE  TypeOK'
<1> USE DEF TypeOK
<1>1. SharedOK'
  BY DEF SharedOK, LoadRun, shared
<1>2. PlaceOK'
  BY Kinds DEF PlaceOK, LoadRun, Goto, Processes, Testing
<1>3. LocalsOK'
  BY Kinds DEF LocalsOK, LoadRun, Goto, Processes, SharedOK, Parses
<1>4. TestingOK'
  BY DEF TestingOK, LoadRun, Goto, testing, PlaceOK
<1>5. SavingOK'
  BY DEF SavingOK, LoadRun, Goto, saving, Saving
<1>6. RunningOK'
  BY DEF RunningOK, LoadRun, Goto, running, Running
<1>7. QED
  BY <1>1, <1>2, <1>3, <1>4, <1>5, <1>6

LEMMA LoadRunFailsOK ==
  ASSUME TypeOK, NEW p \in Testers, LoadRunFails(p)
  PROVE  TypeOK'
<1> USE DEF TypeOK
<1>1. SharedOK'
  BY DEF SharedOK, LoadRunFails, shared
<1>2. PlaceOK'
  BY Kinds DEF PlaceOK, LoadRunFails, Goto, Processes, AddRecord, NextRun
<1>3. LocalsOK'
  BY DEF LocalsOK, LoadRunFails, Goto, Saving, Running, AddRecord, NextRun
<1>4. TestingOK'
  BY LoadRunFailsType
<1>5. SavingOK'
  BY DEF SavingOK, LoadRunFails, Goto, saving, Saving, AddRecord, NextRun
<1>6. RunningOK'
  BY DEF RunningOK, LoadRunFails, Goto, running, Running, AddRecord, NextRun
<1>7. QED
  BY <1>1, <1>2, <1>3, <1>4, <1>5, <1>6

LEMMA HashRunOK ==
  ASSUME TypeOK, NEW p \in Testers, HashRun(p)
  PROVE  TypeOK'
<1> USE DEF TypeOK
<1>1. SharedOK'
  BY DEF SharedOK, HashRun, shared
<1>2. PlaceOK'
  BY Kinds DEF PlaceOK, HashRun, Goto, Processes, Running, Testing
<1>3. LocalsOK'
  BY Kinds DEF LocalsOK, HashRun, Goto, Processes, SharedOK
<1>4. TestingOK'
  BY DEF TestingOK, HashRun, Goto, testing, PlaceOK
<1>5. SavingOK'
  BY DEF SavingOK, HashRun, Goto, saving, Saving
<1>6. RunningOK'
  BY DEF RunningOK, HashRun, Goto, running
<1>7. QED
  BY <1>1, <1>2, <1>3, <1>4, <1>5, <1>6

LEMMA FinishRunOK ==
  ASSUME TypeOK, NEW p \in Testers, FinishRun(p)
  PROVE  TypeOK'
<1> USE DEF TypeOK
<1>1. SharedOK'
  BY DEF SharedOK, FinishRun, shared
<1>2. PlaceOK'
  BY Kinds DEF PlaceOK, FinishRun, Goto, Processes, Testing, AddRecord, NextRun
<1>3. LocalsOK'
  BY FinishRunLocals
<1>4. TestingOK'
  BY FinishRunType
<1>5. SavingOK'
  BY DEF SavingOK, FinishRun, Goto, saving, Saving, AddRecord, NextRun
<1>6. RunningOK'
  BY DEF RunningOK, FinishRun, Goto, PlaceOK, Processes, Running, AddRecord, NextRun,
     NoBundle, Contents
<1>7. QED
  BY <1>1, <1>2, <1>3, <1>4, <1>5, <1>6

LEMMA WriteReportOK ==
  ASSUME TypeOK, NEW p \in Testers, WriteReport(p)
  PROVE  TypeOK'
<1> USE DEF TypeOK
<1>1. SharedOK'
  BY Kinds DEF SharedOK, WriteReport, Processes, Saving, Running, Savers, LocalsOK,
     SavingOK, TestingOK, Contents, Artifacts, Reports, RunRecords
<1>2. PlaceOK'
  BY DEF PlaceOK, WriteReport, Goto, Processes
<1>3. LocalsOK'
  BY DEF LocalsOK, WriteReport, Goto, Saving, Running
<1>4. TestingOK'
  BY DEF TestingOK, WriteReport, Goto, testing, Running, Testing
<1>5. SavingOK'
  BY DEF SavingOK, WriteReport, Goto, saving, Saving
<1>6. RunningOK'
  BY DEF RunningOK, WriteReport, Goto, running, Running
<1>7. QED
  BY <1>1, <1>2, <1>3, <1>4, <1>5, <1>6

LEMMA StartApprovalOK ==
  ASSUME TypeOK, NEW p \in Approvers, NEW v \in Versions,
     NEW T \in SUBSET Testers, StartApproval(p, v, T)
  PROVE  TypeOK'
<1> USE DEF TypeOK
<1>1. SharedOK'
  BY DEF SharedOK, StartApproval, shared
<1>2. PlaceOK'
  BY Kinds DEF PlaceOK, StartApproval, Goto, Processes
<1>3. LocalsOK'
  BY DEF LocalsOK, StartApproval, Goto, Processes, SharedOK, Parses
<1>4. TestingOK'
  BY Kinds DEF TestingOK, StartApproval, Goto, testing
<1>5. SavingOK'
  BY DEF SavingOK, StartApproval, Goto, Saving
<1>6. RunningOK'
  BY Kinds DEF RunningOK, StartApproval, Goto, running
<1>7. QED
  BY <1>1, <1>2, <1>3, <1>4, <1>5, <1>6

LEMMA HashDraftOK ==
  ASSUME TypeOK, NEW p \in Approvers, HashDraft(p)
  PROVE  TypeOK'
<1> USE DEF TypeOK
<1>1. SharedOK'
  BY DEF SharedOK, HashDraft, shared
<1>2. PlaceOK'
  BY Kinds DEF PlaceOK, HashDraft, Goto, Processes
<1>3. LocalsOK'
  BY Kinds DEF LocalsOK, HashDraft, Goto, Processes, SharedOK
<1>4. TestingOK'
  BY DEF TestingOK, HashDraft, Goto, testing, PlaceOK
<1>5. SavingOK'
  BY DEF SavingOK, HashDraft, Goto, saving, Saving
<1>6. RunningOK'
  BY Kinds DEF RunningOK, HashDraft, Goto, running
<1>7. QED
  BY <1>1, <1>2, <1>3, <1>4, <1>5, <1>6

LEMMA ReviewOK ==
  ASSUME TypeOK, NEW p \in Approvers, Review(p)
  PROVE  TypeOK'
<1> USE DEF TypeOK
<1>1. SharedOK'
  BY DEF SharedOK, Review, shared
<1>2. PlaceOK'
  BY Kinds DEF PlaceOK, Review, Goto, Processes
<1>3. LocalsOK'
  BY DEF LocalsOK, Review, Goto
<1>4. TestingOK'
  BY DEF TestingOK, Review, Goto, testing, PlaceOK
<1>5. SavingOK'
  BY DEF SavingOK, Review, Goto, saving, Saving
<1>6. RunningOK'
  BY Kinds DEF RunningOK, Review, Goto, running
<1>7. QED
  BY <1>1, <1>2, <1>3, <1>4, <1>5, <1>6

LEMMA NumberApprovedOK ==
  ASSUME TypeOK, NEW p \in Approvers, NumberApproved(p)
  PROVE  TypeOK'
<1> USE DEF TypeOK
<1>1. SharedOK'
  BY DEF SharedOK, NumberApproved, shared
<1>2. PlaceOK'
  BY Kinds DEF PlaceOK, NumberApproved, Goto, Processes, Saving
<1>3. LocalsOK'
  BY DEF LocalsOK, NumberApproved, Goto, Processes, Savers, Contents, Artifacts,
     Artifact
<1>4. TestingOK'
  BY Kinds DEF TestingOK, NumberApproved, Goto, testing
<1>5. SavingOK'
  BY DEF SavingOK, NumberApproved, Goto, Savers
<1>6. RunningOK'
  BY Kinds DEF RunningOK, NumberApproved, Goto, running
<1>7. QED
  BY <1>1, <1>2, <1>3, <1>4, <1>5, <1>6

LEMMA StartReplayOK ==
  ASSUME TypeOK, NEW p \in Runners, NEW v \in Versions,
     NEW why \in Purposes, StartReplay(p, v, why)
  PROVE  TypeOK'
<1> USE DEF TypeOK
<1>1. SharedOK'
  BY DEF SharedOK, StartReplay, shared
<1>2. PlaceOK'
  BY Kinds DEF PlaceOK, StartReplay, Goto, Processes, Running
<1>3. LocalsOK'
  BY DEF LocalsOK, StartReplay, Goto, Processes, SharedOK, Parses
<1>4. TestingOK'
  BY Kinds DEF TestingOK, StartReplay, Goto, testing
<1>5. SavingOK'
  BY DEF SavingOK, StartReplay, Goto, saving, Saving
<1>6. RunningOK'
  BY Kinds, LifecycleBounds DEF RunningOK, StartReplay, Goto
<1>7. QED
  BY <1>1, <1>2, <1>3, <1>4, <1>5, <1>6

LEMMA FinishReplayOK ==
  ASSUME TypeOK, NEW p \in Runners, FinishReplay(p)
  PROVE  TypeOK'
<1> USE DEF TypeOK
<1>1. SharedOK'
  BY DEF SharedOK, FinishReplay, shared
<1>2. PlaceOK'
  BY DEF PlaceOK, FinishReplay, Goto, Processes
<1>3. LocalsOK'
  BY Kinds DEF FinishReplay, RunOver, Goto, PlaceOK, LocalsOK, Saving, Running,
     Processes
<1>4. TestingOK'
  BY Kinds DEF TestingOK, FinishReplay, Goto, testing
<1>5. SavingOK'
  BY DEF SavingOK, FinishReplay, Goto, saving, Saving
<1>6. RunningOK'
  BY Kinds DEF RunningOK, FinishReplay, Goto, NoBundle, Contents
<1>7. QED
  BY <1>1, <1>2, <1>3, <1>4, <1>5, <1>6

LEMMA EditOK ==
  ASSUME TypeOK, NEW v \in Versions, NEW b \in Bodies, Edit(v, b)
  PROVE  TypeOK'
<1> USE DEF TypeOK
<1>1. SharedOK'
  BY EditType
<1>2. PlaceOK'
  BY DEF PlaceOK, Edit
<1>3. LocalsOK'
  BY DEF LocalsOK, Edit
<1>4. TestingOK'
  BY DEF TestingOK, Edit, testing
<1>5. SavingOK'
  BY DEF SavingOK, Edit, saving
<1>6. RunningOK'
  BY DEF RunningOK, Edit, running
<1>7. QED
  BY <1>1, <1>2, <1>3, <1>4, <1>5, <1>6

LEMMA NextType == TypeOK /\ [Next]_vars => TypeOK'
<1> SUFFICES ASSUME TypeOK, [Next]_vars PROVE TypeOK'
  OBVIOUS
<1>1. ASSUME NEW p \in Recorders, NEW b \in Bodies, Record(p, b) PROVE TypeOK'
  BY <1>1, RecordOK
<1>2. ASSUME NEW p \in Savers, RefuseOverwrite(p) PROVE TypeOK'
  BY <1>2, RefuseOverwriteOK
<1>3. ASSUME NEW p \in Savers, PathIsFree(p) PROVE TypeOK'
  BY <1>3, PathIsFreeOK
<1>4. ASSUME NEW p \in Savers, OpenFile(p) PROVE TypeOK'
  BY <1>4, OpenFileOK
<1>5. ASSUME NEW p \in Savers, WriteFile(p) PROVE TypeOK'
  BY <1>5, WriteFileOK
<1>6. ASSUME NEW p \in Testers \cup Runners, Replay(p) PROVE TypeOK'
  BY <1>6, ReplayOK
<1>7. ASSUME NEW p \in Testers \cup Runners, CopyArtifact(p) PROVE TypeOK'
  BY <1>7, CopyArtifactOK
<1>8. ASSUME NEW p \in Testers \cup Runners, WriteManifest(p) PROVE TypeOK'
  BY <1>8, WriteManifestOK
<1>9. ASSUME NEW p \in Testers, NEW v \in Versions, NEW x \in Assignments,
   NEW n \in RunCounts, StartStability(p, v, x, n) PROVE TypeOK'
  BY <1>9, StartStabilityOK
<1>10. ASSUME NEW p \in Testers, LoadRun(p) PROVE TypeOK'
  BY <1>10, LoadRunOK
<1>11. ASSUME NEW p \in Testers, LoadRunFails(p) PROVE TypeOK'
  BY <1>11, LoadRunFailsOK
<1>12. ASSUME NEW p \in Testers, HashRun(p) PROVE TypeOK'
  BY <1>12, HashRunOK
<1>13. ASSUME NEW p \in Testers, FinishRun(p) PROVE TypeOK'
  BY <1>13, FinishRunOK
<1>14. ASSUME NEW p \in Testers, WriteReport(p) PROVE TypeOK'
  BY <1>14, WriteReportOK
<1>15. ASSUME NEW p \in Approvers, NEW v \in Versions,
   NEW T \in SUBSET Testers, StartApproval(p, v, T) PROVE TypeOK'
  BY <1>15, StartApprovalOK
<1>16. ASSUME NEW p \in Approvers, HashDraft(p) PROVE TypeOK'
  BY <1>16, HashDraftOK
<1>17. ASSUME NEW p \in Approvers, Review(p) PROVE TypeOK'
  BY <1>17, ReviewOK
<1>18. ASSUME NEW p \in Approvers, NumberApproved(p) PROVE TypeOK'
  BY <1>18, NumberApprovedOK
<1>19. ASSUME NEW p \in Runners, NEW v \in Versions,
   NEW why \in Purposes, StartReplay(p, v, why) PROVE TypeOK'
  BY <1>19, StartReplayOK
<1>20. ASSUME NEW p \in Runners, FinishReplay(p) PROVE TypeOK'
  BY <1>20, FinishReplayOK
<1>21. ASSUME NEW v \in Versions, NEW b \in Bodies, Edit(v, b) PROVE TypeOK'
  BY <1>21, EditOK
<1>22. ASSUME UNCHANGED vars PROVE TypeOK'
  BY <1>22 DEF TypeOK, SharedOK, PlaceOK, LocalsOK, TestingOK, SavingOK, RunningOK, vars, shared, testing,
     saving, running
<1>23. QED
  BY <1>1, <1>2, <1>3, <1>4, <1>5, <1>6, <1>7, <1>8, <1>9, <1>10, <1>11, <1>12, <1>13,
     <1>14, <1>15, <1>16, <1>17, <1>18, <1>19, <1>20, <1>21, <1>22 DEF Next, Step, Save,
     Stability, Approve, Run, Savers

(* A process of any kind reads, runs and writes only well-formed contents, *)
(* knows its path when it uses it, and a stability process records exactly *)
(* the runs it was asked for.                                              *)
THEOREM LifecycleTypes == Spec => []TypeOK
<1>1. QED
  BY InitType, NextType, PTL DEF Spec

-----------------------------------------------------------------------------
(* What approve turns into an approved artifact was tested *)

(* The runs that violate ApprovedWasTested need a file that changes between *)
(* a load and a hash, or two discoveries that save under one number.        *)
Undisturbed ==
  /\ ~EditsAnytime
  /\ \A d, e \in Recorders : d = e

(* The one draft is revision 1, from the moment its recorder wrote it, and *)
(* no saver comes near it again; everything later is approved.             *)
DraftInv ==
  /\ \A v \in Versions : Parses(v) => (files[v].status = "draft" <=> v = 1)
  /\ \A d \in Recorders : pc[d] \in Saving => target[d] = 1 /\ loaded[d].status = "draft"
  /\ \A a \in Approvers : pc[a] \in Saving => target[a] # 1 /\ loaded[a].status = "approved"
  /\ \A d \in Recorders : pc[d] = "idle" =>
       (\A v \in Versions : files[v] = Missing) /\ (\A a \in Approvers : pc[a] = "idle")
  /\ \A d \in Recorders : pc[d] \in Saving => ~Parses(1)

(* A draft's digest is the digest of the draft that was loaded.            *)
IsDraft(content) == content.status = "draft"
Honest(record) ==
  record.status = "success" /\ IsDraft(record.artifact_sha256)
    => record.ran = record.artifact_sha256
HashInv ==
  /\ \A p \in Testers \cup Approvers :
       pc[p] = "hash" => files[path[p]] = loaded[p] \/ path[p] # 1
  /\ \A t \in Testers :
       pc[t] \in Running => (IsDraft(digest[t]) => digest[t] = loaded[t])
  /\ \A t \in Testers : \A i \in 1..Len(records[t]) : Honest(records[t][i])
  /\ \A t \in Testers : reports[t] # NoReport =>
       pc[t] = "saved" /\ \A i \in 1..Len(reports[t].runs) : Honest(reports[t].runs[i])

(* An approver holds the draft it reviews, and what it was given is there. *)
ReviewInv ==
  /\ \A a \in Approvers : pc[a] # "idle" => \A t \in cited[a] : reports[t] # NoReport
  /\ \A a \in Approvers : pc[a] = "hash" => path[a] = 1 /\ IsDraft(loaded[a])
  /\ \A a \in Approvers : pc[a] = "review" => digest[a] = loaded[a] /\ IsDraft(loaded[a])

TestedInv == DraftInv /\ HashInv /\ ReviewInv /\ ApprovedWasTested

LEMMA One == 1 \in Versions
  BY LifecycleBounds DEF Versions

LEMMA RecordDraft ==
  ASSUME PlaceOK, SharedOK, LocalsOK, SavingOK, Undisturbed, DraftInv,
         NEW p \in Recorders, NEW b \in Bodies, Record(p, b)
  PROVE  DraftInv'
<1>1. /\ \A v \in Versions : files[v] = Missing
      /\ \A a \in Approvers : pc[a] = "idle"
  BY DEF Record, DraftInv
<1>2. PICK v \in Versions :
        /\ next_version(v, 0)
        /\ target' = [target EXCEPT ![p] = v]
        /\ loaded' = [loaded EXCEPT ![p] = Artifact("draft", v, b, p)]
  BY DEF Record
<1>3. v = 1
  <2>1. v \in Nat /\ v > 0
    BY LifecycleBounds DEF Versions
  <2>2. v > 1 => v - 1 \in Versions
    BY <2>1, LifecycleBounds DEF Versions
  <2>3. v > 1 => Exists(v - 1)
    BY <1>2, <2>1 DEF next_version
  <2>4. QED
    BY <1>1, <2>1, <2>2, <2>3 DEF Exists
<1>4. target'[p] = 1 /\ loaded'[p].status = "draft"
  BY <1>2, <1>3 DEF SavingOK, LocalsOK, Savers, Processes, Artifact
<1>5. /\ pc'[p] = "exists" /\ files' = files
      /\ \A a \in Approvers : pc'[a] = "idle"
      /\ \A d \in Recorders : d = p
  BY <1>1, Kinds DEF Record, Goto, PlaceOK, Processes, shared, Undisturbed
<1>6. \A v_1 \in Versions : ~Parses(v_1)'
  BY <1>1, <1>5 DEF Parses, Missing, Artifacts
<1>7. QED
  BY <1>4, <1>5, <1>6, One DEF DraftInv, Saving

LEMMA DraftIsFirst ==
  ASSUME SharedOK, DraftInv, NEW v \in Versions, IsDraft(files[v])
  PROVE  v = 1
<1>1. Parses(v)
  BY DEF SharedOK, Contents, Missing, Torn, IsDraft, Parses
<1>2. QED
  BY <1>1 DEF DraftInv, IsDraft

LEMMA HashRunHash ==
  ASSUME PlaceOK, SharedOK, LocalsOK, DraftInv, HashInv, NEW p \in Testers, HashRun(p)
  PROVE  HashInv'
<1>1. path[p] \in Versions
  BY Kinds DEF HashRun, LocalsOK, PlaceOK, Processes
<1>2. IsDraft(files[path[p]]) => files[path[p]] = loaded[p]
  BY <1>1, DraftIsFirst DEF HashInv, HashRun
<1>3. digest'[p] = files[path[p]] /\ loaded' = loaded /\ path' = path /\ files' = files
  BY DEF HashRun, LocalsOK, Processes, shared
<1>4. /\ pc'[p] = "replay"
      /\ \A q \in Processes : q # p => pc'[q] = pc[q] /\ digest'[q] = digest[q]
  BY DEF HashRun, Goto, LocalsOK, PlaceOK, Processes
<1>5. records' = records /\ reports' = reports
  BY DEF HashRun, shared, testing
<1>6. \A q \in Testers \cup Approvers : pc'[q] = "hash" => files'[path'[q]] = loaded'[q] \/ path'[q] # 1
  BY <1>3, <1>4 DEF HashInv, Processes
<1>7. \A t \in Testers : pc'[t] \in Running => (IsDraft(digest'[t]) => digest'[t] = loaded'[t])
  BY <1>2, <1>3, <1>4 DEF HashInv, Processes
<1>8. \A t \in Testers : reports[t] # NoReport => t # p
  BY DEF HashInv, HashRun
<1>9. QED
  BY <1>4, <1>5, <1>6, <1>7, <1>8 DEF HashInv, Processes

LEMMA ReviewTested ==
  ASSUME TypeOK, HashInv, ReviewInv, ApprovedWasTested, NEW p \in Approvers, Review(p)
  PROVE  ApprovedWasTested'
<1> USE DEF TypeOK
<1>1. loaded' = loaded /\ cited' = cited /\ reports' = reports
  BY DEF Review, shared, saving
<1>2. \A a \in Approvers : a # p => pc'[a] = pc[a]
  BY DEF Review, Goto, PlaceOK, Processes
<1>3. CASE Accepted(p)
  <2>1. SUFFICES ASSUME NEW t \in cited[p], NEW i \in 1..Len(reports[t].runs)
                 PROVE  reports[t].runs[i].ran.body = loaded[p].body
    BY <1>1, <1>2 DEF ApprovedWasTested
  <2>2. digest[p] = loaded[p] /\ IsDraft(loaded[p])
    BY DEF ReviewInv, Review
  <2>3. t \in Testers /\ reports[t] # NoReport
    BY DEF ReviewInv, Review, SavingOK
  <2>4. Honest(reports[t].runs[i])
    BY <2>3 DEF HashInv
  <2>5. Qualifies(reports[t], loaded[p], digest[p])
    BY <1>3 DEF Accepted
  <2>6. reports[t].runs[i].status = "success" /\ reports[t].runs[i].artifact_sha256 = digest[p]
    BY <2>5 DEF Qualifies, Eligible
  <2>7. QED
    BY <2>2, <2>4, <2>6 DEF Honest
<1>4. CASE ~Accepted(p)
  <2>1. pc'[p] = "refused"
    BY <1>4 DEF Review, Goto, PlaceOK, Processes
  <2>2. QED
    BY <1>1, <1>2, <2>1 DEF ApprovedWasTested
<1>5. QED
  BY <1>3, <1>4

LEMMA NumberKeepsBody ==
  ASSUME TypeOK, NEW p \in Approvers, NumberApproved(p)
  PROVE  /\ \E v \in Versions :
              /\ v # 1
              /\ target'[p] = v
              /\ loaded'[p] = Artifact("approved", v, loaded[p].body, p)
         /\ pc'[p] = "exists"
         /\ \A q \in Processes : q # p =>
              pc'[q] = pc[q] /\ loaded'[q] = loaded[q] /\ (q \in Savers => target'[q] = target[q])
         /\ UNCHANGED <<files, reports, cited>>
<1> USE DEF TypeOK
<1>1. PICK v \in Versions :
        /\ next_version(v, loaded[p].version)
        /\ target' = [target EXCEPT ![p] = v]
        /\ loaded' = [loaded EXCEPT ![p] = Artifact("approved", v, @.body, p)]
  BY DEF NumberApproved
<1>2. loaded[p].version \in Versions
  BY DEF NumberApproved, LocalsOK, Processes, Artifacts
<1>3. v # 1
  BY <1>1, <1>2, LifecycleBounds DEF next_version, Versions
<1>4. p \in Processes /\ p \in Savers
  BY DEF Processes, Savers
<1>5. QED
  BY <1>1, <1>3, <1>4 DEF NumberApproved, Goto, PlaceOK, LocalsOK, SavingOK, shared

LEMMA NumberDraft ==
  ASSUME TypeOK, DraftInv, NEW p \in Approvers, NumberApproved(p)
  PROVE  DraftInv'
<1> USE DEF TypeOK
<1>1. target'[p] # 1 /\ loaded'[p].status = "approved"
  <2>1. PICK v \in Versions :
          v # 1 /\ target'[p] = v /\ loaded'[p] = Artifact("approved", v, loaded[p].body, p)
    BY NumberKeepsBody
  <2>2. QED
    BY <2>1 DEF Artifact
<1>2. \A d \in Recorders : pc[d] # "idle"
  BY DEF DraftInv, NumberApproved
<1>3. QED
  BY <1>1, <1>2, NumberKeepsBody, Kinds DEF DraftInv, Processes, Savers, Saving, Parses

LEMMA NumberTested ==
  ASSUME TypeOK, ApprovedWasTested, NEW p \in Approvers, NumberApproved(p)
  PROVE  ApprovedWasTested'
<1>1. loaded'[p].body = loaded[p].body /\ pc[p] = "number"
  BY NumberKeepsBody DEF Artifact, NumberApproved
<1>2. \A a \in Approvers : a # p => pc'[a] = pc[a] /\ loaded'[a] = loaded[a]
  BY NumberKeepsBody DEF Processes
<1>3. QED
  BY <1>1, <1>2, NumberKeepsBody DEF ApprovedWasTested

(* No recorder is idle once a saver saves.                                 *)
LEMMA SavingMeansRecorded ==
  ASSUME Undisturbed, DraftInv, NEW p \in Savers, pc[p] \in Saving
  PROVE  \A d \in Recorders : pc[d] # "idle"
BY DEF Undisturbed, DraftInv, Savers, Saving

LEMMA OpenFileDraft ==
  ASSUME TypeOK, Undisturbed, DraftInv, NEW p \in Savers, OpenFile(p)
  PROVE  DraftInv'
<1> USE DEF TypeOK
<1>1. /\ pc[p] \in Saving /\ target[p] \in Versions
      /\ \A d \in Recorders : pc[d] # "idle"
  BY SavingMeansRecorded DEF OpenFile, Saving, SavingOK
<1>2. \A v \in Versions : files'[v] = IF v = target[p] THEN Torn ELSE files[v]
  BY <1>1 DEF OpenFile, SharedOK
<1>3. \A v \in Versions : Parses(v)' => Parses(v) /\ files'[v] = files[v]
  BY <1>2 DEF Parses, Torn, Artifacts
<1>4. \A q \in Processes : (pc'[q] = pc[q] /\ q # p) \/ (pc'[q] = "write" /\ q = p)
  BY DEF OpenFile, Goto, PlaceOK
<1>5. loaded' = loaded /\ target' = target
  BY DEF OpenFile, saving
<1>6. QED
  BY <1>1, <1>3, <1>4, <1>5, One DEF DraftInv, Processes, Saving

LEMMA WriteFileDraft ==
  ASSUME TypeOK, Undisturbed, DraftInv, NEW p \in Savers, WriteFile(p)
  PROVE  DraftInv'
<1> USE DEF TypeOK
<1>1. /\ pc[p] \in Saving /\ target[p] \in Versions
      /\ \A d \in Recorders : pc[d] # "idle"
  BY SavingMeansRecorded DEF WriteFile, Saving, SavingOK
<1>2. loaded' = loaded /\ target' = target /\ p \in Processes
  BY DEF WriteFile, saving, Processes, Savers
<1>3. \A v \in Versions : v # target[p] => files'[v] = files[v]
  BY <1>1 DEF WriteFile, SharedOK
<1>4. files'[target[p]] = loaded[p] \/ files'[target[p]] = Torn
  BY <1>1 DEF WriteFile, SharedOK
<1>5. \A q \in Processes : (pc'[q] = pc[q] /\ q # p) \/ (pc'[q] = "saved" /\ q = p)
  BY DEF WriteFile, Goto, PlaceOK
<1>6. loaded[p].status = "draft" <=> target[p] = 1
  BY <1>1 DEF DraftInv, Savers
<1>7. ASSUME NEW v \in Versions, Parses(v)' PROVE files'[v].status = "draft" <=> v = 1
  <2>1. CASE v = target[p]
    BY <1>4, <1>6, <1>7, <2>1 DEF Parses, Torn, Artifacts
  <2>2. CASE v # target[p]
    BY <1>3, <1>7, <2>2 DEF DraftInv, Parses
  <2>3. QED
    BY <2>1, <2>2
<1>8. ASSUME NEW d \in Recorders, pc'[d] \in Saving PROVE ~Parses(1)'
  <2>1. d # p /\ pc[d] \in Saving
    BY <1>5, <1>8 DEF Processes, Saving
  <2>2. p \in Approvers
    BY <2>1 DEF Savers, Undisturbed
  <2>3. target[p] # 1
    BY <1>1, <2>2 DEF DraftInv
  <2>4. QED
    BY <1>3, <2>1, <2>3, One DEF DraftInv, Parses
<1>9. QED
  BY <1>1, <1>2, <1>5, <1>7, <1>8 DEF DraftInv, Processes, Savers, Saving

(* An edit changes no file that a process has loaded and not yet hashed.   *)
LEMMA EditHash ==
  ASSUME TypeOK, Undisturbed, HashInv, NEW v \in Versions, NEW b \in Bodies, Edit(v, b)
  PROVE  HashInv'
<1>1. UNCHANGED <<reports, pc, path, loaded, digest, records>>
  BY DEF Edit, testing
<1>2. \A p \in Processes : pc[p] = "hash" => path[p] # v
  BY DEF Edit, Undisturbed
<1>3. \A w \in Versions : w # v => files'[w] = files[w]
  BY DEF Edit, TypeOK, SharedOK
<1>4. \A p \in Testers \cup Approvers :
        pc'[p] = "hash" => files'[path'[p]] = loaded'[p] \/ path'[p] # 1
  BY <1>1, <1>2, <1>3, One DEF HashInv, Processes
<1>5. QED
  BY <1>1, <1>4 DEF HashInv

LEMMA InitTested == Init => TestedInv
<1> SUFFICES ASSUME Init PROVE TestedInv
  OBVIOUS
<1>1. DraftInv
  BY Kinds DEF Init, DraftInv, Parses, Artifacts, Missing, Saving, Processes
<1>2. HashInv
  BY DEF Init, HashInv, Running, NoReport, Processes
<1>3. ReviewInv
  BY DEF Init, ReviewInv, Processes
<1>4. ApprovedWasTested
  BY DEF Init, ApprovedWasTested, Processes
<1>5. QED
  BY <1>1, <1>2, <1>3, <1>4 DEF TestedInv

LEMMA RecordKeeps ==
  ASSUME TypeOK, Undisturbed, TestedInv, NEW p \in Recorders, NEW b \in Bodies,
     Record(p, b)
  PROVE  TestedInv'
<1> USE DEF TypeOK, TestedInv
<1>1. DraftInv'
  BY RecordDraft
<1>2. HashInv'
  BY Kinds DEF HashInv, Record, Goto, shared, testing
<1>3. ReviewInv'
  BY Kinds DEF ReviewInv, Record, Goto, shared
<1>4. ApprovedWasTested'
  BY Kinds DEF ApprovedWasTested, Record, Goto, shared
<1>5. QED
  BY <1>1, <1>2, <1>3, <1>4

LEMMA RefuseOverwriteKeeps ==
  ASSUME TypeOK, Undisturbed, TestedInv, NEW p \in Savers, RefuseOverwrite(p)
  PROVE  TestedInv'
<1> USE DEF TypeOK, TestedInv
<1>1. DraftInv'
  BY DEF DraftInv, RefuseOverwrite, Goto, PlaceOK, shared, saving, Parses
<1>2. HashInv'
  BY Kinds DEF HashInv, RefuseOverwrite, Goto, shared, testing, Savers
<1>3. ReviewInv'
  BY DEF ReviewInv, RefuseOverwrite, Goto, shared, saving
<1>4. ApprovedWasTested'
  BY DEF ApprovedWasTested, RefuseOverwrite, Goto, shared, saving
<1>5. QED
  BY <1>1, <1>2, <1>3, <1>4

LEMMA PathIsFreeKeeps ==
  ASSUME TypeOK, Undisturbed, TestedInv, NEW p \in Savers, PathIsFree(p)
  PROVE  TestedInv'
<1> USE DEF TypeOK, TestedInv
<1>1. DraftInv'
  BY DEF DraftInv, PathIsFree, Goto, PlaceOK, shared, saving, Parses
<1>2. HashInv'
  BY Kinds DEF HashInv, PathIsFree, Goto, shared, testing, Savers
<1>3. ReviewInv'
  BY DEF ReviewInv, PathIsFree, Goto, shared, saving
<1>4. ApprovedWasTested'
  BY DEF ApprovedWasTested, PathIsFree, Goto, shared, saving
<1>5. QED
  BY <1>1, <1>2, <1>3, <1>4

LEMMA OpenFileKeeps ==
  ASSUME TypeOK, Undisturbed, TestedInv, NEW p \in Savers, OpenFile(p)
  PROVE  TestedInv'
<1> USE DEF TypeOK, TestedInv
<1>1. DraftInv'
  BY OpenFileDraft
<1>2. HashInv'
  BY Kinds DEF HashInv, OpenFile, Goto, PlaceOK, LocalsOK, Processes, testing, Savers,
     Parses, DraftInv
<1>3. ReviewInv'
  BY DEF ReviewInv, OpenFile, Goto, saving
<1>4. ApprovedWasTested'
  BY DEF ApprovedWasTested, OpenFile, Goto, saving
<1>5. QED
  BY <1>1, <1>2, <1>3, <1>4

LEMMA WriteFileKeeps ==
  ASSUME TypeOK, Undisturbed, TestedInv, NEW p \in Savers, WriteFile(p)
  PROVE  TestedInv'
<1> USE DEF TypeOK, TestedInv
<1>1. DraftInv'
  BY WriteFileDraft
<1>2. HashInv'
  BY Kinds DEF HashInv, WriteFile, Goto, PlaceOK, LocalsOK, Processes, testing, Savers,
     SharedOK, Parses, DraftInv
<1>3. ReviewInv'
  BY DEF ReviewInv, WriteFile, Goto, saving
<1>4. ApprovedWasTested'
  BY DEF ApprovedWasTested, WriteFile, Goto, saving
<1>5. QED
  BY <1>1, <1>2, <1>3, <1>4

LEMMA ReplayKeeps ==
  ASSUME TypeOK, Undisturbed, TestedInv, NEW p \in Testers \cup Runners, Replay(p)
  PROVE  TestedInv'
<1> USE DEF TypeOK, TestedInv
<1>1. DraftInv'
  BY Kinds DEF DraftInv, Replay, Goto, shared, saving, Parses
<1>2. HashInv'
  BY DEF HashInv, Replay, Goto, PlaceOK, shared, testing, Saving
<1>3. ReviewInv'
  BY DEF ReviewInv, Replay, Goto, shared, saving
<1>4. ApprovedWasTested'
  BY DEF ApprovedWasTested, Replay, Goto, shared, saving
<1>5. QED
  BY <1>1, <1>2, <1>3, <1>4

LEMMA CopyArtifactKeeps ==
  ASSUME TypeOK, Undisturbed, TestedInv, NEW p \in Testers \cup Runners,
     CopyArtifact(p)
  PROVE  TestedInv'
<1> USE DEF TypeOK, TestedInv
<1>1. DraftInv'
  BY Kinds DEF DraftInv, CopyArtifact, Goto, shared, saving, Parses
<1>2. HashInv'
  BY DEF HashInv, CopyArtifact, Goto, PlaceOK, shared, testing, Saving
<1>3. ReviewInv'
  BY DEF ReviewInv, CopyArtifact, Goto, shared, saving
<1>4. ApprovedWasTested'
  BY DEF ApprovedWasTested, CopyArtifact, Goto, shared, saving
<1>5. QED
  BY <1>1, <1>2, <1>3, <1>4

LEMMA WriteManifestKeeps ==
  ASSUME TypeOK, Undisturbed, TestedInv, NEW p \in Testers \cup Runners,
     WriteManifest(p)
  PROVE  TestedInv'
<1> USE DEF TypeOK, TestedInv
<1>1. DraftInv'
  BY Kinds DEF DraftInv, WriteManifest, Goto, shared, saving, Parses
<1>2. HashInv'
  BY DEF HashInv, WriteManifest, Goto, PlaceOK, shared, testing, Saving
<1>3. ReviewInv'
  BY DEF ReviewInv, WriteManifest, Goto, shared, saving
<1>4. ApprovedWasTested'
  BY DEF ApprovedWasTested, WriteManifest, Goto, shared, saving
<1>5. QED
  BY <1>1, <1>2, <1>3, <1>4

LEMMA StartStabilityKeeps ==
  ASSUME TypeOK, Undisturbed, TestedInv, NEW p \in Testers, NEW v \in Versions,
     NEW x \in Assignments, NEW n \in RunCounts, StartStability(p, v, x, n)
  PROVE  TestedInv'
<1> USE DEF TypeOK, TestedInv
<1>1. DraftInv'
  BY Kinds DEF DraftInv, StartStability, Goto, shared, saving, Parses
<1>2. HashInv'
  BY DEF HashInv, StartStability, Goto, shared, Running
<1>3. ReviewInv'
  BY Kinds DEF ReviewInv, StartStability, Goto, shared, saving
<1>4. ApprovedWasTested'
  BY DEF ApprovedWasTested, StartStability, Goto, shared, saving
<1>5. QED
  BY <1>1, <1>2, <1>3, <1>4

LEMMA LoadRunKeeps ==
  ASSUME TypeOK, Undisturbed, TestedInv, NEW p \in Testers, LoadRun(p)
  PROVE  TestedInv'
<1> USE DEF TypeOK, TestedInv
<1>1. DraftInv'
  BY Kinds DEF DraftInv, LoadRun, Goto, shared, saving, Parses
<1>2. HashInv'
  BY DEF HashInv, LoadRun, Goto, PlaceOK, LocalsOK, shared, testing, Running
<1>3. ReviewInv'
  BY Kinds DEF ReviewInv, LoadRun, Goto, shared, saving
<1>4. ApprovedWasTested'
  BY DEF ApprovedWasTested, LoadRun, Goto, shared, saving
<1>5. QED
  BY <1>1, <1>2, <1>3, <1>4

LEMMA LoadRunFailsKeeps ==
  ASSUME TypeOK, Undisturbed, TestedInv, NEW p \in Testers, LoadRunFails(p)
  PROVE  TestedInv'
<1> USE DEF TypeOK, TestedInv
<1>1. DraftInv'
  BY Kinds DEF DraftInv, LoadRunFails, Goto, shared, saving, Parses, AddRecord
<1>2. HashInv'
  BY DEF HashInv, LoadRunFails, Goto, shared, Running, Honest, AddRecord, NextRun,
     RunRecord
<1>3. ReviewInv'
  BY Kinds DEF ReviewInv, LoadRunFails, Goto, shared, saving, AddRecord
<1>4. ApprovedWasTested'
  BY Kinds DEF ApprovedWasTested, LoadRunFails, Goto, shared, saving, AddRecord
<1>5. QED
  BY <1>1, <1>2, <1>3, <1>4

LEMMA HashRunKeeps ==
  ASSUME TypeOK, Undisturbed, TestedInv, NEW p \in Testers, HashRun(p)
  PROVE  TestedInv'
<1> USE DEF TypeOK, TestedInv
<1>1. DraftInv'
  BY Kinds DEF DraftInv, HashRun, Goto, shared, saving, Parses
<1>2. HashInv'
  BY HashRunHash
<1>3. ReviewInv'
  BY DEF ReviewInv, HashRun, Goto, shared, saving
<1>4. ApprovedWasTested'
  BY DEF ApprovedWasTested, HashRun, Goto, shared, saving
<1>5. QED
  BY <1>1, <1>2, <1>3, <1>4

LEMMA FinishRunKeeps ==
  ASSUME TypeOK, Undisturbed, TestedInv, NEW p \in Testers, FinishRun(p)
  PROVE  TestedInv'
<1> USE DEF TypeOK, TestedInv
<1>1. DraftInv'
  BY Kinds DEF DraftInv, FinishRun, Goto, shared, saving, Parses, AddRecord
<1>2. HashInv'
  BY DEF HashInv, FinishRun, Goto, PlaceOK, LocalsOK, Processes, shared, Saving, Honest,
     AddRecord, NextRun, RunOver, RunRecord
<1>3. ReviewInv'
  BY Kinds DEF ReviewInv, FinishRun, Goto, shared, saving, AddRecord
<1>4. ApprovedWasTested'
  BY Kinds DEF ApprovedWasTested, FinishRun, Goto, shared, saving, AddRecord
<1>5. QED
  BY <1>1, <1>2, <1>3, <1>4

LEMMA WriteReportKeeps ==
  ASSUME TypeOK, Undisturbed, TestedInv, NEW p \in Testers, WriteReport(p)
  PROVE  TestedInv'
<1> USE DEF TypeOK, TestedInv
<1>1. DraftInv'
  BY Kinds DEF DraftInv, WriteReport, Goto, saving, Parses
<1>2. HashInv'
  BY DEF HashInv, WriteReport, Goto, PlaceOK, Processes, testing, Running
<1>3. ReviewInv'
  BY DEF ReviewInv, WriteReport, Goto, saving, NoReport
<1>4. ApprovedWasTested'
  BY Kinds, One DEF ApprovedWasTested, WriteReport, Goto, PlaceOK, LocalsOK, Processes,
     testing, saving, Saving, Savers, Running, Testing, SavingOK, SharedOK, Contents,
     Artifacts, Missing, Parses, DraftInv, NoReport, HashInv, ReviewInv
<1>5. QED
  BY <1>1, <1>2, <1>3, <1>4

LEMMA StartApprovalKeeps ==
  ASSUME TypeOK, Undisturbed, TestedInv, NEW p \in Approvers, NEW v \in Versions,
     NEW T \in SUBSET Testers, StartApproval(p, v, T)
  PROVE  TestedInv'
<1> USE DEF TypeOK, TestedInv
<1>1. DraftInv'
  BY DEF DraftInv, StartApproval, Goto, shared, Saving, Missing, Parses
<1>2. HashInv'
  BY Kinds DEF HashInv, StartApproval, Goto, PlaceOK, LocalsOK, shared, testing
<1>3. ReviewInv'
  BY DEF ReviewInv, StartApproval, Goto, PlaceOK, LocalsOK, shared, SavingOK, IsDraft,
     DraftInv
<1>4. ApprovedWasTested'
  BY DEF ApprovedWasTested, StartApproval, Goto, shared
<1>5. QED
  BY <1>1, <1>2, <1>3, <1>4

LEMMA HashDraftKeeps ==
  ASSUME TypeOK, Undisturbed, TestedInv, NEW p \in Approvers, HashDraft(p)
  PROVE  TestedInv'
<1> USE DEF TypeOK, TestedInv
<1>1. DraftInv'
  BY DEF DraftInv, HashDraft, Goto, shared, saving, Saving, Parses
<1>2. HashInv'
  BY Kinds DEF HashInv, HashDraft, Goto, shared, testing
<1>3. ReviewInv'
  BY DEF ReviewInv, HashDraft, Goto, PlaceOK, LocalsOK, shared, saving, HashInv
<1>4. ApprovedWasTested'
  BY DEF ApprovedWasTested, HashDraft, Goto, shared, saving
<1>5. QED
  BY <1>1, <1>2, <1>3, <1>4

LEMMA ReviewKeeps ==
  ASSUME TypeOK, Undisturbed, TestedInv, NEW p \in Approvers, Review(p)
  PROVE  TestedInv'
<1> USE DEF TypeOK, TestedInv
<1>1. DraftInv'
  BY DEF DraftInv, Review, Goto, shared, saving, Saving, Parses
<1>2. HashInv'
  BY Kinds DEF HashInv, Review, Goto, shared, testing
<1>3. ReviewInv'
  BY DEF ReviewInv, Review, Goto, shared, saving
<1>4. ApprovedWasTested'
  BY ReviewTested
<1>5. QED
  BY <1>1, <1>2, <1>3, <1>4

LEMMA NumberApprovedKeeps ==
  ASSUME TypeOK, Undisturbed, TestedInv, NEW p \in Approvers, NumberApproved(p)
  PROVE  TestedInv'
<1> USE DEF TypeOK, TestedInv
<1>1. DraftInv'
  BY NumberDraft
<1>2. HashInv'
  BY Kinds DEF HashInv, NumberApproved, Goto, shared, testing
<1>3. ReviewInv'
  BY DEF ReviewInv, NumberApproved, Goto, shared
<1>4. ApprovedWasTested'
  BY NumberTested
<1>5. QED
  BY <1>1, <1>2, <1>3, <1>4

LEMMA StartReplayKeeps ==
  ASSUME TypeOK, Undisturbed, TestedInv, NEW p \in Runners, NEW v \in Versions,
     NEW why \in Purposes, StartReplay(p, v, why)
  PROVE  TestedInv'
<1> USE DEF TypeOK, TestedInv
<1>1. DraftInv'
  BY Kinds DEF DraftInv, StartReplay, Goto, shared, saving, Parses
<1>2. HashInv'
  BY Kinds DEF HashInv, StartReplay, Goto, shared, testing
<1>3. ReviewInv'
  BY Kinds DEF ReviewInv, StartReplay, Goto, shared, saving
<1>4. ApprovedWasTested'
  BY DEF ApprovedWasTested, StartReplay, Goto, shared, saving
<1>5. QED
  BY <1>1, <1>2, <1>3, <1>4

LEMMA FinishReplayKeeps ==
  ASSUME TypeOK, Undisturbed, TestedInv, NEW p \in Runners, FinishReplay(p)
  PROVE  TestedInv'
<1> USE DEF TypeOK, TestedInv
<1>1. DraftInv'
  BY Kinds DEF DraftInv, FinishReplay, Goto, shared, saving, Parses
<1>2. HashInv'
  BY Kinds DEF HashInv, FinishReplay, Goto, shared, testing
<1>3. ReviewInv'
  BY Kinds DEF ReviewInv, FinishReplay, Goto, shared, saving
<1>4. ApprovedWasTested'
  BY Kinds DEF ApprovedWasTested, FinishReplay, Goto, shared, saving
<1>5. QED
  BY <1>1, <1>2, <1>3, <1>4

LEMMA EditKeeps ==
  ASSUME TypeOK, Undisturbed, TestedInv, NEW v \in Versions, NEW b \in Bodies,
     Edit(v, b)
  PROVE  TestedInv'
<1> USE DEF TypeOK, TestedInv
<1>1. DraftInv'
  BY DEF DraftInv, Edit, saving, Missing, Parses
<1>2. HashInv'
  BY EditHash
<1>3. ReviewInv'
  BY DEF ReviewInv, Edit, saving
<1>4. ApprovedWasTested'
  BY DEF ApprovedWasTested, Edit, saving
<1>5. QED
  BY <1>1, <1>2, <1>3, <1>4

LEMMA NextTested == TypeOK /\ Undisturbed /\ TestedInv /\ [Next]_vars => TestedInv'
<1> SUFFICES ASSUME TypeOK, Undisturbed, TestedInv, [Next]_vars PROVE TestedInv'
  OBVIOUS
<1>1. ASSUME NEW p \in Recorders, NEW b \in Bodies, Record(p, b) PROVE TestedInv'
  BY <1>1, RecordKeeps
<1>2. ASSUME NEW p \in Savers, RefuseOverwrite(p) PROVE TestedInv'
  BY <1>2, RefuseOverwriteKeeps
<1>3. ASSUME NEW p \in Savers, PathIsFree(p) PROVE TestedInv'
  BY <1>3, PathIsFreeKeeps
<1>4. ASSUME NEW p \in Savers, OpenFile(p) PROVE TestedInv'
  BY <1>4, OpenFileKeeps
<1>5. ASSUME NEW p \in Savers, WriteFile(p) PROVE TestedInv'
  BY <1>5, WriteFileKeeps
<1>6. ASSUME NEW p \in Testers \cup Runners, Replay(p) PROVE TestedInv'
  BY <1>6, ReplayKeeps
<1>7. ASSUME NEW p \in Testers \cup Runners, CopyArtifact(p) PROVE TestedInv'
  BY <1>7, CopyArtifactKeeps
<1>8. ASSUME NEW p \in Testers \cup Runners, WriteManifest(p) PROVE TestedInv'
  BY <1>8, WriteManifestKeeps
<1>9. ASSUME NEW p \in Testers, NEW v \in Versions, NEW x \in Assignments,
   NEW n \in RunCounts, StartStability(p, v, x, n) PROVE TestedInv'
  BY <1>9, StartStabilityKeeps
<1>10. ASSUME NEW p \in Testers, LoadRun(p) PROVE TestedInv'
  BY <1>10, LoadRunKeeps
<1>11. ASSUME NEW p \in Testers, LoadRunFails(p) PROVE TestedInv'
  BY <1>11, LoadRunFailsKeeps
<1>12. ASSUME NEW p \in Testers, HashRun(p) PROVE TestedInv'
  BY <1>12, HashRunKeeps
<1>13. ASSUME NEW p \in Testers, FinishRun(p) PROVE TestedInv'
  BY <1>13, FinishRunKeeps
<1>14. ASSUME NEW p \in Testers, WriteReport(p) PROVE TestedInv'
  BY <1>14, WriteReportKeeps
<1>15. ASSUME NEW p \in Approvers, NEW v \in Versions,
   NEW T \in SUBSET Testers, StartApproval(p, v, T) PROVE TestedInv'
  BY <1>15, StartApprovalKeeps
<1>16. ASSUME NEW p \in Approvers, HashDraft(p) PROVE TestedInv'
  BY <1>16, HashDraftKeeps
<1>17. ASSUME NEW p \in Approvers, Review(p) PROVE TestedInv'
  BY <1>17, ReviewKeeps
<1>18. ASSUME NEW p \in Approvers, NumberApproved(p) PROVE TestedInv'
  BY <1>18, NumberApprovedKeeps
<1>19. ASSUME NEW p \in Runners, NEW v \in Versions,
   NEW why \in Purposes, StartReplay(p, v, why) PROVE TestedInv'
  BY <1>19, StartReplayKeeps
<1>20. ASSUME NEW p \in Runners, FinishReplay(p) PROVE TestedInv'
  BY <1>20, FinishReplayKeeps
<1>21. ASSUME NEW v \in Versions, NEW b \in Bodies, Edit(v, b) PROVE TestedInv'
  BY <1>21, EditKeeps
<1>22. ASSUME UNCHANGED vars PROVE TestedInv'
  BY <1>22 DEF TestedInv, DraftInv, HashInv, ReviewInv, ApprovedWasTested, Parses, IsDraft, Honest,
     vars, shared, testing, saving
<1>23. QED
  BY <1>1, <1>2, <1>3, <1>4, <1>5, <1>6, <1>7, <1>8, <1>9, <1>10, <1>11, <1>12, <1>13,
     <1>14, <1>15, <1>16, <1>17, <1>18, <1>19, <1>20, <1>21, <1>22 DEF Next, Step, Save,
     Stability, Approve, Run, Savers

(* Without an edit between a load of a file and the hash of it, and with   *)
(* one recorder of drafts, what approve turns into an approved artifact is *)
(* what every run of every cited report had in memory, whatever the edits, *)
(* stability runs, approvals and replays around it.                        *)
THEOREM ApprovedWereTested ==
  ASSUME Undisturbed
  PROVE  Spec => []ApprovedWasTested
<1>1. Init => TestedInv
  BY InitTested
<1>2. TypeOK /\ TestedInv /\ [Next]_vars => TestedInv'
  BY NextTested
<1>3. TestedInv => ApprovedWasTested
  BY DEF TestedInv
<1>4. QED
  BY <1>1, <1>2, <1>3, LifecycleTypes, PTL DEF Spec

-----------------------------------------------------------------------------
(***************************************************************************)
(* The lifecycle implements Promotion.  The promise spans processes and    *)
(* time: the evidence an approver saw still stands when it saves, and an   *)
(* approved file, or flow in memory, comes from an approver that saved it. *)
(***************************************************************************)

(* A body approved by a process that has saved the approved copy.          *)
Kept(b) == \E a \in Approvers : pc[a] = "saved" /\ loaded[a].body = b

(* A report says which assignment its runs were given, or none.            *)
ReportInv ==
  /\ \A t \in Testers : pc[t] # "idle" =>
       params[t] \in Assignments /\ announced[t] \in {NoAssignment, params[t]}
  /\ \A t \in Testers : reports[t] # NoReport =>
       /\ pc[t] = "saved" /\ reports[t].params \in Assignments
       /\ reports[t].selector_assignment \in {NoAssignment, reports[t].params}

(* An approver that passed its review has spotless evidence for the draft. *)
EvidenceInv ==
  /\ \A a \in Approvers : pc[a] # "idle" => cited[a] # {}
  /\ \A a \in Approvers : pc[a] \in {"number", "saved"} \cup Saving =>
       /\ \A t \in cited[a] : Eligible(reports[t])
       /\ Covers(Declared[loaded[a].body], cited[a])

(* An approved file, and an approved flow in memory, come from an approver. *)
FileInv ==
  \A v \in Versions : Parses(v) /\ files[v].status = "approved" => Kept(files[v].body)
RunnerInv ==
  /\ \A r \in Runners : pc[r] # "idle" /\ is_approved(loaded[r]) => Kept(loaded[r].body)
  /\ \A r \in Runners : pc[r] \in {"idle", "replay"} => outcome[r] = "none"

PromotionInv == ReportInv /\ EvidenceInv /\ FileInv /\ RunnerInv

Executes(r) == purpose[r] \in ApprovedOnly /\ outcome[r] \in {"success", "failure", "error"}

(* A step that no caller of the pipeline sees.                             *)
ApproversSame ==
  \A a \in Approvers : /\ pc'[a] = "saved" <=> pc[a] = "saved"
                       /\ pc[a] = "saved" => loaded'[a] = loaded[a]
RunnersSame ==
  \A r \in Runners : /\ Executes(r)' <=> Executes(r)
                     /\ Executes(r) => loaded'[r] = loaded[r]

LEMMA TestedSame ==
  ASSUME reports' = reports
  PROVE  {x \in Bodies \X Assignments : \E t \in Testers : Spotless(reports[t], x[1], x[2])}'
           = {x \in Bodies \X Assignments : \E t \in Testers : Spotless(reports[t], x[1], x[2])}
<1>1. \A t \in Testers : \A b, a : Spotless(reports[t], b, a)' <=> Spotless(reports[t], b, a)
  BY DEF Spotless
<1>2. QED
  BY <1>1

LEMMA ApprovedSame ==
  ASSUME ApproversSame
  PROVE  {loaded[a].body : a \in {a \in Approvers : pc[a] = "saved"}}'
           = {loaded[a].body : a \in {a \in Approvers : pc[a] = "saved"}}
  BY DEF ApproversSame

LEMMA ExecutedSame ==
  ASSUME RunnersSame
  PROVE  {loaded[r].body : r \in {r \in Runners : Executes(r)}}'
           = {loaded[r].body : r \in {r \in Runners : Executes(r)}}
  BY DEF RunnersSame

LEMMA Unseen ==
  ASSUME reports' = reports, ApproversSame, RunnersSame
  PROVE  UNCHANGED Contract!vars
  BY TestedSame, ApprovedSame, ExecutedSame DEF Contract!vars, Executes

LEMMA KeptSame ==
  ASSUME ApproversSame
  PROVE  \A b : Kept(b)' <=> Kept(b)
  BY DEF ApproversSame, Kept

LEMMA EvidenceSame ==
  ASSUME reports' = reports
  PROVE  /\ \A t : Eligible(reports[t])' <=> Eligible(reports[t])
         /\ \A d, T : Covers(d, T)' <=> Covers(d, T)
  BY DEF Covers, Eligible, Completed

(* Who is about to save an approved copy has covered the draft it was given. *)
LEMMA EvidenceCovers ==
  ASSUME TypeOK, TestedInv, PromotionInv, NEW a \in Approvers, pc[a] = "write",
         NEW b, b = loaded[a].body
  PROVE  b \in Bodies /\ Contract!Covered(b)
<1> USE DEF TypeOK, PromotionInv
<1>1. b \in Bodies
  BY Kinds DEF LocalsOK, Processes, Saving, Artifacts
<1>2. /\ cited[a] # {} /\ cited[a] \subseteq Testers
      /\ \A t \in cited[a] : Eligible(reports[t]) /\ reports[t] # NoReport
      /\ Covers(Declared[b], cited[a])
  BY DEF EvidenceInv, Saving, TestedInv, ReviewInv, SavingOK
<1>3. \A t \in cited[a] : reports[t].params \in Assignments /\ Spotless(reports[t], b, reports[t].params)
  <2>1. SUFFICES ASSUME NEW t \in cited[a]
                 PROVE  reports[t].params \in Assignments /\ Spotless(reports[t], b, reports[t].params)
    OBVIOUS
  <2>2. reports[t] \in Reports
    BY <1>2 DEF SharedOK
  <2>3. Len(reports[t].runs) \in Nat
    BY <2>2 DEF Reports
  <2>4. /\ Cardinality(Completed(reports[t])) >= MinRuns
        /\ \A i \in 1..Len(reports[t].runs) : reports[t].runs[i].status = "success"
    BY <1>2 DEF Eligible
  <2>5. Completed(reports[t]) \subseteq 1..Len(reports[t].runs)
    BY DEF Completed
  <2>6. IsFiniteSet(1..Len(reports[t].runs)) /\ Cardinality(1..Len(reports[t].runs)) = Len(reports[t].runs)
    BY <2>3, FS_Interval
  <2>7. /\ Cardinality(Completed(reports[t])) \in Nat
        /\ Cardinality(Completed(reports[t])) <= Len(reports[t].runs)
    BY <2>5, <2>6, FS_Subset, FS_CardinalityType
  <2>8. Len(reports[t].runs) >= MinRuns
    BY <2>3, <2>4, <2>7, LifecycleBounds
  <2>9. \A i \in 1..Len(reports[t].runs) : reports[t].runs[i].ran.body = b
    BY DEF TestedInv, ApprovedWasTested
  <2>10. reports[t].params \in Assignments
    BY <1>2 DEF ReportInv
  <2>11. QED
    BY <1>2, <2>4, <2>8, <2>9, <2>10 DEF Spotless
<1> DEFINE seen == {x \in Bodies \X Assignments : \E t \in Testers : Spotless(reports[t], x[1], x[2])}
<1>4. \A t \in cited[a] : <<b, reports[t].params>> \in seen
  BY <1>1, <1>2, <1>3
<1>5. \A x \in Declared[b] : Declared[b] # {} => <<b, x>> \in seen
  <2>1. SUFFICES ASSUME NEW x \in Declared[b] PROVE <<b, x>> \in seen
    OBVIOUS
  <2>2. x \in Assignments /\ x # NoAssignment
    BY <1>1, KindsAssumption
  <2>3. PICK t \in cited[a] : reports[t].selector_assignment = x
    BY <1>2 DEF Covers
  <2>4. reports[t].params = x
    BY <1>2, <2>2, <2>3 DEF ReportInv
  <2>5. QED
    BY <1>4, <2>4
<1>6. \E x \in Assignments : <<b, x>> \in seen
  BY <1>2, <1>3, <1>4
<1>7. QED
  BY <1>1, <1>5, <1>6 DEF Contract!Covered

LEMMA WriteFilePromotes ==
  ASSUME TypeOK, Undisturbed, TestedInv, PromotionInv,
         NEW p \in Savers,
         WriteFile(p)
  PROVE  PromotionInv' /\ [Contract!Next]_(Contract!vars)
<1> USE DEF TypeOK, PromotionInv
<1>1. /\ reports' = reports /\ loaded' = loaded /\ purpose' = purpose /\ outcome' = outcome
      /\ params' = params /\ announced' = announced /\ cited' = cited
  BY DEF WriteFile, testing, saving, running
<1>2. pc[p] = "write" /\ pc'[p] = "saved" /\ \A q \in Processes : q # p => pc'[q] = pc[q]
  BY DEF WriteFile, Goto, PlaceOK, Processes, Savers
<1>3. RunnersSame
  BY <1>1 DEF RunnersSame, Executes
<1>4. ReportInv'
  BY <1>1, <1>2, Kinds DEF ReportInv, Processes, Savers
<1>5. EvidenceInv'
  BY <1>1, <1>2, Kinds, EvidenceSame DEF EvidenceInv, Saving, Processes, Savers
<1>6. \A b : Kept(b) => Kept(b)'
  BY <1>1, <1>2 DEF Kept, Processes
<1>7. \A b : p \in Approvers /\ b = loaded[p].body => Kept(b)'
  BY <1>1, <1>2 DEF Kept
<1>8. p \in Recorders => loaded[p].status = "draft"
  BY <1>2 DEF TestedInv, DraftInv, Saving
<1>9. FileInv'
  <2>1. SUFFICES ASSUME NEW v \in Versions, files'[v] \in Artifacts, files'[v].status = "approved",
                        NEW b, b = files'[v].body
                 PROVE  Kept(b)'
    BY DEF FileInv, Parses
  <2>2. files'[v] = files[v] \/ files'[v] = loaded[p] \/ files'[v] = Torn
    BY DEF WriteFile, SharedOK
  <2>3. files'[v] # Torn
    BY <2>1 DEF Artifacts, Torn
  <2>4. CASE files'[v] = files[v]
    BY <1>6, <2>1, <2>4 DEF FileInv, Parses
  <2>5. CASE files'[v] = loaded[p]
    BY <1>7, <1>8, <2>1, <2>5 DEF Savers
  <2>6. QED
    BY <2>2, <2>3, <2>4, <2>5
<1>10. RunnerInv'
  BY <1>1, <1>2, <1>6, Kinds DEF RunnerInv, Processes, Savers
<1>11. CASE p \in Recorders
  <2>1. ApproversSame
    BY <1>1, <1>2, <1>11, Kinds DEF ApproversSame, Processes
  <2>2. QED
    BY <1>1, <1>3, <1>4, <1>5, <1>9, <1>10, <2>1, Unseen
<1>12. CASE p \in Approvers
  <2>1. \A a \in Approvers : pc'[a] = "saved" <=> (pc[a] = "saved" \/ a = p)
    BY <1>2 DEF Processes
  <2>2. {loaded[a].body : a \in {a \in Approvers : pc[a] = "saved"}}'
          = {loaded[a].body : a \in {a \in Approvers : pc[a] = "saved"}} \cup {loaded[p].body}
    BY <1>1, <1>12, <2>1
  <2>3. PICK b \in Bodies : b = loaded[p].body /\ Contract!Covered(b)
    BY <1>2, <1>12, EvidenceCovers
  <2>4. {x \in Bodies \X Assignments : \E t \in Testers : Spotless(reports[t], x[1], x[2])}'
          = {x \in Bodies \X Assignments : \E t \in Testers : Spotless(reports[t], x[1], x[2])}
    BY <1>1, TestedSame
  <2>5. {loaded[r].body : r \in {r \in Runners : Executes(r)}}'
          = {loaded[r].body : r \in {r \in Runners : Executes(r)}}
    BY <1>3, ExecutedSame
  <2>6. Contract!Approve(b)
    BY <2>2, <2>3, <2>4, <2>5, Zenon DEF Contract!Approve, Executes
  <2>7. QED
    BY <1>4, <1>5, <1>9, <1>10, <2>3, <2>6 DEF Contract!Next
<1>13. QED
  BY <1>11, <1>12 DEF Savers

LEMMA RecordPromotes ==
  ASSUME TypeOK, Undisturbed, TestedInv, PromotionInv,
         NEW p \in Recorders, NEW b \in Bodies,
         Record(p, b)
  PROVE  PromotionInv' /\ [Contract!Next]_(Contract!vars)
<1> USE DEF TypeOK, PromotionInv
<1>1. reports' = reports /\ ApproversSame
  BY Kinds DEF ApproversSame, Record, Artifact, Goto, shared, testing, saving, running,
     PlaceOK, LocalsOK, Processes, Savers, Testing, Running, Saving
<1>2. RunnersSame
  BY Kinds DEF RunnersSame, Executes, RunnerInv, Record, Artifact, Goto, shared, testing,
     saving, running, PlaceOK, LocalsOK, RunningOK, Processes, Savers
<1>3. ReportInv'
  BY <1>1, Kinds DEF ReportInv, Record, Artifact, Goto, shared, testing, saving, running,
     PlaceOK, Processes, Savers
<1>4. EvidenceInv'
  BY <1>1, Kinds, EvidenceSame DEF EvidenceInv, Saving, Record, Artifact, Goto, shared,
     testing, saving, running, PlaceOK, LocalsOK, Processes, Savers
<1>5. FileInv'
  BY <1>1, KeptSame DEF FileInv, Parses, Record, Artifact, Goto, shared, testing, saving,
     running, SharedOK, Artifacts, Torn
<1>6. RunnerInv'
  BY <1>1, Kinds, KeptSame DEF RunnerInv, is_approved, Record, Artifact, Goto, shared,
     testing, saving, running, PlaceOK, LocalsOK, RunningOK, Processes, Savers
<1>7. QED
  BY <1>1, <1>2, <1>3, <1>4, <1>5, <1>6, Unseen

LEMMA RefuseOverwritePromotes ==
  ASSUME TypeOK, Undisturbed, TestedInv, PromotionInv,
         NEW p \in Savers,
         RefuseOverwrite(p)
  PROVE  PromotionInv' /\ [Contract!Next]_(Contract!vars)
<1> USE DEF TypeOK, PromotionInv
<1>1. reports' = reports /\ ApproversSame
  BY Kinds DEF ApproversSame, RefuseOverwrite, Goto, shared, testing, saving, running,
     PlaceOK, LocalsOK, Processes, Savers, Testing, Running, Saving
<1>2. RunnersSame
  BY Kinds DEF RunnersSame, Executes, RunnerInv, RefuseOverwrite, Goto, shared, testing,
     saving, running, PlaceOK, LocalsOK, RunningOK, Processes, Savers
<1>3. ReportInv'
  BY <1>1, Kinds DEF ReportInv, RefuseOverwrite, Goto, shared, testing, saving, running,
     PlaceOK, Processes, Savers
<1>4. EvidenceInv'
  BY <1>1, Kinds, EvidenceSame DEF EvidenceInv, Saving, RefuseOverwrite, Goto, shared,
     testing, saving, running, PlaceOK, LocalsOK, Processes, Savers
<1>5. FileInv'
  BY <1>1, KeptSame DEF FileInv, Parses, RefuseOverwrite, Goto, shared, testing, saving,
     running, SharedOK, Artifacts, Torn
<1>6. RunnerInv'
  BY <1>1, Kinds, KeptSame DEF RunnerInv, is_approved, RefuseOverwrite, Goto, shared,
     testing, saving, running, PlaceOK, LocalsOK, RunningOK, Processes, Savers
<1>7. QED
  BY <1>1, <1>2, <1>3, <1>4, <1>5, <1>6, Unseen

LEMMA PathIsFreePromotes ==
  ASSUME TypeOK, Undisturbed, TestedInv, PromotionInv,
         NEW p \in Savers,
         PathIsFree(p)
  PROVE  PromotionInv' /\ [Contract!Next]_(Contract!vars)
<1> USE DEF TypeOK, PromotionInv
<1>1. reports' = reports /\ ApproversSame
  BY Kinds DEF ApproversSame, PathIsFree, Goto, shared, testing, saving, running,
     PlaceOK, LocalsOK, Processes, Savers, Testing, Running, Saving
<1>2. RunnersSame
  BY Kinds DEF RunnersSame, Executes, RunnerInv, PathIsFree, Goto, shared, testing,
     saving, running, PlaceOK, LocalsOK, RunningOK, Processes, Savers
<1>3. ReportInv'
  BY <1>1, Kinds DEF ReportInv, PathIsFree, Goto, shared, testing, saving, running,
     PlaceOK, Processes, Savers
<1>4. EvidenceInv'
  BY <1>1, Kinds, EvidenceSame DEF EvidenceInv, Saving, PathIsFree, Goto, shared,
     testing, saving, running, PlaceOK, LocalsOK, Processes, Savers
<1>5. FileInv'
  BY <1>1, KeptSame DEF FileInv, Parses, PathIsFree, Goto, shared, testing, saving,
     running, SharedOK, Artifacts, Torn
<1>6. RunnerInv'
  BY <1>1, Kinds, KeptSame DEF RunnerInv, is_approved, PathIsFree, Goto, shared, testing,
     saving, running, PlaceOK, LocalsOK, RunningOK, Processes, Savers
<1>7. QED
  BY <1>1, <1>2, <1>3, <1>4, <1>5, <1>6, Unseen

LEMMA OpenFilePromotes ==
  ASSUME TypeOK, Undisturbed, TestedInv, PromotionInv,
         NEW p \in Savers,
         OpenFile(p)
  PROVE  PromotionInv' /\ [Contract!Next]_(Contract!vars)
<1> USE DEF TypeOK, PromotionInv
<1>1. reports' = reports /\ ApproversSame
  BY Kinds DEF ApproversSame, OpenFile, Goto, shared, testing, saving, running, PlaceOK,
     LocalsOK, Processes, Savers, Testing, Running, Saving
<1>2. RunnersSame
  BY Kinds DEF RunnersSame, Executes, RunnerInv, OpenFile, Goto, shared, testing, saving,
     running, PlaceOK, LocalsOK, RunningOK, Processes, Savers
<1>3. ReportInv'
  BY <1>1, Kinds DEF ReportInv, OpenFile, Goto, shared, testing, saving, running,
     PlaceOK, Processes, Savers
<1>4. EvidenceInv'
  BY <1>1, Kinds, EvidenceSame DEF EvidenceInv, Saving, OpenFile, Goto, shared, testing,
     saving, running, PlaceOK, LocalsOK, Processes, Savers
<1>5. FileInv'
  BY <1>1, KeptSame DEF FileInv, Parses, OpenFile, Goto, shared, testing, saving,
     running, SharedOK, Artifacts, Torn
<1>6. RunnerInv'
  BY <1>1, Kinds, KeptSame DEF RunnerInv, is_approved, OpenFile, Goto, shared, testing,
     saving, running, PlaceOK, LocalsOK, RunningOK, Processes, Savers
<1>7. QED
  BY <1>1, <1>2, <1>3, <1>4, <1>5, <1>6, Unseen

LEMMA ReplayPromotes ==
  ASSUME TypeOK, Undisturbed, TestedInv, PromotionInv,
         NEW p \in Testers \cup Runners,
         Replay(p)
  PROVE  PromotionInv' /\ [Contract!Next]_(Contract!vars)
<1> USE DEF TypeOK, PromotionInv
<1>1. /\ reports' = reports /\ loaded' = loaded /\ files' = files /\ purpose' = purpose
      /\ params' = params /\ announced' = announced /\ cited' = cited
  BY DEF Replay, shared, testing, saving
<1>2. pc[p] = "replay" /\ pc'[p] = "replayed" /\ \A q \in Processes : q # p => pc'[q] = pc[q]
  BY DEF Replay, Goto, PlaceOK, Processes
<1>3. \A q \in Runners : q # p => outcome'[q] = outcome[q]
  BY DEF Replay, RunningOK
<1>4. ApproversSame
  BY <1>1, <1>2, Kinds DEF ApproversSame, Processes
<1>5. ReportInv' /\ EvidenceInv'
  BY <1>1, <1>2, Kinds, EvidenceSame DEF ReportInv, EvidenceInv, Saving, Processes
<1>6. FileInv'
  BY <1>1, <1>4, KeptSame DEF FileInv, Parses
<1>7. RunnerInv'
  BY <1>1, <1>2, <1>3, <1>4, Kinds, KeptSame DEF RunnerInv, Processes
<1>8. CASE p \in Runners /\ ~Blocked(p) /\ purpose[p] \in ApprovedOnly
  <2>1. /\ loaded[p] \in Artifacts /\ Kept(loaded[p].body)
    BY <1>2, <1>8, Kinds DEF Blocked, RunnerInv, LocalsOK, Running, Processes
  <2>2. PICK b \in Bodies : b = loaded[p].body
    BY <2>1 DEF Artifacts
  <2>3. outcome'[p] \in {"success", "failure", "error"}
    BY <1>8 DEF Replay, Outcomes, RunningOK
  <2>4. ~Executes(p)
    BY <1>2, <1>8 DEF RunnerInv, Executes
  <2>5. \A r \in Runners : Executes(r)' <=> Executes(r) \/ r = p
    BY <1>1, <1>3, <1>8, <2>3 DEF Executes
  <2>6. {loaded[r].body : r \in {r \in Runners : Executes(r)}}'
          = {loaded[r].body : r \in {r \in Runners : Executes(r)}} \cup {loaded[p].body}
    BY <1>1, <1>8, <2>5
  <2>7. loaded[p].body \in {loaded[a].body : a \in {a \in Approvers : pc[a] = "saved"}}
    BY <2>1 DEF Kept
  <2>8. {x \in Bodies \X Assignments : \E t \in Testers : Spotless(reports[t], x[1], x[2])}'
          = {x \in Bodies \X Assignments : \E t \in Testers : Spotless(reports[t], x[1], x[2])}
    BY <1>1, TestedSame
  <2>9. {loaded[a].body : a \in {a \in Approvers : pc[a] = "saved"}}'
          = {loaded[a].body : a \in {a \in Approvers : pc[a] = "saved"}}
    BY <1>4, ApprovedSame
  <2>10. Contract!Execute(b)
    BY <2>2, <2>6, <2>7, <2>8, <2>9, Zenon DEF Contract!Execute, Executes
  <2>11. QED
    BY <1>5, <1>6, <1>7, <2>2, <2>10 DEF Contract!Next
<1>9. CASE ~(p \in Runners /\ ~Blocked(p) /\ purpose[p] \in ApprovedOnly)
  <2>1. RunnersSame
    <3>1. SUFFICES ASSUME NEW r \in Runners
                   PROVE  (Executes(r)' <=> Executes(r)) /\ (Executes(r) => loaded'[r] = loaded[r])
      BY DEF RunnersSame
    <3>2. CASE r # p
      BY <1>1, <1>3, <3>2 DEF Executes
    <3>3. CASE r = p /\ purpose[p] \notin ApprovedOnly
      BY <1>1, <3>3 DEF Executes
    <3>4. CASE r = p /\ Blocked(p)
      <4>1. outcome'[p] = "artifact_not_approved"
        BY <3>4 DEF Replay, RunningOK
      <4>2. outcome[p] = "none"
        BY <1>2, <3>4 DEF RunnerInv
      <4>3. QED
        BY <3>4, <4>1, <4>2 DEF Executes
    <3>5. QED
      BY <1>9, <3>2, <3>3, <3>4
  <2>2. QED
    BY <1>1, <1>4, <1>5, <1>6, <1>7, <2>1, Unseen
<1>10. QED
  BY <1>8, <1>9

LEMMA CopyArtifactPromotes ==
  ASSUME TypeOK, Undisturbed, TestedInv, PromotionInv,
         NEW p \in Testers \cup Runners,
         CopyArtifact(p)
  PROVE  PromotionInv' /\ [Contract!Next]_(Contract!vars)
<1> USE DEF TypeOK, PromotionInv
<1>1. reports' = reports /\ ApproversSame
  BY Kinds DEF ApproversSame, CopyArtifact, Goto, shared, testing, saving, running,
     PlaceOK, LocalsOK, Processes, Savers, Testing, Running, Saving
<1>2. RunnersSame
  BY Kinds DEF RunnersSame, Executes, RunnerInv, CopyArtifact, Goto, shared, testing,
     saving, running, PlaceOK, LocalsOK, RunningOK, Processes, Savers
<1>3. ReportInv'
  BY <1>1, Kinds DEF ReportInv, CopyArtifact, Goto, shared, testing, saving, running,
     PlaceOK, Processes, Savers
<1>4. EvidenceInv'
  BY <1>1, Kinds, EvidenceSame DEF EvidenceInv, Saving, CopyArtifact, Goto, shared,
     testing, saving, running, PlaceOK, LocalsOK, Processes, Savers
<1>5. FileInv'
  BY <1>1, KeptSame DEF FileInv, Parses, CopyArtifact, Goto, shared, testing, saving,
     running, SharedOK, Artifacts, Torn
<1>6. RunnerInv'
  BY <1>1, Kinds, KeptSame DEF RunnerInv, is_approved, CopyArtifact, Goto, shared,
     testing, saving, running, PlaceOK, LocalsOK, RunningOK, Processes, Savers
<1>7. QED
  BY <1>1, <1>2, <1>3, <1>4, <1>5, <1>6, Unseen

LEMMA WriteManifestPromotes ==
  ASSUME TypeOK, Undisturbed, TestedInv, PromotionInv,
         NEW p \in Testers \cup Runners,
         WriteManifest(p)
  PROVE  PromotionInv' /\ [Contract!Next]_(Contract!vars)
<1> USE DEF TypeOK, PromotionInv
<1>1. reports' = reports /\ ApproversSame
  BY Kinds DEF ApproversSame, WriteManifest, Goto, shared, testing, saving, running,
     PlaceOK, LocalsOK, Processes, Savers, Testing, Running, Saving
<1>2. RunnersSame
  BY Kinds DEF RunnersSame, Executes, RunnerInv, WriteManifest, Goto, shared, testing,
     saving, running, PlaceOK, LocalsOK, RunningOK, Processes, Savers
<1>3. ReportInv'
  BY <1>1, Kinds DEF ReportInv, WriteManifest, Goto, shared, testing, saving, running,
     PlaceOK, Processes, Savers
<1>4. EvidenceInv'
  BY <1>1, Kinds, EvidenceSame DEF EvidenceInv, Saving, WriteManifest, Goto, shared,
     testing, saving, running, PlaceOK, LocalsOK, Processes, Savers
<1>5. FileInv'
  BY <1>1, KeptSame DEF FileInv, Parses, WriteManifest, Goto, shared, testing, saving,
     running, SharedOK, Artifacts, Torn
<1>6. RunnerInv'
  BY <1>1, Kinds, KeptSame DEF RunnerInv, is_approved, WriteManifest, Goto, shared,
     testing, saving, running, PlaceOK, LocalsOK, RunningOK, Processes, Savers
<1>7. QED
  BY <1>1, <1>2, <1>3, <1>4, <1>5, <1>6, Unseen

LEMMA StartStabilityPromotes ==
  ASSUME TypeOK, Undisturbed, TestedInv, PromotionInv,
         NEW p \in Testers, NEW v \in Versions, NEW x \in Assignments,
         NEW n \in RunCounts,
         StartStability(p, v, x, n)
  PROVE  PromotionInv' /\ [Contract!Next]_(Contract!vars)
<1> USE DEF TypeOK, PromotionInv
<1>1. reports' = reports /\ ApproversSame
  BY Kinds DEF ApproversSame, StartStability, Goto, shared, testing, saving, running,
     PlaceOK, LocalsOK, Processes, Savers, Testing, Running, Saving
<1>2. RunnersSame
  BY Kinds DEF RunnersSame, Executes, RunnerInv, StartStability, Goto, shared, testing,
     saving, running, PlaceOK, LocalsOK, RunningOK, Processes, Savers
<1>3. ReportInv'
  BY <1>1, Kinds DEF ReportInv, StartStability, selector_assignment, Goto, shared,
     testing, saving, running, TestingOK, PlaceOK, Processes, Savers
<1>4. EvidenceInv'
  BY <1>1, Kinds, EvidenceSame DEF EvidenceInv, Saving, StartStability, Goto, shared,
     testing, saving, running, PlaceOK, LocalsOK, Processes, Savers
<1>5. FileInv'
  BY <1>1, KeptSame DEF FileInv, Parses, StartStability, Goto, shared, testing, saving,
     running, SharedOK, Artifacts, Torn
<1>6. RunnerInv'
  BY <1>1, Kinds, KeptSame DEF RunnerInv, is_approved, StartStability, Goto, shared,
     testing, saving, running, PlaceOK, LocalsOK, RunningOK, Processes, Savers
<1>7. QED
  BY <1>1, <1>2, <1>3, <1>4, <1>5, <1>6, Unseen

LEMMA LoadRunPromotes ==
  ASSUME TypeOK, Undisturbed, TestedInv, PromotionInv,
         NEW p \in Testers,
         LoadRun(p)
  PROVE  PromotionInv' /\ [Contract!Next]_(Contract!vars)
<1> USE DEF TypeOK, PromotionInv
<1>1. reports' = reports /\ ApproversSame
  BY Kinds DEF ApproversSame, LoadRun, Goto, shared, testing, saving, running, PlaceOK,
     LocalsOK, Processes, Savers, Testing, Running, Saving
<1>2. RunnersSame
  BY Kinds DEF RunnersSame, Executes, RunnerInv, LoadRun, Goto, shared, testing, saving,
     running, PlaceOK, LocalsOK, RunningOK, Processes, Savers
<1>3. ReportInv'
  BY <1>1, Kinds DEF ReportInv, LoadRun, Goto, shared, testing, saving, running, PlaceOK,
     Processes, Savers
<1>4. EvidenceInv'
  BY <1>1, Kinds, EvidenceSame DEF EvidenceInv, Saving, LoadRun, Goto, shared, testing,
     saving, running, PlaceOK, LocalsOK, Processes, Savers
<1>5. FileInv'
  BY <1>1, KeptSame DEF FileInv, Parses, LoadRun, Goto, shared, testing, saving, running,
     SharedOK, Artifacts, Torn
<1>6. RunnerInv'
  BY <1>1, Kinds, KeptSame DEF RunnerInv, is_approved, LoadRun, Goto, shared, testing,
     saving, running, PlaceOK, LocalsOK, RunningOK, Processes, Savers
<1>7. QED
  BY <1>1, <1>2, <1>3, <1>4, <1>5, <1>6, Unseen

LEMMA LoadRunFailsPromotes ==
  ASSUME TypeOK, Undisturbed, TestedInv, PromotionInv,
         NEW p \in Testers,
         LoadRunFails(p)
  PROVE  PromotionInv' /\ [Contract!Next]_(Contract!vars)
<1> USE DEF TypeOK, PromotionInv
<1>1. reports' = reports /\ ApproversSame
  BY Kinds DEF ApproversSame, LoadRunFails, AddRecord, NextRun, Goto, shared, testing,
     saving, running, PlaceOK, LocalsOK, Processes, Savers, Testing, Running, Saving
<1>2. RunnersSame
  BY Kinds DEF RunnersSame, Executes, RunnerInv, LoadRunFails, AddRecord, NextRun, Goto,
     shared, testing, saving, running, PlaceOK, LocalsOK, RunningOK, Processes, Savers
<1>3. ReportInv'
  BY <1>1, Kinds DEF ReportInv, LoadRunFails, AddRecord, NextRun, Goto, shared, testing,
     saving, running, PlaceOK, Processes, Savers
<1>4. EvidenceInv'
  BY <1>1, Kinds, EvidenceSame DEF EvidenceInv, Saving, LoadRunFails, AddRecord, NextRun,
     Goto, shared, testing, saving, running, PlaceOK, LocalsOK, Processes, Savers
<1>5. FileInv'
  BY <1>1, KeptSame DEF FileInv, Parses, LoadRunFails, AddRecord, NextRun, Goto, shared,
     testing, saving, running, SharedOK, Artifacts, Torn
<1>6. RunnerInv'
  BY <1>1, Kinds, KeptSame DEF RunnerInv, is_approved, LoadRunFails, AddRecord, NextRun,
     Goto, shared, testing, saving, running, PlaceOK, LocalsOK, RunningOK, Processes,
     Savers
<1>7. QED
  BY <1>1, <1>2, <1>3, <1>4, <1>5, <1>6, Unseen

LEMMA HashRunPromotes ==
  ASSUME TypeOK, Undisturbed, TestedInv, PromotionInv,
         NEW p \in Testers,
         HashRun(p)
  PROVE  PromotionInv' /\ [Contract!Next]_(Contract!vars)
<1> USE DEF TypeOK, PromotionInv
<1>1. reports' = reports /\ ApproversSame
  BY Kinds DEF ApproversSame, HashRun, Goto, shared, testing, saving, running, PlaceOK,
     LocalsOK, Processes, Savers, Testing, Running, Saving
<1>2. RunnersSame
  BY Kinds DEF RunnersSame, Executes, RunnerInv, HashRun, Goto, shared, testing, saving,
     running, PlaceOK, LocalsOK, RunningOK, Processes, Savers
<1>3. ReportInv'
  BY <1>1, Kinds DEF ReportInv, HashRun, Goto, shared, testing, saving, running, PlaceOK,
     Processes, Savers
<1>4. EvidenceInv'
  BY <1>1, Kinds, EvidenceSame DEF EvidenceInv, Saving, HashRun, Goto, shared, testing,
     saving, running, PlaceOK, LocalsOK, Processes, Savers
<1>5. FileInv'
  BY <1>1, KeptSame DEF FileInv, Parses, HashRun, Goto, shared, testing, saving, running,
     SharedOK, Artifacts, Torn
<1>6. RunnerInv'
  BY <1>1, Kinds, KeptSame DEF RunnerInv, is_approved, HashRun, Goto, shared, testing,
     saving, running, PlaceOK, LocalsOK, RunningOK, Processes, Savers
<1>7. QED
  BY <1>1, <1>2, <1>3, <1>4, <1>5, <1>6, Unseen

LEMMA FinishRunPromotes ==
  ASSUME TypeOK, Undisturbed, TestedInv, PromotionInv,
         NEW p \in Testers,
         FinishRun(p)
  PROVE  PromotionInv' /\ [Contract!Next]_(Contract!vars)
<1> USE DEF TypeOK, PromotionInv
<1>1. reports' = reports /\ ApproversSame
  BY Kinds DEF ApproversSame, FinishRun, AddRecord, NextRun, RunOver, Goto, shared,
     testing, saving, running, PlaceOK, LocalsOK, Processes, Savers, Testing, Running,
     Saving
<1>2. RunnersSame
  BY Kinds DEF RunnersSame, Executes, RunnerInv, FinishRun, AddRecord, NextRun, RunOver,
     Goto, shared, testing, saving, running, PlaceOK, LocalsOK, RunningOK, Processes,
     Savers
<1>3. ReportInv'
  BY <1>1, Kinds DEF ReportInv, FinishRun, AddRecord, NextRun, RunOver, Goto, shared,
     testing, saving, running, PlaceOK, Processes, Savers
<1>4. EvidenceInv'
  BY <1>1, Kinds, EvidenceSame DEF EvidenceInv, Saving, FinishRun, AddRecord, NextRun,
     RunOver, Goto, shared, testing, saving, running, PlaceOK, LocalsOK, Processes, Savers
<1>5. FileInv'
  BY <1>1, KeptSame DEF FileInv, Parses, FinishRun, AddRecord, NextRun, RunOver, Goto,
     shared, testing, saving, running, SharedOK, Artifacts, Torn
<1>6. RunnerInv'
  BY <1>1, Kinds, KeptSame DEF RunnerInv, is_approved, FinishRun, AddRecord, NextRun,
     RunOver, Goto, shared, testing, saving, running, PlaceOK, LocalsOK, RunningOK,
     Processes, Savers
<1>7. QED
  BY <1>1, <1>2, <1>3, <1>4, <1>5, <1>6, Unseen

LEMMA WriteReportPromotes ==
  ASSUME TypeOK, Undisturbed, TestedInv, PromotionInv,
         NEW p \in Testers,
         WriteReport(p)
  PROVE  PromotionInv' /\ [Contract!Next]_(Contract!vars)
<1> USE DEF TypeOK, PromotionInv
<1>1. /\ loaded' = loaded /\ files' = files /\ purpose' = purpose /\ outcome' = outcome
      /\ params' = params /\ announced' = announced /\ cited' = cited
  BY DEF WriteReport, testing, saving, running
<1>2. pc[p] = "report" /\ pc'[p] = "saved" /\ \A q \in Processes : q # p => pc'[q] = pc[q]
  BY DEF WriteReport, Goto, PlaceOK, Processes
<1>3. reports[p] = NoReport /\ \A t \in Testers : t # p => reports'[t] = reports[t]
  BY <1>2 DEF WriteReport, ReportInv, SharedOK
<1>4. /\ reports'[p] # NoReport /\ reports'[p].params = params[p]
      /\ reports'[p].selector_assignment = announced[p]
  BY DEF WriteReport, SharedOK, NoReport
<1>5. params[p] \in Assignments /\ announced[p] \in {NoAssignment, params[p]}
  BY <1>2 DEF ReportInv
<1>6. \A a \in Approvers : pc'[a] = pc[a]
  BY <1>2, Kinds DEF Processes
<1>7. ApproversSame /\ RunnersSame
  BY <1>1, <1>6 DEF ApproversSame, RunnersSame, Executes
<1>8. ReportInv'
  BY <1>1, <1>2, <1>3, <1>4, <1>5 DEF ReportInv, Processes
<1>9. \A a \in Approvers : pc[a] # "idle" => \A t \in cited[a] : t # p /\ reports'[t] = reports[t]
  BY <1>3 DEF TestedInv, ReviewInv, SavingOK
<1>10. EvidenceInv'
  <2>1. SUFFICES ASSUME NEW a \in Approvers, pc[a] \in {"number", "saved"} \cup Saving
                 PROVE  /\ \A t \in cited[a] : Eligible(reports'[t])
                        /\ Covers(Declared[loaded[a].body], cited[a])'
    BY <1>1, <1>6 DEF EvidenceInv
  <2>2. pc[a] # "idle"
    BY <2>1 DEF Saving
  <2>3. \A t \in cited[a] : reports'[t] = reports[t]
    BY <1>9, <2>2
  <2>4. Covers(Declared[loaded[a].body], cited[a]) /\ \A t \in cited[a] : Eligible(reports[t])
    BY <2>1 DEF EvidenceInv
  <2>5. QED
    BY <1>1, <2>3, <2>4 DEF Covers
<1>11. FileInv' /\ RunnerInv'
  BY <1>1, <1>2, <1>7, Kinds, KeptSame DEF FileInv, Parses, RunnerInv, Processes
<1>12. \A b, a : Spotless(reports[p], b, a) = FALSE
  BY <1>3 DEF Spotless
<1>13. \A t \in Testers : t # p => \A b, a : Spotless(reports[t], b, a)' <=> Spotless(reports[t], b, a)
  BY <1>3 DEF Spotless
<1> DEFINE seen == {x \in Bodies \X Assignments : \E t \in Testers : Spotless(reports[t], x[1], x[2])}
<1>14. seen' = seen \cup {x \in Bodies \X Assignments : Spotless(reports'[p], x[1], x[2])}
  BY <1>12, <1>13
<1>15. CASE \E b \in Bodies : Spotless(reports'[p], b, params[p])
  <2>1. PICK b \in Bodies : Spotless(reports'[p], b, params[p])
    BY <1>15
  <2>2. \A c, a : Spotless(reports'[p], c, a) => a = params[p] /\ c = b
    <3>1. Len(reports'[p].runs) \in Nat
      BY DEF WriteReport, SharedOK, TestingOK
    <3>2. 1 \in 1..Len(reports'[p].runs)
      BY <2>1, <3>1, LifecycleBounds DEF Spotless
    <3>3. QED
      BY <1>4, <2>1, <3>2 DEF Spotless
  <2>3. {x \in Bodies \X Assignments : Spotless(reports'[p], x[1], x[2])} = {<<b, params[p]>>}
    BY <1>5, <2>1, <2>2
  <2>4. Contract!Test(b, params[p])
    BY <1>7, <1>14, <2>3, ApprovedSame, ExecutedSame DEF Contract!Test, Executes
  <2>5. QED
    BY <1>5, <1>8, <1>10, <1>11, <2>4 DEF Contract!Next
<1>16. CASE ~\E b \in Bodies : Spotless(reports'[p], b, params[p])
  <2>1. {x \in Bodies \X Assignments : Spotless(reports'[p], x[1], x[2])} = {}
    BY <1>4, <1>16 DEF Spotless
  <2>2. UNCHANGED Contract!vars
    BY <1>7, <1>14, <2>1, ApprovedSame, ExecutedSame DEF Contract!vars, Executes
  <2>3. QED
    BY <1>8, <1>10, <1>11, <2>2
<1>17. QED
  BY <1>15, <1>16

LEMMA StartApprovalPromotes ==
  ASSUME TypeOK, Undisturbed, TestedInv, PromotionInv,
         NEW p \in Approvers, NEW v \in Versions, NEW T \in SUBSET Testers,
         StartApproval(p, v, T)
  PROVE  PromotionInv' /\ [Contract!Next]_(Contract!vars)
<1> USE DEF TypeOK, PromotionInv
<1>1. reports' = reports /\ ApproversSame
  BY Kinds DEF ApproversSame, StartApproval, Goto, shared, testing, saving, running,
     PlaceOK, LocalsOK, Processes, Savers, Testing, Running, Saving
<1>2. RunnersSame
  BY Kinds DEF RunnersSame, Executes, RunnerInv, StartApproval, Goto, shared, testing,
     saving, running, PlaceOK, LocalsOK, RunningOK, Processes, Savers
<1>3. ReportInv'
  BY <1>1, Kinds DEF ReportInv, StartApproval, Goto, shared, testing, saving, running,
     PlaceOK, Processes, Savers
<1>4. EvidenceInv'
  BY <1>1, Kinds, EvidenceSame DEF EvidenceInv, Saving, StartApproval, Goto, shared,
     testing, saving, running, PlaceOK, LocalsOK, SavingOK, Processes, Savers
<1>5. FileInv'
  BY <1>1, KeptSame DEF FileInv, Parses, StartApproval, Goto, shared, testing, saving,
     running, SharedOK, Artifacts, Torn
<1>6. RunnerInv'
  BY <1>1, Kinds, KeptSame DEF RunnerInv, is_approved, StartApproval, Goto, shared,
     testing, saving, running, PlaceOK, LocalsOK, RunningOK, Processes, Savers
<1>7. QED
  BY <1>1, <1>2, <1>3, <1>4, <1>5, <1>6, Unseen

LEMMA HashDraftPromotes ==
  ASSUME TypeOK, Undisturbed, TestedInv, PromotionInv,
         NEW p \in Approvers,
         HashDraft(p)
  PROVE  PromotionInv' /\ [Contract!Next]_(Contract!vars)
<1> USE DEF TypeOK, PromotionInv
<1>1. reports' = reports /\ ApproversSame
  BY Kinds DEF ApproversSame, HashDraft, Goto, shared, testing, saving, running, PlaceOK,
     LocalsOK, Processes, Savers, Testing, Running, Saving
<1>2. RunnersSame
  BY Kinds DEF RunnersSame, Executes, RunnerInv, HashDraft, Goto, shared, testing,
     saving, running, PlaceOK, LocalsOK, RunningOK, Processes, Savers
<1>3. ReportInv'
  BY <1>1, Kinds DEF ReportInv, HashDraft, Goto, shared, testing, saving, running,
     PlaceOK, Processes, Savers
<1>4. EvidenceInv'
  BY <1>1, Kinds, EvidenceSame DEF EvidenceInv, Saving, HashDraft, Goto, shared, testing,
     saving, running, PlaceOK, LocalsOK, Processes, Savers
<1>5. FileInv'
  BY <1>1, KeptSame DEF FileInv, Parses, HashDraft, Goto, shared, testing, saving,
     running, SharedOK, Artifacts, Torn
<1>6. RunnerInv'
  BY <1>1, Kinds, KeptSame DEF RunnerInv, is_approved, HashDraft, Goto, shared, testing,
     saving, running, PlaceOK, LocalsOK, RunningOK, Processes, Savers
<1>7. QED
  BY <1>1, <1>2, <1>3, <1>4, <1>5, <1>6, Unseen

LEMMA ReviewPromotes ==
  ASSUME TypeOK, Undisturbed, TestedInv, PromotionInv,
         NEW p \in Approvers,
         Review(p)
  PROVE  PromotionInv' /\ [Contract!Next]_(Contract!vars)
<1> USE DEF TypeOK, PromotionInv
<1>1. reports' = reports /\ ApproversSame
  BY Kinds DEF ApproversSame, Review, Goto, shared, testing, saving, running, PlaceOK,
     LocalsOK, Processes, Savers, Testing, Running, Saving
<1>2. RunnersSame
  BY Kinds DEF RunnersSame, Executes, RunnerInv, Review, Goto, shared, testing, saving,
     running, PlaceOK, LocalsOK, RunningOK, Processes, Savers
<1>3. ReportInv'
  BY <1>1, Kinds DEF ReportInv, Review, Goto, shared, testing, saving, running, PlaceOK,
     Processes, Savers
<1>4. EvidenceInv'
  <2>1. \A a \in Approvers : a # p => pc'[a] = pc[a]
    BY DEF Review, Goto, PlaceOK, Processes
  <2>2. loaded' = loaded /\ cited' = cited
    BY DEF Review, saving
  <2>3. pc'[p] = "number" => Accepted(p)
    BY DEF Review, Goto, PlaceOK, Processes
  <2>4. pc[p] = "review" /\ pc'[p] \in {"number", "refused"}
    BY DEF Review, Goto, PlaceOK, Processes
  <2>5. QED
    BY <1>1, <2>1, <2>2, <2>3, <2>4, EvidenceSame DEF EvidenceInv, Saving, Accepted, Qualifies
<1>5. FileInv'
  BY <1>1, KeptSame DEF FileInv, Parses, Review, Goto, shared, testing, saving, running,
     SharedOK, Artifacts, Torn
<1>6. RunnerInv'
  BY <1>1, Kinds, KeptSame DEF RunnerInv, is_approved, Review, Goto, shared, testing,
     saving, running, PlaceOK, LocalsOK, RunningOK, Processes, Savers
<1>7. QED
  BY <1>1, <1>2, <1>3, <1>4, <1>5, <1>6, Unseen

LEMMA NumberApprovedPromotes ==
  ASSUME TypeOK, Undisturbed, TestedInv, PromotionInv,
         NEW p \in Approvers,
         NumberApproved(p)
  PROVE  PromotionInv' /\ [Contract!Next]_(Contract!vars)
<1> USE DEF TypeOK, PromotionInv
<1>1. reports' = reports /\ ApproversSame
  BY Kinds DEF ApproversSame, NumberApproved, Artifact, Goto, shared, testing, saving,
     running, PlaceOK, LocalsOK, Processes, Savers, Testing, Running, Saving
<1>2. RunnersSame
  BY Kinds DEF RunnersSame, Executes, RunnerInv, NumberApproved, Artifact, Goto, shared,
     testing, saving, running, PlaceOK, LocalsOK, RunningOK, Processes, Savers
<1>3. ReportInv'
  BY <1>1, Kinds DEF ReportInv, NumberApproved, Artifact, Goto, shared, testing, saving,
     running, PlaceOK, Processes, Savers
<1>4. EvidenceInv'
  BY <1>1, Kinds, EvidenceSame DEF EvidenceInv, Saving, NumberApproved, Artifact, Goto,
     shared, testing, saving, running, PlaceOK, LocalsOK, Processes, Savers
<1>5. FileInv'
  BY <1>1, KeptSame DEF FileInv, Parses, NumberApproved, Artifact, Goto, shared, testing,
     saving, running, SharedOK, Artifacts, Torn
<1>6. RunnerInv'
  BY <1>1, Kinds, KeptSame DEF RunnerInv, is_approved, NumberApproved, Artifact, Goto,
     shared, testing, saving, running, PlaceOK, LocalsOK, RunningOK, Processes, Savers
<1>7. QED
  BY <1>1, <1>2, <1>3, <1>4, <1>5, <1>6, Unseen

LEMMA StartReplayPromotes ==
  ASSUME TypeOK, Undisturbed, TestedInv, PromotionInv,
         NEW p \in Runners, NEW v \in Versions, NEW why \in Purposes,
         StartReplay(p, v, why)
  PROVE  PromotionInv' /\ [Contract!Next]_(Contract!vars)
<1> USE DEF TypeOK, PromotionInv
<1>1. reports' = reports /\ ApproversSame
  BY Kinds DEF ApproversSame, StartReplay, Goto, shared, testing, saving, running,
     PlaceOK, LocalsOK, Processes, Savers, Testing, Running, Saving
<1>2. RunnersSame
  BY Kinds DEF RunnersSame, Executes, RunnerInv, StartReplay, Goto, shared, testing,
     saving, running, PlaceOK, LocalsOK, RunningOK, Processes, Savers
<1>3. ReportInv'
  BY <1>1, Kinds DEF ReportInv, StartReplay, Goto, shared, testing, saving, running,
     PlaceOK, Processes, Savers
<1>4. EvidenceInv'
  BY <1>1, Kinds, EvidenceSame DEF EvidenceInv, Saving, StartReplay, Goto, shared,
     testing, saving, running, PlaceOK, LocalsOK, Processes, Savers
<1>5. FileInv'
  BY <1>1, KeptSame DEF FileInv, Parses, StartReplay, Goto, shared, testing, saving,
     running, SharedOK, Artifacts, Torn
<1>6. RunnerInv'
  <2>1. is_approved(files[v]) => Kept(files[v].body)
    BY DEF StartReplay, FileInv, is_approved
  <2>2. loaded'[p] = files[v] /\ pc'[p] = "replay" /\ pc[p] = "idle" /\ outcome' = outcome
    BY DEF StartReplay, Goto, LocalsOK, PlaceOK, Processes
  <2>3. \A r \in Runners : r # p => pc'[r] = pc[r] /\ loaded'[r] = loaded[r]
    BY DEF StartReplay, Goto, LocalsOK, PlaceOK, Processes
  <2>4. QED
    BY <1>1, <2>1, <2>2, <2>3, KeptSame DEF RunnerInv, is_approved
<1>7. QED
  BY <1>1, <1>2, <1>3, <1>4, <1>5, <1>6, Unseen

LEMMA FinishReplayPromotes ==
  ASSUME TypeOK, Undisturbed, TestedInv, PromotionInv,
         NEW p \in Runners,
         FinishReplay(p)
  PROVE  PromotionInv' /\ [Contract!Next]_(Contract!vars)
<1> USE DEF TypeOK, PromotionInv
<1>1. reports' = reports /\ ApproversSame
  BY Kinds DEF ApproversSame, FinishReplay, RunOver, Goto, shared, testing, saving,
     running, PlaceOK, LocalsOK, Processes, Savers, Testing, Running, Saving
<1>2. RunnersSame
  BY Kinds DEF RunnersSame, Executes, RunnerInv, FinishReplay, RunOver, Goto, shared,
     testing, saving, running, PlaceOK, LocalsOK, RunningOK, Processes, Savers
<1>3. ReportInv'
  BY <1>1, Kinds DEF ReportInv, FinishReplay, RunOver, Goto, shared, testing, saving,
     running, PlaceOK, Processes, Savers
<1>4. EvidenceInv'
  BY <1>1, Kinds, EvidenceSame DEF EvidenceInv, Saving, FinishReplay, RunOver, Goto,
     shared, testing, saving, running, PlaceOK, LocalsOK, Processes, Savers
<1>5. FileInv'
  BY <1>1, KeptSame DEF FileInv, Parses, FinishReplay, RunOver, Goto, shared, testing,
     saving, running, SharedOK, Artifacts, Torn
<1>6. RunnerInv'
  BY <1>1, Kinds, KeptSame DEF RunnerInv, is_approved, FinishReplay, RunOver, Goto,
     shared, testing, saving, running, PlaceOK, LocalsOK, RunningOK, Processes, Savers
<1>7. QED
  BY <1>1, <1>2, <1>3, <1>4, <1>5, <1>6, Unseen

LEMMA EditPromotes ==
  ASSUME TypeOK, Undisturbed, TestedInv, PromotionInv,
         NEW v \in Versions, NEW b \in Bodies,
         Edit(v, b)
  PROVE  PromotionInv' /\ [Contract!Next]_(Contract!vars)
<1> USE DEF TypeOK, PromotionInv
<1>1. reports' = reports /\ ApproversSame
  BY Kinds DEF ApproversSame, Edit, Goto, shared, testing, saving, running, PlaceOK,
     LocalsOK, Processes, Savers, Testing, Running, Saving
<1>2. RunnersSame
  BY Kinds DEF RunnersSame, Executes, RunnerInv, Edit, Goto, shared, testing, saving,
     running, PlaceOK, LocalsOK, RunningOK, Processes, Savers
<1>3. ReportInv'
  BY <1>1, Kinds DEF ReportInv, Edit, Goto, shared, testing, saving, running, PlaceOK,
     Processes, Savers
<1>4. EvidenceInv'
  BY <1>1, Kinds, EvidenceSame DEF EvidenceInv, Saving, Edit, Goto, shared, testing,
     saving, running, PlaceOK, LocalsOK, Processes, Savers
<1>5. FileInv'
  BY <1>1, KeptSame DEF FileInv, Parses, Edit, Goto, shared, testing, saving, running,
     SharedOK, Artifacts, Torn
<1>6. RunnerInv'
  BY <1>1, Kinds, KeptSame DEF RunnerInv, is_approved, Edit, Goto, shared, testing,
     saving, running, PlaceOK, LocalsOK, RunningOK, Processes, Savers
<1>7. QED
  BY <1>1, <1>2, <1>3, <1>4, <1>5, <1>6, Unseen

LEMMA InitPromotion == Init => PromotionInv
<1> SUFFICES ASSUME Init PROVE PromotionInv
  OBVIOUS
<1>2. ReportInv /\ EvidenceInv
  BY DEF Init, ReportInv, EvidenceInv, Saving, Processes
<1>3. FileInv
  BY DEF Init, FileInv, Parses, Missing, Artifacts
<1>4. RunnerInv
  BY DEF Init, RunnerInv, Processes
<1>5. QED
  BY <1>2, <1>3, <1>4 DEF PromotionInv

LEMMA PromotionStep ==
  ASSUME TypeOK, Undisturbed, TestedInv, PromotionInv, [Next]_vars
  PROVE  PromotionInv' /\ [Contract!Next]_(Contract!vars)
<1> DEFINE Goal == PromotionInv' /\ [Contract!Next]_(Contract!vars)
<1>1. ASSUME NEW p \in Savers, WriteFile(p) PROVE Goal
  BY <1>1, WriteFilePromotes
<1>2. ASSUME NEW p \in Recorders, NEW b \in Bodies, Record(p, b) PROVE Goal
  BY <1>2, RecordPromotes
<1>3. ASSUME NEW p \in Savers, RefuseOverwrite(p) PROVE Goal
  BY <1>3, RefuseOverwritePromotes
<1>4. ASSUME NEW p \in Savers, PathIsFree(p) PROVE Goal
  BY <1>4, PathIsFreePromotes
<1>5. ASSUME NEW p \in Savers, OpenFile(p) PROVE Goal
  BY <1>5, OpenFilePromotes
<1>6. ASSUME NEW p \in Testers \cup Runners, Replay(p) PROVE Goal
  BY <1>6, ReplayPromotes
<1>7. ASSUME NEW p \in Testers \cup Runners, CopyArtifact(p) PROVE Goal
  BY <1>7, CopyArtifactPromotes
<1>8. ASSUME NEW p \in Testers \cup Runners, WriteManifest(p) PROVE Goal
  BY <1>8, WriteManifestPromotes
<1>9. ASSUME NEW p \in Testers, NEW v \in Versions, NEW x \in Assignments,
         NEW n \in RunCounts, StartStability(p, v, x, n) PROVE Goal
  BY <1>9, StartStabilityPromotes
<1>10. ASSUME NEW p \in Testers, LoadRun(p) PROVE Goal
  BY <1>10, LoadRunPromotes
<1>11. ASSUME NEW p \in Testers, LoadRunFails(p) PROVE Goal
  BY <1>11, LoadRunFailsPromotes
<1>12. ASSUME NEW p \in Testers, HashRun(p) PROVE Goal
  BY <1>12, HashRunPromotes
<1>13. ASSUME NEW p \in Testers, FinishRun(p) PROVE Goal
  BY <1>13, FinishRunPromotes
<1>14. ASSUME NEW p \in Testers, WriteReport(p) PROVE Goal
  BY <1>14, WriteReportPromotes
<1>15. ASSUME NEW p \in Approvers, NEW v \in Versions, NEW T \in SUBSET Testers, StartApproval(p, v, T) PROVE Goal
  BY <1>15, StartApprovalPromotes
<1>16. ASSUME NEW p \in Approvers, HashDraft(p) PROVE Goal
  BY <1>16, HashDraftPromotes
<1>17. ASSUME NEW p \in Approvers, Review(p) PROVE Goal
  BY <1>17, ReviewPromotes
<1>18. ASSUME NEW p \in Approvers, NumberApproved(p) PROVE Goal
  BY <1>18, NumberApprovedPromotes
<1>19. ASSUME NEW p \in Runners, NEW v \in Versions, NEW why \in Purposes, StartReplay(p, v, why) PROVE Goal
  BY <1>19, StartReplayPromotes
<1>20. ASSUME NEW p \in Runners, FinishReplay(p) PROVE Goal
  BY <1>20, FinishReplayPromotes
<1>21. ASSUME NEW v \in Versions, NEW b \in Bodies, Edit(v, b) PROVE Goal
  BY <1>21, EditPromotes
<1>22. ASSUME UNCHANGED vars PROVE Goal
  <2>1. UNCHANGED <<files, reports, pc, loaded, params, announced, cited, purpose, outcome>>
    BY <1>22 DEF vars, shared, testing, saving, running
  <2>2. reports' = reports /\ ApproversSame /\ RunnersSame
    BY <2>1 DEF ApproversSame, RunnersSame, Executes
  <2>3. PromotionInv'
    BY <2>1, <2>2, KeptSame, EvidenceSame DEF PromotionInv, ReportInv, EvidenceInv, FileInv, RunnerInv, Parses
  <2>4. QED
    BY <2>2, <2>3, Unseen
<1>23. QED
  BY <1>1, <1>2, <1>3, <1>4, <1>5, <1>6, <1>7, <1>8, <1>9, <1>10, <1>11,
     <1>12, <1>13, <1>14, <1>15, <1>16, <1>17, <1>18, <1>19, <1>20, <1>21, <1>22
     DEF Next, Step, Save, Stability, Approve, Run, Savers

(* The pipeline keeps its promise, without an edit between a load of a file *)
(* and the hash of it and with one recorder of drafts: whatever edits,     *)
(* stability runs, approvals and replays interleave and wherever a process *)
(* stops, a body is approved only after enough spotless runs under every   *)
(* assignment it declares, and runs unattended only once it is approved.   *)
THEOREM LifecyclePromotes ==
  ASSUME Undisturbed
  PROVE  Spec => ImplementsPromotion
<1>1. Init => Contract!Init
  BY DEF Init, Contract!Init, Spotless, NoReport, ApprovedOnly, Processes
<1>2. Init => TypeOK /\ TestedInv /\ PromotionInv
  BY InitType, InitTested, InitPromotion
<1>3. TypeOK /\ TestedInv /\ PromotionInv /\ [Next]_vars => (TypeOK /\ TestedInv /\ PromotionInv)'
  BY NextType, NextTested, PromotionStep
<1>4. TypeOK /\ TestedInv /\ PromotionInv /\ [Next]_vars => [Contract!Next]_(Contract!vars)
  BY PromotionStep
<1>5. QED
  BY <1>1, <1>2, <1>3, <1>4, PTL DEF Spec, ImplementsPromotion, Contract!Spec
=============================================================================
