----------------------------- MODULE ReuseProofs -----------------------------
(***************************************************************************)
(* Theorems about Reuse, for every library, site, budget and operator: the *)
(* budget holds over all sessions together, every surface is closed exactly *)
(* once, and no source runs again that left a session unverified, unless a *)
(* person vouched for it.                                                  *)
(***************************************************************************)
EXTENDS Reuse, FiniteSetTheorems, TLAPS

\* The frame conditions of Reuse.
USE DEF vars, files, scan, library, session, page, recording, history

LEMMA ActionsOfNext ==
  ASSUME [Next]_vars
  PROVE  \/ UNCHANGED vars
         \/ Edit \/ Preflight \/ CatalogFile \/ CatalogDigest \/ CatalogLoad \/ Catalogued
         \/ NewSession \/ GiveUp \/ NoSurface \/ OpenSession \/ PrefixImported \/ PrefixFails \/ EnterPage
         \/ RestartDiscovery
         \/ Look \/ DiscoveryFails \/ Done \/ OwnStep \/ WastedTurn
         \/ Choose \/ Rejected \/ Execute \/ Replay
         \/ ImportSuccess \/ ContinueUntouched \/ ImportVerified \/ LeaveUnverified \/ AskPerson
         \/ RestartByPerson \/ PersonActs \/ Resume \/ RestartAsked \/ Abort
  BY DEF Next, Automation, Catalog, Sessions, Turn, Reuse, Person, Finished

-----------------------------------------------------------------------------
(* The budget.  `count` is what Library counts, `ran` what really ran. *)

BudgetInv ==
    /\ count \in 0..MaxReuses
    /\ IsFiniteSet(ran) /\ Cardinality(ran) <= count
    /\ pc = "decide" /\ offered # {} => count < MaxReuses
    /\ pc = "recheck" => count < MaxReuses

LEMMA BudgetInit == Init => BudgetInv
  BY ReuseAssumption, FS_EmptySet DEF Init, BudgetInv, ReuseAssumption

\* The only step that counts adds at most one element to what ran.
LEMMA ExecuteCounts ==
  ASSUME BudgetInv, Execute
  PROVE  BudgetInv'
<1> DEFINE x == <<chosen, attempt, Cardinality(ran)>>
<1>1. /\ count \in 0..MaxReuses /\ count < MaxReuses
      /\ IsFiniteSet(ran) /\ Cardinality(ran) <= count
      /\ ran' = ran \cup {x} /\ count' = count + 1 /\ pc' = "replay"
  BY DEF BudgetInv, Execute
<1>2. IsFiniteSet(ran') /\ Cardinality(ran') \in {Cardinality(ran), Cardinality(ran) + 1}
  BY <1>1, FS_AddElement
<1>3. Cardinality(ran) \in Nat
  BY <1>1, FS_CardinalityType
<1>4. Cardinality(ran') <= count' /\ count' \in 0..MaxReuses
  BY <1>1, <1>2, <1>3, ReuseAssumption DEF ReuseAssumption
<1> QED
  BY <1>1, <1>2, <1>4 DEF BudgetInv

LEMMA BudgetStep ==
  ASSUME BudgetInv, [Next]_vars
  PROVE  BudgetInv'
<1> USE DEF BudgetInv
<1>1. CASE Execute
  BY <1>1, ExecuteCounts
<1>2. CASE Look
  <2>1. /\ pc' = "decide" /\ UNCHANGED <<count, ran>>
        /\ count >= MaxReuses => offered' = {}
    BY <1>2 DEF Look
  <2>2. count \in Int /\ MaxReuses \in Int
    BY ReuseAssumption DEF ReuseAssumption
  <2> QED
    BY <2>1, <2>2
<1>3. CASE Choose
  BY <1>3 DEF Choose
<1>4. CASE NewSession
  BY <1>4 DEF NewSession, KeptBySession
<1>5. CASE \/ UNCHANGED vars \/ Edit \/ Preflight \/ CatalogFile \/ CatalogDigest \/ CatalogLoad \/ Catalogued
  BY <1>5 DEF Edit, Preflight, CatalogFile, CatalogDigest, CatalogLoad, Catalogued
<1>6. CASE \/ GiveUp \/ NoSurface \/ OpenSession \/ PrefixImported \/ PrefixFails \/ EnterPage
           \/ RestartDiscovery
  BY <1>6 DEF GiveUp, NoSurface, OpenSession, PrefixImported, PrefixFails, EnterPage, RestartDiscovery, Leave
<1>7. CASE DiscoveryFails \/ Done \/ OwnStep \/ WastedTurn \/ Rejected \/ Replay
  BY <1>7 DEF DiscoveryFails, Done, OwnStep, WastedTurn, Rejected, Replay, Leave
<1>8. CASE ImportSuccess \/ ContinueUntouched \/ ImportVerified \/ LeaveUnverified \/ AskPerson
  BY <1>8 DEF ImportSuccess, ContinueUntouched, ImportVerified, Import, LeaveUnverified, AskPerson, Leave
<1>9. CASE RestartByPerson \/ PersonActs \/ Resume \/ RestartAsked \/ Abort
  BY <1>9 DEF RestartByPerson, PersonActs, Resume, RestartAsked, Abort, Leave
<1> QED
  BY <1>1, <1>2, <1>3, <1>4, <1>5, <1>6, <1>7, <1>8, <1>9, ActionsOfNext

\* Library, count against max_reuses: the automatic reuses of all sessions of one discovery stay within the
\* budget, for every budget and every number of restarts.
THEOREM BudgetHolds == Spec => []ReusesBounded
<1>1. BudgetInv => ReusesBounded
  BY FS_CardinalityType, ReuseAssumption DEF BudgetInv, ReusesBounded, ReuseAssumption
<1> QED
  BY BudgetInit, BudgetStep, <1>1, PTL DEF Spec

-----------------------------------------------------------------------------
(* Types.  A running session has a number within the restarts, and a replay has a segment. *)

TypeInv ==
    /\ TypeOK
    /\ attempt <= MAX_DISCOVERY_RESTARTS + 1 \/ pc \in Over \cup {"session"}
    /\ pc \in {"recheck", "replay", "classify", "person"} => chosen \in Segments

LEMMA TypeInit == Init => TypeInv
  BY ReuseAssumption DEF Init, TypeInv, TypeOK, Calls, Over, Contents, NoReading, MAX_DISCOVERY_RESTARTS, ReuseAssumption

LEMMA TypeStep ==
  ASSUME TypeInv, BudgetInv, [Next]_vars
  PROVE  TypeInv'
<1> USE DEF TypeInv, TypeOK, Calls, Over, MAX_DISCOVERY_RESTARTS
<1>1. count' \in 0..MaxReuses
  BY BudgetStep DEF BudgetInv
<1>2. CASE UNCHANGED vars
  BY <1>2
<1>3. CASE Edit
  <2>1. disk' \in [Sources -> Contents]
    BY <1>3, ReuseAssumption DEF Edit, ReuseAssumption
  <2> QED
    BY <2>1, <1>1, <1>3 DEF Edit
<1>4. CASE Preflight \/ CatalogFile \/ CatalogDigest \/ CatalogLoad \/ Catalogued
  BY <1>1, <1>4 DEF Preflight, CatalogFile, CatalogDigest, CatalogLoad, Catalogued, NoReading
<1>5. CASE NewSession
  BY <1>1, <1>5, ReuseAssumption DEF NewSession, SessionsLeft, KeptBySession, ReuseAssumption
<1>6. CASE GiveUp \/ NoSurface \/ OpenSession \/ PrefixFails \/ RestartDiscovery
  BY <1>1, <1>6 DEF GiveUp, NoSurface, OpenSession, PrefixFails, RestartDiscovery, SessionsLeft, Leave
<1>7. CASE PrefixImported \/ EnterPage
  BY <1>1, <1>7, ReuseAssumption DEF PrefixImported, EnterPage, ReuseAssumption
<1>8. CASE Look
  <2>1. turn' \in 0..MaxTurns
    BY <1>8, ReuseAssumption DEF Look, ReuseAssumption
  <2> QED
    BY <2>1, <1>1, <1>8 DEF Look
<1>9. CASE DiscoveryFails \/ Done \/ OwnStep \/ WastedTurn \/ Rejected \/ Execute
  BY <1>1, <1>9 DEF DiscoveryFails, Done, OwnStep, WastedTurn, Rejected, Execute, Leave
<1>10. CASE Choose
  BY <1>1, <1>10 DEF Choose
<1>11. CASE Replay
  BY <1>1, <1>11, SegmentAssumption DEF Replay, SegmentAssumption
<1>12. CASE ImportSuccess \/ ContinueUntouched \/ ImportVerified
  <2>1. /\ pc' = "turn"
        /\ UNCHANGED <<files, scan, library, session, page>>
    BY <1>12 DEF ImportSuccess, ContinueUntouched, ImportVerified, Import
  <2>2. pc = "classify"
    BY <1>12 DEF ImportSuccess, ContinueUntouched, ImportVerified
  <2> QED
    BY <2>1, <2>2, <1>1
<1>13. CASE LeaveUnverified \/ RestartAsked
  BY <1>1, <1>13, SegmentAssumption DEF LeaveUnverified, RestartAsked, Exclusion, Leave, SegmentAssumption
<1>14. CASE AskPerson \/ PersonActs \/ Resume \/ RestartByPerson \/ Abort
  BY <1>1, <1>14 DEF AskPerson, PersonActs, Resume, RestartByPerson, Abort, Leave
<1> QED
  BY <1>2, <1>3, <1>4, <1>5, <1>6, <1>7, <1>8, <1>9, <1>10, <1>11, <1>12, <1>13, <1>14, ActionsOfNext

\* Every variable keeps its type: the sessions, the turns and the reuses stay within their limits.
THEOREM TypeCorrect == Spec => []TypeOK
<1>1. TypeInv => TypeOK
  BY DEF TypeInv
<1> QED
  BY BudgetInit, BudgetStep, TypeInit, TypeStep, <1>1, PTL DEF Spec

-----------------------------------------------------------------------------
(* What discovery knows of the page.  What a reuse did is a node, unless a business outcome ended it or it succeeded *)
(* and the key of the screen does not tell. *)

Excused(g) == g.after = "declared" \/ (g.after = "success" /\ ~g.keyed)

KnownInv ==
    /\ \A g \in gap : Excused(g)
    /\ pc = "classify" => \E g \in Segments : g = chosen /\ result \in Results(g)

\* An answer says what happened: nothing without an attempt of an action, and a read is never an act.
LEMMA AnswerTells ==
  ASSUME pc = "classify", result \in Results(chosen)
  PROVE  /\ result.status \in {"success", "failure"} \cup Outcomes
         /\ result.status = "success" => result.done /\ ~result.crashed
         /\ Kind[chosen] \in READS => ~result.happened
         /\ result.status = "failure" /\ ~result.crashed /\ result.attempts = 0 => ~result.happened
  BY DEF Results, Answers

\* What is continued without a person is a node, or the page did not move as far as its key tells.
LEMMA ImportTells ==
  ASSUME KnownInv, ImportSuccess \/ ContinueUntouched \/ ImportVerified
  PROVE  \A g \in gap' : Excused(g)
<1> DEFINE Lost == [after |-> Class, moved |-> screen # seen, keyed |-> KeyChanged]
           G(imported) == gap' = gap \cup (IF result.happened /\ imported = <<>> THEN {Lost} ELSE {})
           Node == [by |-> "reuse", seg |-> chosen]
<1>1. pc = "classify" /\ chosen \in Segments /\ (\A g \in gap : Excused(g)) /\ result \in Results(chosen)
  BY DEF KnownInv, ImportSuccess, ContinueUntouched, ImportVerified
<1>2. Outcomes \subseteq {"declared", "foreign"}
  BY ReuseAssumption DEF ReuseAssumption
<1>3. <<Node>> # <<>>
  OBVIOUS
<1>4. CASE ContinueUntouched
  <2>1. Class = "before_acting" /\ G(<<>>)
    BY <1>4 DEF ContinueUntouched, Import
  <2>2. result.status = "failure" /\ ~result.crashed /\ result.attempts = 0
    BY <2>1, <1>1, <1>2, AnswerTells DEF Class
  <2> QED
    BY <2>1, <2>2, <1>1, AnswerTells
<1>5. CASE ImportSuccess
  <2>1. PICK imported \in Imports(TRUE) : G(IF NoProgress(imported) THEN <<>> ELSE imported)
    BY <1>5 DEF ImportSuccess, Import
  <2>2. result.status = "success" /\ result.done
    BY <1>5, <1>1, <1>2, AnswerTells DEF ImportSuccess, Class
  <2>3. CASE Kind[chosen] \in READS
    BY <2>1, <2>3, <1>1, AnswerTells
  <2>4. CASE Kind[chosen] \notin READS
    <3>1. imported = <<Node>>
      BY <2>1, <2>2, <2>4 DEF Imports
    <3>2. NoProgress(imported) => ~KeyChanged
      BY DEF NoProgress
    <3>3. ~KeyChanged => Excused(Lost)
      BY <1>5 DEF Excused, ImportSuccess
    <3>4. gap' = gap \/ (gap' = gap \cup {Lost} /\ ~KeyChanged)
      BY <2>1, <3>1, <3>2, <1>3
    <3> QED
      BY <3>3, <3>4, <1>1
  <2> QED
    BY <2>3, <2>4
<1>6. CASE ImportVerified
  <2>1. PICK imported \in Imports(FALSE) : G(imported)
    BY <1>6 DEF ImportVerified, Import
  <2>2. CASE Class = "declared"
    <3>1. Excused(Lost)
      BY <2>2 DEF Excused
    <3> QED
      BY <2>1, <3>1, <1>1
  <2>3. CASE Class = "partial_verified" /\ Kind[chosen] \in READS
    BY <2>1, <2>3, <1>1, AnswerTells
  <2>4. CASE Class = "partial_verified" /\ Kind[chosen] \notin READS
    <3>1. result.done /\ chosen \in Checkpointed
      BY <2>4, <1>1, <1>2, AnswerTells DEF Class
    <3>2. imported = <<Node>>
      BY <2>1, <2>4, <3>1 DEF Imports
    <3> QED
      BY <2>1, <3>2, <1>1, <1>3
  <2> QED
    BY <1>6, <2>2, <2>3, <2>4 DEF ImportVerified
<1> QED
  BY <1>4, <1>5, <1>6

LEMMA KnownStep ==
  ASSUME KnownInv, TypeInv, [Next]_vars
  PROVE  KnownInv'
<1> USE DEF KnownInv
<1>1. CASE \/ UNCHANGED vars \/ Edit \/ Preflight \/ CatalogFile \/ CatalogDigest \/ CatalogLoad \/ Catalogued
  BY <1>1 DEF Edit, Preflight, CatalogFile, CatalogDigest, CatalogLoad, Catalogued
<1>2. CASE NewSession \/ GiveUp \/ NoSurface \/ OpenSession \/ RestartDiscovery \/ PrefixImported \/ PrefixFails \/ EnterPage
  BY <1>2 DEF NewSession, GiveUp, NoSurface, OpenSession, RestartDiscovery, PrefixImported, PrefixFails, EnterPage, Leave
<1>3. CASE Look \/ DiscoveryFails \/ Done \/ OwnStep \/ WastedTurn \/ Choose \/ Rejected \/ Execute
  BY <1>3 DEF Look, DiscoveryFails, Done, OwnStep, WastedTurn, Choose, Rejected, Execute, Leave
<1>4. CASE Replay
  <2>1. /\ pc = "replay" /\ UNCHANGED <<chosen, gap>>
        /\ result' \in Results(chosen)
    BY <1>4 DEF Replay
  <2>2. chosen \in Segments
    BY <2>1 DEF TypeInv
  <2> QED
    BY <2>1, <2>2
<1>5. CASE ImportSuccess \/ ContinueUntouched \/ ImportVerified
  <2>1. pc' = "turn"
    BY <1>5 DEF ImportSuccess, ContinueUntouched, ImportVerified, Import
  <2> QED
    BY <1>5, <2>1, ImportTells
<1>6. CASE LeaveUnverified \/ AskPerson \/ PersonActs \/ Resume \/ RestartAsked \/ RestartByPerson \/ Abort
  BY <1>6 DEF LeaveUnverified, AskPerson, PersonActs, Resume, RestartAsked, RestartByPerson, Abort, Leave
<1> QED
  BY <1>1, <1>2, <1>3, <1>4, <1>5, <1>6, ActionsOfNext

\* reuse_segment: discovery goes on, alone, only from a page every change of which is a node of its recording; the
\* exceptions are a reuse that ended in a business outcome this discovery declares, and one that succeeded in a way
\* the key of the screen does not tell.
THEOREM KnownHolds == Spec => []KnownState
<1>1. Init => KnownInv
  BY DEF Init, KnownInv
<1>2. KnownInv => KnownState
  BY DEF KnownInv, KnownState, Excused
<1> QED
  BY BudgetInit, BudgetStep, TypeInit, TypeStep, <1>1, <1>2, KnownStep, PTL DEF Spec

-----------------------------------------------------------------------------
(* The files.  Nothing but a half-written file falls into the scan: then the artifact of an entry has its digest. *)

CatalogInv ==
    /\ catalog \in [Sources -> [digest : Contents \cup {"none"}, artifact : Contents \cup {"none"}]]
    /\ \A s \in Sources : catalog[s].digest = catalog[s].artifact
    /\ reading \in [source : Sources \cup {"none"}, digest : Contents \cup {"none"}]
    /\ pc = "scan" /\ reading.digest # "none" =>
         reading.source \in Sources /\ disk[reading.source] \in {reading.digest, "broken"}
    /\ reading.source = "none" => reading.digest = "none"
    /\ pc = "preflight" => reading = NoReading

LEMMA CatalogStep ==
  ASSUME CatalogInv, TypeInv, [Next]_vars, ScanEdits \subseteq {"broken"}
  PROVE  CatalogInv'
<1> USE DEF CatalogInv
<1>1. CASE Edit
  <2>1. UNCHANGED <<pc, catalog, reading>> /\ pc # "preflight"
    BY <1>1 DEF Edit, scan
  <2>2. PICK s \in Sources, c \in IF pc = "scan" THEN ScanEdits ELSE Contents : disk' = [disk EXCEPT ![s] = c]
    BY <1>1 DEF Edit
  <2>3. disk \in [Sources -> Contents]
    BY DEF TypeInv, TypeOK
  <2>4. pc = "scan" => c = "broken"
    BY <2>2
  <2>5. pc = "scan" /\ reading.digest # "none" => disk'[reading.source] \in {reading.digest, "broken"}
    BY <2>2, <2>3, <2>4
  <2> QED
    BY <2>1, <2>5
<1>2. CASE CatalogFile \/ Preflight \/ Catalogued
  BY <1>2 DEF CatalogFile, Preflight, Catalogued, NoReading, TypeInv, TypeOK
<1>3. CASE CatalogLoad
  BY <1>3 DEF CatalogLoad, NoReading, TypeInv, TypeOK
<1>4. CASE UNCHANGED vars
  BY <1>4
<1>5. CASE NewSession \/ GiveUp \/ NoSurface \/ OpenSession \/ RestartDiscovery \/ PrefixImported \/ PrefixFails \/ EnterPage
  BY <1>5 DEF NewSession, GiveUp, NoSurface, OpenSession, RestartDiscovery, PrefixImported, PrefixFails, EnterPage, Leave
<1>6. CASE Look \/ DiscoveryFails \/ Done \/ OwnStep \/ WastedTurn \/ Choose \/ Rejected \/ Execute \/ Replay
  BY <1>6 DEF Look, DiscoveryFails, Done, OwnStep, WastedTurn, Choose, Rejected, Execute, Replay, Leave
<1>7. CASE ImportSuccess \/ ContinueUntouched \/ ImportVerified
  BY <1>7 DEF ImportSuccess, ContinueUntouched, ImportVerified, Import
<1>8. CASE LeaveUnverified \/ AskPerson \/ PersonActs \/ Resume \/ RestartAsked \/ RestartByPerson \/ Abort
  BY <1>8 DEF LeaveUnverified, AskPerson, PersonActs, Resume, RestartAsked, RestartByPerson, Abort, Leave
<1>9. CASE CatalogDigest
  <2>1. reading.source \in Sources
    BY <1>9 DEF CatalogDigest, NoReading
  <2> QED
    BY <2>1, <1>9 DEF CatalogDigest, NoReading, TypeInv, TypeOK
<1> QED
  BY <1>1, <1>2, <1>3, <1>4, <1>5, <1>6, <1>7, <1>8, <1>9, ActionsOfNext

\* execute_candidate: as long as nobody replaces an artifact within a scan of the directory, the segment that runs is
\* cut from the artifact that is on disk when it starts, whatever was written since it was offered.
THEOREM RunsDisk ==
  ASSUME ScanEdits \subseteq {"broken"}
  PROVE  Spec => RunsWhatIsOnDisk
<1>1. Init => CatalogInv
  BY DEF Init, CatalogInv, NoEntry, NoReading
<1>2. CatalogInv /\ TypeInv /\ [Next]_vars => [Execute => catalog[SourceOf[chosen]].artifact = disk[SourceOf[chosen]]]_vars
  BY SegmentAssumption DEF CatalogInv, TypeInv, Execute, Unchanged, SegmentAssumption
<1>3. CatalogInv /\ TypeInv /\ [Next]_vars => CatalogInv'
  BY CatalogStep
<1> QED
  BY BudgetInit, BudgetStep, TypeInit, TypeStep, <1>1, <1>2, <1>3, PTL DEF Spec, RunsWhatIsOnDisk

-----------------------------------------------------------------------------
(* The surfaces. *)

\* The calls `discover_with_reuse` makes while it owns an open surface.
Owning == {"prefix", "enter", "turn", "decide", "recheck", "replay", "classify", "person"}

OwnershipInv ==
    /\ opened \in Nat /\ closed \in Nat
    /\ opened = closed + (IF pc \in Owning THEN 1 ELSE 0)

LEMMA OwnershipStep ==
  ASSUME OwnershipInv, [Next]_vars
  PROVE  OwnershipInv'
<1> USE DEF OwnershipInv, Owning, Over
<1>1. CASE \/ UNCHANGED vars \/ Edit \/ Preflight \/ CatalogFile \/ CatalogDigest \/ CatalogLoad \/ Catalogued
  BY <1>1 DEF Edit, Preflight, CatalogFile, CatalogDigest, CatalogLoad, Catalogued
<1>2. CASE NewSession \/ GiveUp \/ NoSurface \/ OpenSession \/ RestartDiscovery
  BY <1>2 DEF NewSession, GiveUp, NoSurface, OpenSession, RestartDiscovery
<1>3. CASE PrefixImported \/ PrefixFails \/ EnterPage \/ Look \/ DiscoveryFails \/ Done \/ OwnStep \/ WastedTurn
  BY <1>3 DEF PrefixImported, PrefixFails, EnterPage, Look, Offerable, DiscoveryFails, Done, OwnStep, WastedTurn, Leave
<1>4. CASE Choose \/ Rejected \/ Execute \/ Replay
  BY <1>4 DEF Choose, Rejected, Execute, Replay
<1>5. CASE ImportSuccess \/ ContinueUntouched \/ ImportVerified
  <2>1. pc = "classify" /\ pc' = "turn" /\ UNCHANGED <<opened, closed>>
    BY <1>5 DEF ImportSuccess, ContinueUntouched, ImportVerified, Import
  <2> QED
    BY <2>1
<1>6. CASE RestartByPerson \/ RestartAsked \/ Abort
  BY <1>6 DEF RestartByPerson, RestartAsked, Abort, Leave
<1>7. CASE PersonActs \/ LeaveUnverified \/ AskPerson
  BY <1>7 DEF PersonActs, LeaveUnverified, AskPerson, Leave
<1>8. CASE Resume
  BY <1>8 DEF Resume
<1> HIDE DEF OwnershipInv, Owning, Over
<1> QED
  BY <1>1, <1>2, <1>3, <1>4, <1>5, <1>6, <1>7, <1>8, ActionsOfNext

\* discover_with_reuse owns every surface it opens: at most one is open, the dirty one is closed before the next,
\* and none is left over, whatever fails.
THEOREM SurfacesClosed == Spec => []SessionsClosed
<1>1. Init => OwnershipInv
  BY DEF Init, OwnershipInv, Owning
<1>2. OwnershipInv => SessionsClosed
  BY DEF OwnershipInv, SessionsClosed, Owning, Over
<1> QED
  BY <1>1, <1>2, OwnershipStep, PTL DEF Spec

-----------------------------------------------------------------------------
(* The exclusions. *)

\* Between two sessions the orchestrator knows what the library will be told of; inside one the library knows.
ExclusionInv ==
    /\ unsure \subseteq exclude
    /\ pc \in Owning \cup {"open", "reopen"} => exclude \subseteq excluded
    /\ pc = "decide" => \A g \in offered : SourceOf[g] \notin excluded
    /\ pc = "recheck" => SourceOf[chosen] \notin excluded

LEMMA ExclusionStep ==
  ASSUME ExclusionInv, [Next]_vars
  PROVE  ExclusionInv'
<1> USE DEF ExclusionInv, Owning
<1>1. CASE \/ UNCHANGED vars \/ Edit \/ Preflight \/ CatalogFile \/ CatalogDigest \/ CatalogLoad \/ Catalogued
  BY <1>1 DEF Edit, Preflight, CatalogFile, CatalogDigest, CatalogLoad, Catalogued
<1>2. CASE NewSession
  BY <1>2 DEF NewSession, KeptBySession
<1>3. CASE GiveUp \/ NoSurface \/ OpenSession \/ RestartDiscovery \/ PrefixImported \/ PrefixFails \/ EnterPage
  BY <1>3 DEF GiveUp, NoSurface, OpenSession, RestartDiscovery, PrefixImported, PrefixFails, EnterPage, Leave
<1>4. CASE Look
  BY <1>4 DEF Look, Offerable
<1>5. CASE DiscoveryFails \/ Done \/ OwnStep \/ WastedTurn
  BY <1>5 DEF DiscoveryFails, Done, OwnStep, WastedTurn, Leave
<1>6. CASE Choose
  BY <1>6 DEF Choose
<1>7. CASE Rejected \/ Execute \/ Replay
  BY <1>7 DEF Rejected, Execute, Replay
<1>8. CASE ImportSuccess \/ ContinueUntouched \/ ImportVerified
  BY <1>8 DEF ImportSuccess, ContinueUntouched, ImportVerified, Import
<1>9. CASE LeaveUnverified
  BY <1>9 DEF LeaveUnverified, Exclusion, Leave
<1>10. CASE AskPerson
  BY <1>10 DEF AskPerson
<1>11. CASE RestartByPerson \/ PersonActs \/ Resume \/ RestartAsked \/ Abort
  BY <1>11 DEF RestartByPerson, PersonActs, Resume, RestartAsked, Abort, Leave, Exclusion
<1> QED
  BY <1>1, <1>2, <1>3, <1>4, <1>5, <1>6, <1>7, <1>8, <1>9, <1>10, <1>11, ActionsOfNext

\* Library.excluded: a source that left a session unverified, and for which nobody vouched, is never run again, on
\* that session or a later one.
THEOREM UnsureStaysOut == Spec => UnsureNeverRuns
<1>1. Init => ExclusionInv
  BY DEF Init, ExclusionInv, Owning
<1>2. ExclusionInv /\ [Next]_vars => [Execute => SourceOf[chosen] \notin unsure]_vars
  BY DEF ExclusionInv, Execute, Owning
<1> QED
  BY <1>1, <1>2, ExclusionStep, PTL DEF Spec, UnsureNeverRuns
=============================================================================
