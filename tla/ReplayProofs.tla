---------------------------- MODULE ReplayProofs ----------------------------
(***************************************************************************)
(* Proofs about Replay for every capability graph, every budget and every  *)
(* policy.  A step of the engine combines a control operator (Goto,        *)
(* Finish, BeginAttempt, ...) with what it does to the ledger, so the      *)
(* lemmas below say once what each control operator preserves.             *)
(***************************************************************************)
EXTENDS Replay, SequenceTheorems, TLAPS

-----------------------------------------------------------------------------
(* Types *)

LEMMA NoAttempt == 0 \in 0..MaxTransientAttempts
  BY BoundAssumption

LEMMA FirstAttempt == 1 \in 0..MaxTransientAttempts
  BY BoundAssumption

LEMMA NotWaitingType == NotWaiting \in [dialogs : Nat, loads : Nat, polls : Nat]
  BY DEF NotWaiting

LEMMA InitType == Init => TypeOK
<1> SUFFICES ASSUME Init PROVE TypeOK
  OBVIOUS
<1>1. ControlOK
  <2>1. EntryNode \in Nodes
    BY GraphAssumption
  <2>2. NoResult \in [status : Statuses, code : Codes]
    BY DEF NoResult, Statuses, Codes
  <2>3. QED
    BY <2>1, <2>2, NoAttempt, NotWaitingType DEF Init, ControlOK, Calls
<1>2. SessionOK
  BY DEF Init, SessionOK, NoHandoff, Sites, Codes
<1>3. LedgerOK
  <2>1. GivenOK /\ GhostsOK
    BY DEF Init, GivenOK, GhostsOK, NothingDispatched
  <2>2. outputs \in [Outputs -> [state : {"absent", "null", "value"}, items : Seq(Nodes)]]
    BY DEF Init, NothingCollected, Absent
  <2>3. QED
    BY <2>1, <2>2 DEF Init, LedgerOK, FlowOK
<1>4. QED
  BY <1>1, <1>2, <1>3 DEF TypeOK

LEMMA GotoType ==
  ASSUME ControlOK, NEW call \in Calls, Goto(call)
  PROVE  ControlOK'
  BY DEF ControlOK, Goto, place

LEMMA FinishType ==
  ASSUME ControlOK, NEW status \in Statuses, NEW code \in Codes, Finish(status, code)
  PROVE  ControlOK'
  BY DEF ControlOK, Finish, place, Calls

LEMMA FailType ==
  ASSUME ControlOK, NEW code \in Codes, Fail(code)
  PROVE  ControlOK'
  BY FinishType DEF Fail, Statuses

LEMMA EscapeType ==
  ASSUME ControlOK, NEW exception \in Codes, Escape(exception)
  PROVE  ControlOK'
  BY DEF ControlOK, Escape, place, Calls, Statuses

LEMMA BeginAttemptType ==
  ASSUME ControlOK, NEW count \in 0..MaxTransientAttempts, NEW carriedOut \in BOOLEAN,
         BeginAttempt(count, carriedOut)
  PROVE  ControlOK'
  BY NotWaitingType DEF ControlOK, BeginAttempt, Calls

LEMMA GoToEdgesType ==
  ASSUME ControlOK, GoToEdges
  PROVE  ControlOK'
  BY NoAttempt, NotWaitingType DEF ControlOK, GoToEdges, Calls

LEMMA EnterNodeType ==
  ASSUME ControlOK, NEW n \in Nodes, EnterNode(n)
  PROVE  ControlOK'
  BY NoAttempt, NotWaitingType DEF ControlOK, EnterNode, Calls

LEMMA RetryTransientType ==
  ASSUME ControlOK, NEW actedNow \in BOOLEAN, RetryTransient(actedNow)
  PROVE  ControlOK'
<1>1. CASE Fail("transient_retries_exhausted")
  BY <1>1, FailType DEF Codes
<1>2. CASE /\ attempts < MaxTransientAttempts
           /\ BeginAttempt(attempts + 1, CarriedOut(actedNow))
  <2>1. attempts + 1 \in 0..MaxTransientAttempts
    BY <1>2, BoundAssumption DEF ControlOK
  <2>2. CarriedOut(actedNow) \in BOOLEAN
    BY DEF ControlOK, CarriedOut
  <2>3. QED
    BY <1>2, <2>1, <2>2, BeginAttemptType
<1>3. QED
  BY <1>1, <1>2 DEF RetryTransient

LEMMA EscalateType ==
  ASSUME ControlOK, SessionOK, NEW code \in Codes, NEW site \in Sites,
         Escalate(code, site)
  PROVE  ControlOK' /\ SessionOK'
  BY DEF ControlOK, SessionOK, Escalate, place, Calls

LEMMA HandBackType ==
  ASSUME SessionOK, HandBack
  PROVE  SessionOK'
  BY DEF SessionOK, HandBack, NoHandoff, Sites, Codes

LEMMA CompleteType ==
  ASSUME ControlOK, executed_path \in Seq(Nodes), Complete
  PROVE  ControlOK' /\ executed_path' \in Seq(Nodes)
  BY GoToEdgesType DEF Complete, ControlOK

LEMMA SessionKept ==
  ASSUME SessionOK, UNCHANGED session
  PROVE  SessionOK'
  BY DEF SessionOK, session

LEMMA LedgerKept ==
  ASSUME LedgerOK, UNCHANGED ledger
  PROVE  LedgerOK'
  BY DEF LedgerOK, GivenOK, FlowOK, GhostsOK, ledger, given, flow, ghosts

LEMMA WaitingType ==
  ASSUME ControlOK, pc' \in Calls, UNCHANGED <<node, attempts, performed, acted, result>>,
         NEW d \in Nat, NEW l \in Nat, NEW p \in Nat,
         waiting' = [dialogs |-> d, loads |-> l, polls |-> p]
  PROVE  ControlOK'
  BY DEF ControlOK

LEMMA CountersType ==
  ASSUME ControlOK
  PROVE  /\ waiting.dialogs \in Nat /\ waiting.loads \in Nat /\ waiting.polls \in Nat
         /\ waiting.dialogs + 1 \in Nat /\ waiting.loads + 1 \in Nat /\ waiting.polls + 1 \in Nat
         /\ waiting = [dialogs |-> waiting.dialogs, loads |-> waiting.loads,
                       polls |-> waiting.polls]
  BY DEF ControlOK

LEMMA FlowStepType ==
  ASSUME LedgerOK, FlowOK', UNCHANGED <<given, restarts, performed_attempts, ghosts>>
  PROVE  LedgerOK'
  BY DEF LedgerOK, GivenOK, GhostsOK, given, ghosts

LEMMA GhostStepType ==
  ASSUME LedgerOK, GhostsOK', performed_attempts' \in Nat, UNCHANGED <<given, restarts, flow>>
  PROVE  LedgerOK'
  BY DEF LedgerOK, GivenOK, FlowOK, given, flow

(* A node completes and nothing is read.                                   *)
LEMMA ListedType ==
  ASSUME ControlOK, LedgerOK, Complete,
         UNCHANGED <<given, restarts, outputs, appended, performed_attempts, ghosts>>
  PROVE  ControlOK' /\ LedgerOK'
<1>1. ControlOK' /\ executed_path' \in Seq(Nodes)
  BY CompleteType DEF LedgerOK, FlowOK
<1>2. FlowOK'
  BY <1>1 DEF LedgerOK, FlowOK
<1>3. QED
  BY <1>1, <1>2, FlowStepType

(* A node completes with what it read.                                     *)
LEMMA ReadType ==
  ASSUME ControlOK, LedgerOK, Complete,
         outputs' \in [Outputs -> [state : {"absent", "null", "value"}, items : Seq(Nodes)]],
         appended' \subseteq Nodes,
         UNCHANGED <<given, restarts, performed_attempts, ghosts>>
  PROVE  ControlOK' /\ LedgerOK'
<1>1. ControlOK' /\ executed_path' \in Seq(Nodes)
  BY CompleteType DEF LedgerOK, FlowOK
<1>2. FlowOK'
  BY <1>1 DEF FlowOK
<1>3. QED
  BY <1>1, <1>2, FlowStepType

LEMMA OutputType ==
  ASSUME LedgerOK, node \in ReadNodes
  PROVE  /\ OutputOf[node] \in Outputs
         /\ outputs[OutputOf[node]].items \in Seq(Nodes)
<1>1. OutputOf[node] \in Outputs
  BY OutputAssumption
<1>2. QED
  BY <1>1 DEF LedgerOK, FlowOK

LEMMA JudgeType ==
  ASSUME LedgerOK, NEW v \in {"allow", "confirm", "deny"}, Judge(v)
  PROVE  LedgerOK'
<1>1. GhostsOK'
  BY DEF Judge, LedgerOK, GhostsOK
<1>2. QED
  BY <1>1, GhostStepType DEF Judge, LedgerOK

LEMMA DispatchType ==
  ASSUME LedgerOK, node \in Nodes, MayHaveHappened \/ NothingHappened,
         UNCHANGED <<given, restarts, flow, handled, verdict, consent>>
  PROVE  LedgerOK'
<1>1. performed_attempts' \in Nat /\ dispatched' \in [Nodes -> Nat]
  <2>1. CASE MayHaveHappened
    <3>1. dispatched[node] + 1 \in Nat
      BY DEF LedgerOK, GhostsOK
    <3>2. QED
      BY <2>1, <3>1 DEF MayHaveHappened, LedgerOK, GhostsOK
  <2>2. CASE NothingHappened
    BY <2>2 DEF NothingHappened, LedgerOK, GhostsOK
  <2>3. QED
    BY <2>1, <2>2
<1>2. GhostsOK'
  BY <1>1 DEF LedgerOK, GhostsOK
<1>3. QED
  BY <1>1, <1>2, GhostStepType

LEMMA TypeStep == TypeOK /\ [Next]_vars => TypeOK'
<1> DEFINE Goal == ControlOK' /\ SessionOK' /\ LedgerOK'
<1> SUFFICES ASSUME ControlOK, SessionOK, LedgerOK, [Next]_vars
             PROVE  Goal
  BY DEF TypeOK
<1>1. CASE StartReplay
  BY <1>1, GotoType, FailType, LedgerKept, SessionKept
  DEF StartReplay, Calls, Codes
<1>2. CASE RunGraph
  BY <1>2, EnterNodeType, LedgerKept, SessionKept, GraphAssumption
  DEF RunGraph
<1>3. CASE EnterAction
  BY <1>3, BeginAttemptType, FirstAttempt, LedgerKept, SessionKept
  DEF EnterAction
<1>4. CASE EnterDecision
  BY <1>4, GoToEdgesType, LedgerKept, SessionKept
  DEF EnterDecision
<1>5. CASE EnterTerminal
  BY <1>5, GotoType, LedgerKept, SessionKept
  DEF EnterTerminal, Calls
<1>6. CASE SettleLoadFails
  BY <1>6, RetryTransientType, LedgerKept, SessionKept
  DEF SettleLoadFails, ControlOK
<1>7. CASE SettleClear
  BY <1>7, GotoType, LedgerKept, SessionKept
  DEF SettleClear, Calls
<1>8. CASE SettleRecoversDialog
  <2>1. waiting' = [dialogs |-> waiting.dialogs + 1, loads |-> waiting.loads,
                    polls |-> waiting.polls]
    BY <1>8, CountersType DEF SettleRecoversDialog
  <2>2. QED
    BY <1>8, <2>1, CountersType, WaitingType, LedgerKept, SessionKept
    DEF SettleRecoversDialog, ControlOK
<1>9. CASE SettleRecoveryFails
  BY <1>9, EscalateType, LedgerKept
  DEF SettleRecoveryFails, Codes, Sites
<1>10. CASE SettleUnknownDialog
  BY <1>10, EscalateType, LedgerKept
  DEF SettleUnknownDialog, Codes, Sites
<1>11. CASE StepAlreadySatisfied
  BY <1>11, ListedType, SessionKept
  DEF StepAlreadySatisfied
<1>12. CASE ResultUncertain
  BY <1>12, EscalateType, LedgerKept
  DEF ResultUncertain, Codes, Sites
<1>13. CASE ReachDenied
  BY <1>13, FailType, LedgerKept, SessionKept
  DEF ReachDenied, Proceeds, Codes
<1>14. CASE ResolveTarget
  <2>1. GhostsOK' /\ performed_attempts' \in Nat
    BY <1>14 DEF ResolveTarget, LedgerOK, GhostsOK
  <2>2. QED
    BY <1>14, <2>1, GotoType, GhostStepType, SessionKept DEF ResolveTarget, Calls
<1>15. CASE TargetAmbiguous
  BY <1>15, FailType, LedgerKept, SessionKept
  DEF TargetAmbiguous, Proceeds, ResolvesControl, Clicks, Codes
<1>16. CASE TargetMissingByOutcome
  BY <1>16, FinishType, LedgerKept, SessionKept
  DEF TargetMissingByOutcome, Proceeds, ResolvesControl, Clicks, Codes,
      Statuses
<1>17. CASE TargetMissing
  BY <1>17, EscalateType, LedgerKept
  DEF TargetMissing, Proceeds, ResolvesControl, Clicks, OptionalRead, Codes,
      Sites
<1>18. CASE OptionalControlMissing
  <2>1. node \in ReadNodes
    BY <1>18 DEF OptionalControlMissing, OptionalRead
  <2>2. /\ outputs' \in [Outputs -> [state : {"absent", "null", "value"}, items : Seq(Nodes)]]
        /\ appended' \subseteq Nodes
    BY <1>18, <2>1, OutputType
    DEF OptionalControlMissing, RecordMissingOutput, Null, LedgerOK, FlowOK
  <2>3. QED
    BY <1>18, <2>2, ReadType, SessionKept DEF OptionalControlMissing
<1>19. CASE VerdictDenies
  BY <1>19, JudgeType, FailType, SessionKept
  DEF VerdictDenies, Codes
<1>20. ASSUME NEW v \in {"allow", "confirm"}, EffectDenied(v)
      PROVE  Goal
  BY <1>20, JudgeType, FailType, SessionKept
  DEF EffectDenied, DeniedCode, Codes
<1>21. ASSUME NEW v \in {"allow", "confirm"}, RequireApproval(v)
      PROVE  Goal
  BY <1>21, JudgeType, EscalateType
  DEF RequireApproval, NotConfirmedCode, Codes, Sites
<1>22. ASSUME NEW v \in {"allow", "confirm"}, EffectAllowed(v)
      PROVE  Goal
  BY <1>22, JudgeType, GotoType, SessionKept
  DEF EffectAllowed, Calls
<1>23. CASE ActCompletes
  <2>1. ControlOK'
    BY <1>23, NotWaitingType DEF ActCompletes, ControlOK, Calls
  <2>2. QED
    BY <1>23, <2>1, DispatchType, SessionKept DEF ActCompletes, beside, ControlOK
<1>24. CASE ActLost
  BY <1>24, RetryTransientType, DispatchType, SessionKept
  DEF ActLost, beside, ControlOK
<1>25. CASE ActNotDispatched
  BY <1>25, RetryTransientType, DispatchType, SessionKept
  DEF ActNotDispatched, beside, ControlOK
<1>26. CASE ActAmbiguous
  BY <1>26, FailType, DispatchType, SessionKept
  DEF ActAmbiguous, beside, ControlOK, Codes
<1>27. CASE ActStale
  BY <1>27, FailType, DispatchType, SessionKept
  DEF ActStale, beside, ControlOK, Codes
<1>28. CASE ObservedAfterAct
  BY <1>28, ListedType, SessionKept
  DEF ObservedAfterAct
<1>29. CASE LoadFailsAfterAct
  BY <1>29, RetryTransientType, LedgerKept, SessionKept
  DEF LoadFailsAfterAct, ControlOK
<1>30. CASE CheckpointPassed
  BY <1>30, ListedType, SessionKept
  DEF CheckpointPassed
<1>31. CASE OutcomeAfterAct
  BY <1>31, FinishType, LedgerKept, SessionKept
  DEF OutcomeAfterAct, Codes, Statuses
<1>32. CASE CheckpointTimeout
  BY <1>32, EscalateType, LedgerKept
  DEF CheckpointTimeout, Codes, Sites
<1>33. CASE PollCheckpoint
  <2>1. waiting' = [dialogs |-> 0, loads |-> 0, polls |-> waiting.polls + 1]
    BY <1>33 DEF PollCheckpoint, NotWaiting
  <2>2. QED
    BY <1>33, <2>1, CountersType, WaitingType, LedgerKept, SessionKept DEF PollCheckpoint, Calls
<1>34. CASE ReadStored
  <2>1. node \in ReadNodes /\ node \in Nodes
    BY <1>34 DEF ReadStored, Reading, ControlOK
  <2>2. Value(<<node>>).items \in Seq(Nodes)
    BY <2>1 DEF Value
  <2>3. Append(outputs[OutputOf[node]].items, node) \in Seq(Nodes)
    BY <2>1, OutputType
  <2>4. /\ Value(<<node>>) \in [state : {"absent", "null", "value"}, items : Seq(Nodes)]
        /\ Value(Append(outputs[OutputOf[node]].items, node))
             \in [state : {"absent", "null", "value"}, items : Seq(Nodes)]
    BY <2>2, <2>3 DEF Value
  <2>5. outputs' \in [Outputs -> [state : {"absent", "null", "value"}, items : Seq(Nodes)]]
    BY <1>34, <2>1, <2>4, OutputType DEF ReadStored, StoreItems, LedgerOK, FlowOK
  <2>6. appended' \subseteq Nodes
    BY <1>34, <2>1 DEF ReadStored, StoreItems, LedgerOK, FlowOK
  <2>7. QED
    BY <1>34, <2>5, <2>6, ReadType, SessionKept DEF ReadStored, outside
<1>35. CASE ScalarUnmatched
  <2>1. node \in ReadNodes
    BY <1>35 DEF ScalarUnmatched, Reading
  <2>2. /\ outputs' \in [Outputs -> [state : {"absent", "null", "value"}, items : Seq(Nodes)]]
        /\ appended' \subseteq Nodes
    BY <1>35, <2>1, OutputType DEF ScalarUnmatched, RecordMissingOutput, Null, LedgerOK, FlowOK
  <2>3. QED
    BY <1>35, <2>2, ReadType, SessionKept DEF ScalarUnmatched, outside
<1>36. CASE OptionalListAbsent
  <2>1. node \in ReadNodes
    BY <1>36 DEF OptionalListAbsent, Reading
  <2>2. /\ outputs' \in [Outputs -> [state : {"absent", "null", "value"}, items : Seq(Nodes)]]
        /\ appended' \subseteq Nodes
    BY <1>36, <2>1, OutputType DEF OptionalListAbsent, outside, Absent, LedgerOK, FlowOK
  <2>3. QED
    BY <1>36, <2>2, ReadType, SessionKept DEF OptionalListAbsent, outside
<1>37. CASE ReadRefused
  BY <1>37, FinishType, FailType, LedgerKept, SessionKept
  DEF ReadRefused, Reading, OptionalRead, Codes, Statuses
<1>38. CASE ItemMissing
  BY <1>38, EscalateType, LedgerKept
  DEF ItemMissing, Reading, OptionalRead, Codes, Sites
<1>39. CASE LoadFails
  <2>1. CASE Fail("transient_retries_exhausted")
    BY <1>39, <2>1, FailType, LedgerKept, SessionKept DEF LoadFails, Codes
  <2>2. CASE waiting' = [waiting EXCEPT !.loads = @ + 1]
             /\ UNCHANGED <<pc, node, attempts, performed, acted, result>>
    <3>1. waiting' = [dialogs |-> waiting.dialogs, loads |-> waiting.loads + 1,
                      polls |-> waiting.polls]
      BY <2>2, CountersType
    <3>2. QED
      BY <1>39, <2>2, <3>1, CountersType, WaitingType, LedgerKept, SessionKept
      DEF LoadFails, ControlOK
  <2>3. QED
    BY <1>39, <2>1, <2>2 DEF LoadFails
<1>40. ASSUME NEW m \in Nodes, TakeEdge(m)
      PROVE  Goal
  BY <1>40, EnterNodeType, LedgerKept, SessionKept
  DEF TakeEdge
<1>41. ASSUME NEW m \in Nodes, TakeFallback(m)
      PROVE  Goal
  BY <1>41, EnterNodeType, LedgerKept, SessionKept
  DEF TakeFallback
<1>42. CASE EdgeRecoversDialog
  <2>1. waiting' = [dialogs |-> waiting.dialogs + 1, loads |-> 0, polls |-> waiting.polls]
    BY <1>42, CountersType DEF EdgeRecoversDialog
  <2>2. QED
    BY <1>42, <2>1, CountersType, WaitingType, LedgerKept, SessionKept
    DEF EdgeRecoversDialog, ControlOK
<1>43. CASE EdgeRecoveryFails
  BY <1>43, EscalateType, LedgerKept
  DEF EdgeRecoveryFails, Codes, Sites
<1>44. CASE EdgeRecoveryRaises
  BY <1>44, EscapeType, LedgerKept, SessionKept
  DEF EdgeRecoveryRaises, Codes
<1>45. CASE NoMatchingEdge
  BY <1>45, EscalateType, LedgerKept
  DEF NoMatchingEdge, Codes, Sites
<1>46. CASE PollEdges
  <2>1. waiting' = [dialogs |-> waiting.dialogs, loads |-> 0, polls |-> waiting.polls + 1]
    BY <1>46, CountersType DEF PollEdges
  <2>2. QED
    BY <1>46, <2>1, CountersType, WaitingType, LedgerKept, SessionKept DEF PollEdges, ControlOK
<1>47. CASE SuccessVerified
  BY <1>47, FinishType, LedgerKept, SessionKept
  DEF SuccessVerified, SuccessTerminal, MissingOutputs, Codes, Statuses
<1>48. CASE OutputsIncomplete
  BY <1>48, FailType, LedgerKept, SessionKept
  DEF OutputsIncomplete, SuccessTerminal, MissingOutputs, Codes
<1>49. CASE SuccessNotMet
  BY <1>49, FinishType, FailType, LedgerKept, SessionKept
  DEF SuccessNotMet, SuccessTerminal, Codes, Statuses
<1>50. CASE OtherTerminal
  BY <1>50, FinishType, LedgerKept, SessionKept, GraphAssumption
  DEF OtherTerminal, ControlOK, Statuses, Codes
<1>51. CASE PersonActs
  <2>1. SessionOK'
    BY <1>51 DEF PersonActs, SessionOK
  <2>2. ControlOK'
    BY <1>51 DEF PersonActs, place, ControlOK
  <2>3. QED
    BY <1>51, <2>1, <2>2, LedgerKept DEF PersonActs
<1>52. CASE ShowControlsFails
  <2>1. SessionOK'
    BY <1>52 DEF ShowControlsFails, SessionOK, NoHandoff, Sites, Codes
  <2>2. ControlOK'
    <3>1. acted \in BOOLEAN
      BY DEF ControlOK
    <3>2. QED
      BY <1>52, <3>1, RetryTransientType, EscapeType DEF ShowControlsFails, Codes
  <2>3. QED
    BY <1>52, <2>1, <2>2, LedgerKept DEF ShowControlsFails
<1>53. CASE ResumeStep
  <2>1. NextAttempt \in 0..MaxTransientAttempts
    BY BoundAssumption DEF NextAttempt, ControlOK
  <2>2. CarriedOut(acted \/ handoff.acted) \in BOOLEAN
    BY DEF CarriedOut, ControlOK, SessionOK
  <2>3. ControlOK' /\ SessionOK'
    BY <1>53, <2>1, <2>2, BeginAttemptType, HandBackType DEF ResumeStep
  <2>4. GhostsOK' /\ performed_attempts' \in Nat
    BY <1>53 DEF ResumeStep, LedgerOK, GhostsOK, ControlOK
  <2>5. QED
    BY <1>53, <2>3, <2>4, GhostStepType DEF ResumeStep
<1>54. CASE ResumeUncertain
  BY <1>54, ListedType, HandBackType
  DEF ResumeUncertain
<1>55. CASE ResumeEdges
  <2>1. waiting' = [dialogs |-> waiting.dialogs, loads |-> 0, polls |-> 0]
    BY <1>55, CountersType DEF ResumeEdges
  <2>2. QED
    BY <1>55, <2>1, CountersType, WaitingType, HandBackType, LedgerKept DEF ResumeEdges, Calls
<1>56. CASE ResumeEdgeRecovery
  BY <1>56, EscapeType, HandBackType, LedgerKept
  DEF ResumeEdgeRecovery, Attended, Codes
<1>57. CASE RestartFlow
  <2>1. ControlOK' /\ SessionOK'
    BY <1>57, GotoType, HandBackType DEF RestartFlow, Calls
  <2>2. FlowOK'
    BY <1>57 DEF RestartFlow, ClearFlow, NothingCollected, Absent, FlowOK
  <2>3. GhostsOK'
    BY <1>57 DEF RestartFlow, NothingDispatched, LedgerOK, GhostsOK
  <2>4. GivenOK' /\ restarts' \in Nat /\ performed_attempts' \in Nat
    BY <1>57 DEF RestartFlow, LedgerOK, GivenOK, given
  <2>5. QED
    BY <2>1, <2>2, <2>3, <2>4 DEF LedgerOK
<1>58. CASE RestartRefused
  <2>1. ControlOK' /\ SessionOK'
    BY <1>58, FailType, HandBackType DEF RestartRefused, Codes
  <2>2. LedgerOK'
    BY <1>58 DEF RestartRefused, LedgerOK, GivenOK, FlowOK, GhostsOK, given, flow, ghosts
  <2>3. QED
    BY <2>1, <2>2
<1>59. CASE StopReplay
  BY <1>59, FailType, HandBackType, LedgerKept
  DEF StopReplay, SessionOK
<1>60. CASE Approve
  <2>1. GhostsOK' /\ performed_attempts' \in Nat
    BY <1>60 DEF Approve, LedgerOK, GhostsOK
  <2>2. QED
    BY <1>60, <2>1, GotoType, HandBackType, GhostStepType DEF Approve, Calls
<1>61. CASE UNCHANGED vars
  BY <1>61, LedgerKept, SessionKept
  DEF vars, ledger, place, ControlOK
<1>62. QED
  BY <1>1, <1>2, <1>3, <1>4, <1>5, <1>6, <1>7, <1>8, <1>9, <1>10, <1>11,
     <1>12, <1>13, <1>14, <1>15, <1>16, <1>17, <1>18, <1>19, <1>20, <1>21,
     <1>22, <1>23, <1>24, <1>25, <1>26, <1>27, <1>28, <1>29, <1>30, <1>31,
     <1>32, <1>33, <1>34, <1>35, <1>36, <1>37, <1>38, <1>39, <1>40, <1>41,
     <1>42, <1>43, <1>44, <1>45, <1>46, <1>47, <1>48, <1>49, <1>50, <1>51,
     <1>52, <1>53, <1>54, <1>55, <1>56, <1>57, <1>58, <1>59, <1>60, <1>61
  DEF Next, Step, Start, Settle, Attempt, CheckEffect, Act, AwaitCheckpoint,
      Read, Route, Person, Over

(* Every run of every validated graph keeps the types of Replay (the       *)
(* fields of ReplayContext, the locals of run_action, the handoff).        *)
THEOREM TypeCorrect == Spec => []TypeOK
<1>1. QED
  BY InitType, TypeStep, PTL DEF Spec

-----------------------------------------------------------------------------
(***************************************************************************)
(* Repetition.  NoBlindRepeat alone is not inductive: that a node about to *)
(* act was not carried out before follows from what every earlier step of  *)
(* its attempts recorded in performed and acted, and, for the nodes the    *)
(* walk reaches later, from the order the acyclic graph gives.             *)
(***************************************************************************)

(* The action of n may have been carried out in this flow.                 *)
Spent(n) == dispatched[n] > 0 \/ n \in handled

Attempting ==
  \/ pc \in {"settle", "attempt", "observe", "verify"}
  \/ pc = "handoff" /\ handoff.site \in {"step", "uncertain"}
Acting ==
  \/ pc \in {"effect", "act"}
  \/ pc = "handoff" /\ handoff.site = "confirm"

NothingSpent   == pc \in {"replay", "run"} => \A n \in Nodes : ~Spent(n)
FreshOnEntry   == pc = "enter" => ~Spent(node)
Accounted      == Attempting /\ Spent(node) => performed \/ acted
Undecided      == pc = "attempt" => ~acted
AskedFirst     == Acting => /\ ~acted
                            /\ performed => MayRepeat(node)
                            /\ Spent(node) => performed
SpentBehind    == \A n \in Nodes : Spent(n) /\ n # node => Rank[n] < Rank[node]

RepeatInv ==
  NothingSpent /\ FreshOnEntry /\ Accounted /\ Undecided /\ AskedFirst /\ SpentBehind

LEMMA InitRepeat == Init => RepeatInv
  BY DEF Init, RepeatInv, NothingSpent, FreshOnEntry, Accounted, Undecided, AskedFirst,
         SpentBehind, Attempting, Acting, Spent, NothingDispatched

LEMMA MovesAhead ==
  ASSUME TypeOK, RepeatInv, NEW m \in Successors(node), EnterNode(m),
         UNCHANGED <<dispatched, handled>>
  PROVE  RepeatInv'
<1>1. node \in Nodes
  BY DEF TypeOK, ControlOK
<1>2. m \in Nodes /\ Rank[node] < Rank[m]
  BY <1>1, GraphAssumption DEF Successors
<1>3. \A n \in Nodes : Rank[n] \in Nat
  BY GraphAssumption
<1>4. \A n \in Nodes : Spent(n) => Rank[n] < Rank[m]
  BY <1>1, <1>2, <1>3 DEF RepeatInv, SpentBehind
<1>5. ~Spent(m)
  BY <1>2, <1>3, <1>4
<1>6. pc' = "enter" /\ node' = m
  BY DEF EnterNode
<1>7. QED
  BY <1>4, <1>5, <1>6 DEF RepeatInv, NothingSpent, FreshOnEntry, Accounted, Undecided,
      AskedFirst, SpentBehind, Attempting, Acting, Spent

LEMMA RepeatStep == TypeOK /\ RepeatInv /\ [Next]_vars => RepeatInv'
<1> SUFFICES ASSUME TypeOK, RepeatInv, [Next]_vars
             PROVE  RepeatInv'
  OBVIOUS
<1>1. CASE StartReplay
  BY <1>1
  DEF StartReplay, Fail, Finish, place, Goto, session, ledger, given, flow,
      ghosts, NothingSpent, FreshOnEntry, Accounted, Undecided, AskedFirst,
      SpentBehind, RepeatInv, Attempting, Acting, Spent
<1>2. CASE RunGraph
  <2>1. EntryNode \in Nodes
    BY GraphAssumption
  <2>2. \A n \in Nodes : ~Spent(n)
    BY <1>2 DEF RunGraph, RepeatInv, NothingSpent
  <2>3. node' = EntryNode /\ pc' = "enter" /\ UNCHANGED <<dispatched, handled>>
    BY <1>2 DEF RunGraph, EnterNode, ledger, ghosts
  <2>4. QED
    BY <2>1, <2>2, <2>3 DEF RepeatInv, NothingSpent, FreshOnEntry, Accounted, Undecided,
        AskedFirst, SpentBehind, Attempting, Acting, Spent
<1>3. CASE EnterAction
  BY <1>3
  DEF EnterAction, BeginAttempt, session, ledger, given, flow, ghosts,
      NothingSpent, FreshOnEntry, Accounted, Undecided, AskedFirst,
      SpentBehind, RepeatInv, Attempting, Acting, Spent
<1>4. CASE EnterDecision
  BY <1>4
  DEF EnterDecision, GoToEdges, session, ledger, given, flow, ghosts,
      NothingSpent, FreshOnEntry, Accounted, Undecided, AskedFirst,
      SpentBehind, RepeatInv, Attempting, Acting, Spent
<1>5. CASE EnterTerminal
  BY <1>5
  DEF EnterTerminal, Goto, place, session, ledger, given, flow, ghosts,
      NothingSpent, FreshOnEntry, Accounted, Undecided, AskedFirst,
      SpentBehind, RepeatInv, Attempting, Acting, Spent
<1>6. CASE SettleLoadFails
  BY <1>6
  DEF SettleLoadFails, RetryTransient, Fail, Finish, place, BeginAttempt,
      CarriedOut, session, ledger, given, flow, ghosts, NothingSpent,
      FreshOnEntry, Accounted, Undecided, AskedFirst, SpentBehind, RepeatInv,
      Attempting, Acting, Spent
<1>7. CASE SettleClear
  BY <1>7
  DEF SettleClear, Goto, place, session, ledger, given, flow, ghosts,
      NothingSpent, FreshOnEntry, Accounted, Undecided, AskedFirst,
      SpentBehind, RepeatInv, Attempting, Acting, Spent
<1>8. CASE SettleRecoversDialog
  BY <1>8
  DEF SettleRecoversDialog, session, ledger, given, flow, ghosts,
      NothingSpent, FreshOnEntry, Accounted, Undecided, AskedFirst,
      SpentBehind, RepeatInv, Attempting, Acting, Spent
<1>9. CASE SettleRecoveryFails
  BY <1>9
  DEF SettleRecoveryFails, Escalate, place, ledger, given, flow, ghosts,
      NothingSpent, FreshOnEntry, Accounted, Undecided, AskedFirst,
      SpentBehind, RepeatInv, Attempting, Acting, Spent
<1>10. CASE SettleUnknownDialog
  BY <1>10
  DEF SettleUnknownDialog, Escalate, place, ledger, given, flow, ghosts,
      NothingSpent, FreshOnEntry, Accounted, Undecided, AskedFirst,
      SpentBehind, RepeatInv, Attempting, Acting, Spent
<1>11. CASE StepAlreadySatisfied
  BY <1>11
  DEF StepAlreadySatisfied, Complete, GoToEdges, session, given, ghosts,
      NothingSpent, FreshOnEntry, Accounted, Undecided, AskedFirst,
      SpentBehind, RepeatInv, Attempting, Acting, Spent
<1>12. CASE ResultUncertain
  BY <1>12
  DEF ResultUncertain, Escalate, place, ledger, given, flow, ghosts,
      NothingSpent, FreshOnEntry, Accounted, Undecided, AskedFirst,
      SpentBehind, RepeatInv, Attempting, Acting, Spent
<1>13. CASE ReachDenied
  BY <1>13
  DEF ReachDenied, Proceeds, Fail, Finish, place, session, ledger, given,
      flow, ghosts, NothingSpent, FreshOnEntry, Accounted, Undecided,
      AskedFirst, SpentBehind, RepeatInv, Attempting, Acting, Spent
<1>14. CASE ResolveTarget
  BY <1>14
  DEF ResolveTarget, Proceeds, Goto, place, session, given, flow,
      NothingSpent, FreshOnEntry, Accounted, Undecided, AskedFirst,
      SpentBehind, RepeatInv, Attempting, Acting, Spent
<1>15. CASE TargetAmbiguous
  BY <1>15
  DEF TargetAmbiguous, Proceeds, ResolvesControl, Clicks, Fail, Finish, place,
      session, ledger, given, flow, ghosts, NothingSpent, FreshOnEntry,
      Accounted, Undecided, AskedFirst, SpentBehind, RepeatInv, Attempting,
      Acting, Spent
<1>16. CASE TargetMissingByOutcome
  BY <1>16
  DEF TargetMissingByOutcome, Proceeds, ResolvesControl, Clicks, Finish,
      place, session, ledger, given, flow, ghosts, NothingSpent, FreshOnEntry,
      Accounted, Undecided, AskedFirst, SpentBehind, RepeatInv, Attempting,
      Acting, Spent
<1>17. CASE TargetMissing
  BY <1>17
  DEF TargetMissing, Proceeds, ResolvesControl, Clicks, OptionalRead,
      ReadNodes, Reads, Escalate, place, ledger, given, flow, ghosts,
      NothingSpent, FreshOnEntry, Accounted, Undecided, AskedFirst,
      SpentBehind, RepeatInv, Attempting, Acting, Spent
<1>18. CASE OptionalControlMissing
  BY <1>18
  DEF OptionalControlMissing, Proceeds, OptionalRead, ReadNodes, Reads,
      Complete, GoToEdges, session, given, ghosts, NothingSpent, FreshOnEntry,
      Accounted, Undecided, AskedFirst, SpentBehind, RepeatInv, Attempting,
      Acting, Spent
<1>19. CASE VerdictDenies
  BY <1>19
  DEF VerdictDenies, Judge, given, flow, Fail, Finish, place, session,
      NothingSpent, FreshOnEntry, Accounted, Undecided, AskedFirst,
      SpentBehind, RepeatInv, Attempting, Acting, Spent
<1>20. ASSUME NEW v \in {"allow", "confirm"}, EffectDenied(v)
      PROVE  RepeatInv'
  BY <1>20
  DEF EffectDenied, Judge, given, flow, Fail, Finish, place, session,
      NothingSpent, FreshOnEntry, Accounted, Undecided, AskedFirst,
      SpentBehind, RepeatInv, Attempting, Acting, Spent
<1>21. ASSUME NEW v \in {"allow", "confirm"}, RequireApproval(v)
      PROVE  RepeatInv'
  BY <1>21
  DEF RequireApproval, Judge, given, flow, Escalate, place, NothingSpent,
      FreshOnEntry, Accounted, Undecided, AskedFirst, SpentBehind, RepeatInv,
      Attempting, Acting, Spent
<1>22. ASSUME NEW v \in {"allow", "confirm"}, EffectAllowed(v)
      PROVE  RepeatInv'
  BY <1>22
  DEF EffectAllowed, Judge, given, flow, Goto, place, session, NothingSpent,
      FreshOnEntry, Accounted, Undecided, AskedFirst, SpentBehind, RepeatInv,
      Attempting, Acting, Spent
<1>23. CASE ActCompletes
  BY <1>23
  DEF ActCompletes, Physical, ReadNodes, Reads, MayHaveHappened, beside,
      session, given, flow, NothingSpent, FreshOnEntry, Accounted, Undecided,
      AskedFirst, SpentBehind, RepeatInv, Attempting, Acting, Spent
<1>24. CASE ActLost
  <2>1. pc = "act" /\ node \in Nodes /\ ~acted /\ UNCHANGED <<node, handled>>
    BY <1>24 DEF ActLost, Physical, beside, TypeOK, ControlOK, RepeatInv, AskedFirst, Acting,
                 RetryTransient, Fail, Finish, place, BeginAttempt
  <2>2. pc' = "done" \/ (pc' = "settle" /\ performed')
    BY <1>24 DEF ActLost, RetryTransient, Fail, Finish, BeginAttempt, CarriedOut
  <2>3. \A n \in Nodes : n # node => dispatched'[n] = dispatched[n]
    BY <1>24 DEF ActLost, MayHaveHappened, TypeOK, LedgerOK, GhostsOK
  <2>4. QED
    BY <2>1, <2>2, <2>3 DEF RepeatInv, NothingSpent, FreshOnEntry, Accounted, Undecided,
        AskedFirst, SpentBehind, Attempting, Acting, Spent
<1>25. CASE ActNotDispatched
  BY <1>25
  DEF ActNotDispatched, Physical, ReadNodes, Reads, NothingHappened,
      RetryTransient, Fail, Finish, place, BeginAttempt, CarriedOut, beside,
      session, given, flow, NothingSpent, FreshOnEntry, Accounted, Undecided,
      AskedFirst, SpentBehind, RepeatInv, Attempting, Acting, Spent
<1>26. CASE ActAmbiguous
  <2>1. pc' = "done" /\ UNCHANGED <<node, handled>>
    BY <1>26 DEF ActAmbiguous, Fail, Finish, place, beside
  <2>2. \A n \in Nodes : n # node => dispatched'[n] = dispatched[n]
    BY <1>26 DEF ActAmbiguous, MayHaveHappened, NothingHappened, TypeOK, LedgerOK, GhostsOK
  <2>3. QED
    BY <2>1, <2>2 DEF RepeatInv, NothingSpent, FreshOnEntry, Accounted, Undecided,
        AskedFirst, SpentBehind, Attempting, Acting, Spent
<1>27. CASE ActStale
  BY <1>27
  DEF ActStale, Physical, ReadNodes, Reads, Clicks, Fail, Finish, place,
      NothingHappened, beside, session, given, flow, NothingSpent,
      FreshOnEntry, Accounted, Undecided, AskedFirst, SpentBehind, RepeatInv,
      Attempting, Acting, Spent
<1>28. CASE ObservedAfterAct
  BY <1>28
  DEF ObservedAfterAct, Complete, GoToEdges, session, given, ghosts,
      NothingSpent, FreshOnEntry, Accounted, Undecided, AskedFirst,
      SpentBehind, RepeatInv, Attempting, Acting, Spent
<1>29. CASE LoadFailsAfterAct
  BY <1>29
  DEF LoadFailsAfterAct, RetryTransient, Fail, Finish, place, BeginAttempt,
      CarriedOut, session, ledger, given, flow, ghosts, NothingSpent,
      FreshOnEntry, Accounted, Undecided, AskedFirst, SpentBehind, RepeatInv,
      Attempting, Acting, Spent
<1>30. CASE CheckpointPassed
  BY <1>30
  DEF CheckpointPassed, Complete, GoToEdges, session, given, ghosts,
      NothingSpent, FreshOnEntry, Accounted, Undecided, AskedFirst,
      SpentBehind, RepeatInv, Attempting, Acting, Spent
<1>31. CASE OutcomeAfterAct
  BY <1>31
  DEF OutcomeAfterAct, Finish, place, session, ledger, given, flow, ghosts,
      NothingSpent, FreshOnEntry, Accounted, Undecided, AskedFirst,
      SpentBehind, RepeatInv, Attempting, Acting, Spent
<1>32. CASE CheckpointTimeout
  BY <1>32
  DEF CheckpointTimeout, Escalate, place, ledger, given, flow, ghosts,
      NothingSpent, FreshOnEntry, Accounted, Undecided, AskedFirst,
      SpentBehind, RepeatInv, Attempting, Acting, Spent
<1>33. CASE PollCheckpoint
  BY <1>33
  DEF PollCheckpoint, session, ledger, given, flow, ghosts, NothingSpent,
      FreshOnEntry, Accounted, Undecided, AskedFirst, SpentBehind, RepeatInv,
      Attempting, Acting, Spent
<1>34. CASE ReadStored
  BY <1>34
  DEF ReadStored, Reading, ReadNodes, Reads, Complete, GoToEdges, outside,
      session, given, ghosts, NothingSpent, FreshOnEntry, Accounted,
      Undecided, AskedFirst, SpentBehind, RepeatInv, Attempting, Acting, Spent
<1>35. CASE ScalarUnmatched
  BY <1>35
  DEF ScalarUnmatched, Reading, ReadNodes, Reads, OptionalRead, Complete,
      GoToEdges, outside, session, given, ghosts, NothingSpent, FreshOnEntry,
      Accounted, Undecided, AskedFirst, SpentBehind, RepeatInv, Attempting,
      Acting, Spent
<1>36. CASE OptionalListAbsent
  BY <1>36
  DEF OptionalListAbsent, Reading, ReadNodes, Reads, OptionalRead, Absent,
      Complete, GoToEdges, outside, session, given, ghosts, NothingSpent,
      FreshOnEntry, Accounted, Undecided, AskedFirst, SpentBehind, RepeatInv,
      Attempting, Acting, Spent
<1>37. CASE ReadRefused
  BY <1>37
  DEF ReadRefused, Reading, ReadNodes, Reads, Fail, Finish, place,
      OptionalRead, session, ledger, given, flow, ghosts, NothingSpent,
      FreshOnEntry, Accounted, Undecided, AskedFirst, SpentBehind, RepeatInv,
      Attempting, Acting, Spent
<1>38. CASE ItemMissing
  BY <1>38
  DEF ItemMissing, Reading, ReadNodes, Reads, OptionalRead, Escalate, place,
      ledger, given, flow, ghosts, NothingSpent, FreshOnEntry, Accounted,
      Undecided, AskedFirst, SpentBehind, RepeatInv, Attempting, Acting, Spent
<1>39. CASE LoadFails
  BY <1>39
  DEF LoadFails, Fail, Finish, place, session, ledger, given, flow, ghosts,
      NothingSpent, FreshOnEntry, Accounted, Undecided, AskedFirst,
      SpentBehind, RepeatInv, Attempting, Acting, Spent
<1>40. ASSUME NEW m \in Nodes, TakeEdge(m)
      PROVE  RepeatInv'
  BY <1>40, MovesAhead DEF TakeEdge, Successors, ledger, ghosts
<1>41. ASSUME NEW m \in Nodes, TakeFallback(m)
      PROVE  RepeatInv'
  BY <1>41, MovesAhead DEF TakeFallback, Successors, ledger, ghosts
<1>42. CASE EdgeRecoversDialog
  BY <1>42
  DEF EdgeRecoversDialog, session, ledger, given, flow, ghosts, NothingSpent,
      FreshOnEntry, Accounted, Undecided, AskedFirst, SpentBehind, RepeatInv,
      Attempting, Acting, Spent
<1>43. CASE EdgeRecoveryFails
  BY <1>43
  DEF EdgeRecoveryFails, Escalate, place, ledger, given, flow, ghosts,
      NothingSpent, FreshOnEntry, Accounted, Undecided, AskedFirst,
      SpentBehind, RepeatInv, Attempting, Acting, Spent
<1>44. CASE EdgeRecoveryRaises
  BY <1>44
  DEF EdgeRecoveryRaises, Escape, place, session, ledger, given, flow, ghosts,
      NothingSpent, FreshOnEntry, Accounted, Undecided, AskedFirst,
      SpentBehind, RepeatInv, Attempting, Acting, Spent
<1>45. CASE NoMatchingEdge
  BY <1>45
  DEF NoMatchingEdge, Escalate, place, ledger, given, flow, ghosts,
      NothingSpent, FreshOnEntry, Accounted, Undecided, AskedFirst,
      SpentBehind, RepeatInv, Attempting, Acting, Spent
<1>46. CASE PollEdges
  BY <1>46
  DEF PollEdges, session, ledger, given, flow, ghosts, NothingSpent,
      FreshOnEntry, Accounted, Undecided, AskedFirst, SpentBehind, RepeatInv,
      Attempting, Acting, Spent
<1>47. CASE SuccessVerified
  BY <1>47
  DEF SuccessVerified, SuccessTerminal, Finish, place, session, ledger, given,
      flow, ghosts, NothingSpent, FreshOnEntry, Accounted, Undecided,
      AskedFirst, SpentBehind, RepeatInv, Attempting, Acting, Spent
<1>48. CASE OutputsIncomplete
  BY <1>48
  DEF OutputsIncomplete, SuccessTerminal, Fail, Finish, place, session,
      ledger, given, flow, ghosts, NothingSpent, FreshOnEntry, Accounted,
      Undecided, AskedFirst, SpentBehind, RepeatInv, Attempting, Acting, Spent
<1>49. CASE SuccessNotMet
  BY <1>49
  DEF SuccessNotMet, SuccessTerminal, Fail, Finish, place, session, ledger,
      given, flow, ghosts, NothingSpent, FreshOnEntry, Accounted, Undecided,
      AskedFirst, SpentBehind, RepeatInv, Attempting, Acting, Spent
<1>50. CASE OtherTerminal
  BY <1>50
  DEF OtherTerminal, Finish, place, session, ledger, given, flow, ghosts,
      NothingSpent, FreshOnEntry, Accounted, Undecided, AskedFirst,
      SpentBehind, RepeatInv, Attempting, Acting, Spent
<1>51. CASE PersonActs
  BY <1>51
  DEF PersonActs, place, ledger, given, flow, ghosts, NothingSpent,
      FreshOnEntry, Accounted, Undecided, AskedFirst, SpentBehind, RepeatInv,
      Attempting, Acting, Spent
<1>52. CASE ShowControlsFails
  BY <1>52
  DEF ShowControlsFails, Stuck, AtStep, RetryTransient, Fail, Finish, place,
      BeginAttempt, CarriedOut, Escape, ledger, given, flow, ghosts,
      NothingSpent, FreshOnEntry, Accounted, Undecided, AskedFirst,
      SpentBehind, RepeatInv, Attempting, Acting, Spent
<1>53. CASE ResumeStep
  BY <1>53
  DEF ResumeStep, Attended, HandBack, BeginAttempt, CarriedOut, given, flow,
      NothingSpent, FreshOnEntry, Accounted, Undecided, AskedFirst,
      SpentBehind, RepeatInv, Attempting, Acting, Spent
<1>54. CASE ResumeUncertain
  BY <1>54
  DEF ResumeUncertain, Attended, HandBack, Complete, GoToEdges, given, ghosts,
      NothingSpent, FreshOnEntry, Accounted, Undecided, AskedFirst,
      SpentBehind, RepeatInv, Attempting, Acting, Spent
<1>55. CASE ResumeEdges
  BY <1>55
  DEF ResumeEdges, Attended, HandBack, ledger, given, flow, ghosts,
      NothingSpent, FreshOnEntry, Accounted, Undecided, AskedFirst,
      SpentBehind, RepeatInv, Attempting, Acting, Spent
<1>56. CASE ResumeEdgeRecovery
  BY <1>56
  DEF ResumeEdgeRecovery, Attended, HandBack, Escape, place, ledger, given,
      flow, ghosts, NothingSpent, FreshOnEntry, Accounted, Undecided,
      AskedFirst, SpentBehind, RepeatInv, Attempting, Acting, Spent
<1>57. CASE RestartFlow
  BY <1>57
  DEF RestartFlow, Attended, Stuck, HandBack, Goto, place, NothingDispatched,
      given, NothingSpent, FreshOnEntry, Accounted, Undecided, AskedFirst,
      SpentBehind, RepeatInv, Attempting, Acting, Spent
<1>58. CASE RestartRefused
  BY <1>58
  DEF RestartRefused, Attended, Stuck, HandBack, Fail, Finish, place, given,
      flow, ghosts, NothingSpent, FreshOnEntry, Accounted, Undecided,
      AskedFirst, SpentBehind, RepeatInv, Attempting, Acting, Spent
<1>59. CASE StopReplay
  BY <1>59
  DEF StopReplay, HandBack, Fail, Finish, place, ledger, given, flow, ghosts,
      NothingSpent, FreshOnEntry, Accounted, Undecided, AskedFirst,
      SpentBehind, RepeatInv, Attempting, Acting, Spent
<1>60. CASE Approve
  BY <1>60
  DEF Approve, Attended, HandBack, Goto, place, given, flow, NothingSpent,
      FreshOnEntry, Accounted, Undecided, AskedFirst, SpentBehind, RepeatInv,
      Attempting, Acting, Spent
<1>61. CASE UNCHANGED vars
  BY <1>61
  DEF vars, place, session, ghosts, RepeatInv, NothingSpent, FreshOnEntry, Accounted, Undecided,
      AskedFirst, SpentBehind, Attempting, Acting, Spent
<1>62. QED
  BY <1>1, <1>2, <1>3, <1>4, <1>5, <1>6, <1>7, <1>8, <1>9, <1>10, <1>11,
     <1>12, <1>13, <1>14, <1>15, <1>16, <1>17, <1>18, <1>19, <1>20, <1>21,
     <1>22, <1>23, <1>24, <1>25, <1>26, <1>27, <1>28, <1>29, <1>30, <1>31,
     <1>32, <1>33, <1>34, <1>35, <1>36, <1>37, <1>38, <1>39, <1>40, <1>41,
     <1>42, <1>43, <1>44, <1>45, <1>46, <1>47, <1>48, <1>49, <1>50, <1>51,
     <1>52, <1>53, <1>54, <1>55, <1>56, <1>57, <1>58, <1>59, <1>60, <1>61
  DEF Next, Step, Start, Settle, Attempt, CheckEffect, Act, AwaitCheckpoint,
      Read, Route, Person, Over

(* Only the surface call of act dispatches, and only for the node it is on. *)
LEMMA DispatchStep ==
  ASSUME TypeOK, [Next]_vars, NEW n \in Nodes, dispatched'[n] > dispatched[n]
  PROVE  pc = "act" /\ n = node
<1>1. dispatched[n] \in Nat /\ dispatched \in [Nodes -> Nat] /\ node \in Nodes
  BY DEF TypeOK, LedgerOK, GhostsOK, ControlOK
<1>2. CASE Start
  <2>1. UNCHANGED ledger
    BY <1>2 DEF Start, StartReplay, RunGraph, EnterAction, EnterDecision, EnterTerminal
  <2>2. QED
    BY <1>1, <2>1 DEF ledger, ghosts
<1>3. CASE Settle
  BY <1>1, <1>3
  DEF Settle, SettleLoadFails, ledger, ghosts, SettleClear,
      SettleRecoversDialog, SettleRecoveryFails, SettleUnknownDialog
<1>4. CASE Attempt
  BY <1>1, <1>4
  DEF Attempt, StepAlreadySatisfied, ghosts, ResultUncertain, ledger,
      ReachDenied, ResolveTarget, TargetAmbiguous, TargetMissingByOutcome,
      TargetMissing, OptionalControlMissing
<1>5. CASE CheckEffect
  BY <1>1, <1>5
  DEF CheckEffect, VerdictDenies, Judge, EffectDenied, RequireApproval,
      EffectAllowed
<1>6. CASE Act
  <2>1. MayHaveHappened \/ NothingHappened
    BY <1>6 DEF Act, ActCompletes, ActLost, ActNotDispatched, ActAmbiguous, ActStale
  <2>2. pc = "act"
    BY <1>6 DEF Act, ActCompletes, ActLost, ActNotDispatched, ActAmbiguous, ActStale, Physical
  <2>3. n = node
    BY <1>1, <2>1 DEF MayHaveHappened, NothingHappened
  <2>4. QED
    BY <2>2, <2>3
<1>7. CASE AwaitCheckpoint
  BY <1>1, <1>7
  DEF AwaitCheckpoint, ObservedAfterAct, ghosts, LoadFailsAfterAct, ledger,
      CheckpointPassed, OutcomeAfterAct, CheckpointTimeout, PollCheckpoint
<1>8. CASE Read
  BY <1>1, <1>8
  DEF Read, ReadStored, Reading, outside, ghosts, ScalarUnmatched,
      OptionalListAbsent, ReadRefused, ledger, ItemMissing
<1>9. CASE Route
  BY <1>1, <1>9
  DEF Route, LoadFails, ledger, ghosts, TakeEdge, TakeFallback,
      EdgeRecoversDialog, EdgeRecoveryFails, EdgeRecoveryRaises,
      NoMatchingEdge, PollEdges, SuccessVerified, OutputsIncomplete,
      SuccessNotMet, OtherTerminal
<1>10. CASE Person
  BY <1>1, <1>10
  DEF Person, PersonActs, ledger, ghosts, ShowControlsFails, ResumeStep,
      ResumeUncertain, ResumeEdges, ResumeEdgeRecovery, RestartFlow,
      NothingDispatched, RestartRefused, StopReplay, Approve
<1>11. CASE UNCHANGED vars
  BY <1>1, <1>11 DEF vars, ghosts
<1>12. QED
  BY <1>2, <1>3, <1>4, <1>5, <1>6, <1>7, <1>8, <1>9, <1>10, <1>11
  DEF Next, Step, Over

(* The never_retry promise of replay.py:31, for every graph: an action     *)
(* that may have been carried out in this flow, by the engine or by a      *)
(* person who acted and resumed, is not dispatched again.                  *)
THEOREM NeverRepeatedBlindly == Spec => NoBlindRepeat
<1>1. TypeOK /\ RepeatInv /\ [Next]_vars => [NotRepeatedBlindly]_vars
  <2> SUFFICES ASSUME TypeOK, RepeatInv, [Next]_vars, NEW n \in Nodes,
                      RetrySafety[n] = "never_retry", Spent(n),
                      ~(dispatched'[n] <= dispatched[n])
               PROVE  FALSE
    BY DEF NotRepeatedBlindly, Spent
  <2>1. dispatched[n] \in Nat /\ dispatched'[n] \in Nat
    <3>1. TypeOK'
      BY TypeStep
    <3>2. QED
      BY <3>1 DEF TypeOK, LedgerOK, GhostsOK
  <2>2. pc = "act" /\ n = node
    BY <2>1, DispatchStep
  <2>3. MayRepeat(n)
    BY <2>2 DEF RepeatInv, AskedFirst, Acting
  <2>4. QED
    BY <2>3 DEF MayRepeat
<1>2. QED
  BY <1>1, InitType, TypeStep, InitRepeat, RepeatStep, PTL DEF Spec, NoBlindRepeat

-----------------------------------------------------------------------------
(* Consent *)

(* What an approval, or the lack of a need for one, established by the time *)
(* the engine acts; a confirmation is only ever asked under confirm/allow. *)
ConsentInv ==
  /\ pc = "act" /\ Risky(node) /\ ~Exempt(node) => consent /\ irreversible_policy # "deny"
  /\ pc = "handoff" /\ handoff.site = "confirm" => irreversible_policy # "deny"

LEMMA ConsentStep == TypeOK /\ ConsentInv /\ [Next]_vars => ConsentInv'
<1> SUFFICES ASSUME TypeOK, ConsentInv, [Next]_vars
             PROVE  ConsentInv'
  OBVIOUS
<1>1. CASE Start
  BY <1>1
  DEF Start, StartReplay, Fail, Finish, place, Goto, session, ledger, given,
      flow, ghosts, RunGraph, EnterNode, EnterAction, BeginAttempt,
      EnterDecision, GoToEdges, EnterTerminal, ConsentInv, Risky, Exempt
<1>2. CASE Settle
  BY <1>2
  DEF Settle, SettleLoadFails, RetryTransient, Fail, Finish, place,
      BeginAttempt, session, ledger, given, flow, ghosts, SettleClear, Goto,
      SettleRecoversDialog, SettleRecoveryFails, Escalate,
      SettleUnknownDialog, ConsentInv, Risky, Exempt
<1>3. CASE Attempt
  BY <1>3
  DEF Attempt, StepAlreadySatisfied, Complete, GoToEdges, session, given,
      ghosts, ResultUncertain, Escalate, place, ledger, flow, ReachDenied,
      Proceeds, Fail, Finish, ResolveTarget, Goto, TargetAmbiguous,
      TargetMissingByOutcome, TargetMissing, OptionalControlMissing,
      ConsentInv, Risky, Exempt
<1>4. CASE CheckEffect
  <2>1. Effect[node] \in {"none", "reversible"} \cup Unsafe
    BY GraphAssumption DEF TypeOK, ControlOK, Unsafe
  <2>2. CASE VerdictDenies
    BY <2>2 DEF VerdictDenies, Fail, Finish, ConsentInv
  <2>3. ASSUME NEW v \in {"allow", "confirm"}, EffectDenied(v)
        PROVE  ConsentInv'
    BY <2>3 DEF EffectDenied, Fail, Finish, ConsentInv
  <2>4. ASSUME NEW v \in {"allow", "confirm"}, RequireApproval(v)
        PROVE  ConsentInv'
    BY <2>4 DEF RequireApproval, Escalate, Judge, given, ConsentInv
  <2>5. ASSUME NEW v \in {"allow", "confirm"}, EffectAllowed(v)
        PROVE  ConsentInv'
    <3>1. pc' = "act" /\ verdict' = v /\ UNCHANGED <<node, irreversible_policy>>
      BY <2>5 DEF EffectAllowed, Judge, Goto, place, given
    <3>2. ~(Risky(node)' /\ ~Exempt(node)')
      BY <2>1, <2>5, <3>1 DEF EffectAllowed, NeedsHuman, Contested, Risky, Exempt, Unsafe
    <3>3. QED
      BY <3>1, <3>2 DEF ConsentInv, Risky, Exempt
  <2>6. QED
    BY <1>4, <2>2, <2>3, <2>4, <2>5 DEF CheckEffect
<1>5. CASE Act
  BY <1>5
  DEF Act, ActCompletes, Physical, beside, session, given, flow, ActLost,
      RetryTransient, Fail, Finish, place, BeginAttempt, ActNotDispatched,
      ActAmbiguous, ActStale, ConsentInv, Risky, Exempt
<1>6. CASE AwaitCheckpoint
  BY <1>6
  DEF AwaitCheckpoint, ObservedAfterAct, Complete, GoToEdges, session, given,
      ghosts, LoadFailsAfterAct, RetryTransient, Fail, Finish, place,
      BeginAttempt, ledger, flow, CheckpointPassed, OutcomeAfterAct,
      CheckpointTimeout, Escalate, PollCheckpoint, ConsentInv, Risky, Exempt
<1>7. CASE Read
  BY <1>7
  DEF Read, ReadStored, Reading, Complete, GoToEdges, outside, session, given,
      ghosts, ScalarUnmatched, OptionalListAbsent, ReadRefused, Fail, Finish,
      place, ledger, flow, ItemMissing, Escalate, ConsentInv, Risky, Exempt
<1>8. CASE Route
  BY <1>8
  DEF Route, LoadFails, Fail, Finish, place, session, ledger, given, flow,
      ghosts, TakeEdge, EnterNode, TakeFallback, EdgeRecoversDialog,
      EdgeRecoveryFails, Escalate, EdgeRecoveryRaises, Escape, NoMatchingEdge,
      PollEdges, SuccessVerified, OutputsIncomplete, SuccessNotMet,
      OtherTerminal, ConsentInv, Risky, Exempt
<1>9. CASE Person
  <2>1. CASE Approve
    BY <2>1 DEF Approve, HandBack, Goto, given, ConsentInv
  <2>2. CASE PersonActs
    BY <2>2 DEF PersonActs, ledger, given, ConsentInv, TypeOK, SessionOK
  <2>3. CASE ShowControlsFails
    BY <2>3 DEF ShowControlsFails, RetryTransient, Fail, Finish, Escape, BeginAttempt,
                ConsentInv
  <2>4. CASE RestartFlow \/ RestartRefused \/ StopReplay
    BY <2>4 DEF RestartFlow, RestartRefused, StopReplay, Goto, Fail, Finish, ConsentInv
  <2>5. CASE ResumeStep \/ ResumeUncertain \/ ResumeEdges \/ ResumeEdgeRecovery
    BY <2>5 DEF ResumeStep, ResumeUncertain, ResumeEdges, ResumeEdgeRecovery, BeginAttempt,
                Complete, GoToEdges, Escape, ConsentInv
  <2>6. QED
    BY <1>9, <2>1, <2>2, <2>3, <2>4, <2>5 DEF Person
<1>10. CASE UNCHANGED vars
  BY <1>10 DEF vars, given, place, session, ghosts, ConsentInv, Risky, Exempt
<1>11. QED
  BY <1>1, <1>2, <1>3, <1>4, <1>5, <1>6, <1>7, <1>8, <1>9, <1>10
  DEF Next, Step, Over

LEMMA InitConsent == Init => ConsentInv
  BY DEF Init, ConsentInv

(* check_effect_policy, for every graph and policy: nothing irreversible,  *)
(* unknown or flagged on the live page happens without an approval of this *)
(* very attempt, and under "deny" nothing of the kind happens at all.      *)
THEOREM RiskNeedsConsent == Spec => ConsentBeforeRisk
<1>1. TypeOK /\ ConsentInv /\ [Next]_vars => [DispatchedWithConsent]_vars
  BY DispatchStep DEF DispatchedWithConsent, ConsentInv
<1>2. QED
  BY <1>1, InitType, TypeStep, InitConsent, ConsentStep, PTL DEF Spec, ConsentBeforeRisk

-----------------------------------------------------------------------------
(* Ownership *)

LEMMA OwnershipStep == OwnershipReturned /\ [Next]_vars => OwnershipReturned'
<1> SUFFICES ASSUME OwnershipReturned, [Next]_vars
             PROVE  OwnershipReturned'
  OBVIOUS
<1>1. CASE Start
  BY <1>1
  DEF Start, StartReplay, Fail, Finish, place, Goto, session, ledger, given,
      flow, ghosts, RunGraph, EnterNode, EnterAction, BeginAttempt,
      EnterDecision, GoToEdges, EnterTerminal, OwnershipReturned
<1>2. CASE Settle
  BY <1>2
  DEF Settle, SettleLoadFails, RetryTransient, Fail, Finish, place,
      BeginAttempt, session, ledger, given, flow, ghosts, SettleClear, Goto,
      SettleRecoversDialog, SettleRecoveryFails, Escalate,
      SettleUnknownDialog, OwnershipReturned
<1>3. CASE Attempt
  BY <1>3
  DEF Attempt, StepAlreadySatisfied, Complete, GoToEdges, session, given,
      ghosts, ResultUncertain, Escalate, place, ledger, flow, ReachDenied,
      Proceeds, Fail, Finish, ResolveTarget, Goto, TargetAmbiguous,
      TargetMissingByOutcome, TargetMissing, OptionalControlMissing,
      OwnershipReturned
<1>4. CASE CheckEffect
  BY <1>4
  DEF CheckEffect, VerdictDenies, Judge, given, flow, Fail, Finish, place,
      session, EffectDenied, RequireApproval, Escalate, EffectAllowed, Goto,
      OwnershipReturned
<1>5. CASE Act
  BY <1>5
  DEF Act, ActCompletes, Physical, beside, session, given, flow, ActLost,
      RetryTransient, Fail, Finish, place, BeginAttempt, ActNotDispatched,
      ActAmbiguous, ActStale, OwnershipReturned
<1>6. CASE AwaitCheckpoint
  BY <1>6
  DEF AwaitCheckpoint, ObservedAfterAct, Complete, GoToEdges, session, given,
      ghosts, LoadFailsAfterAct, RetryTransient, Fail, Finish, place,
      BeginAttempt, ledger, flow, CheckpointPassed, OutcomeAfterAct,
      CheckpointTimeout, Escalate, PollCheckpoint, OwnershipReturned
<1>7. CASE Read
  BY <1>7
  DEF Read, ReadStored, Reading, Complete, GoToEdges, outside, session, given,
      ghosts, ScalarUnmatched, OptionalListAbsent, ReadRefused, Fail, Finish,
      place, ledger, flow, ItemMissing, Escalate, OwnershipReturned
<1>8. CASE Route
  <2>1. CASE LoadFails \/ EdgeRecoversDialog \/ PollEdges
    BY <2>1 DEF LoadFails, EdgeRecoversDialog, PollEdges, Fail, Finish, session,
                OwnershipReturned
  <2>2. ASSUME NEW m \in Nodes, TakeEdge(m) \/ TakeFallback(m)
        PROVE  OwnershipReturned'
    BY <2>2 DEF TakeEdge, TakeFallback, EnterNode, session, OwnershipReturned
  <2>3. CASE EdgeRecoveryFails \/ NoMatchingEdge
    BY <2>3 DEF EdgeRecoveryFails, NoMatchingEdge, Escalate, OwnershipReturned
  <2>4. CASE EdgeRecoveryRaises \/ SuccessVerified \/ OutputsIncomplete \/ SuccessNotMet
             \/ OtherTerminal
    BY <2>4 DEF EdgeRecoveryRaises, SuccessVerified, OutputsIncomplete, SuccessNotMet,
                SuccessTerminal, OtherTerminal, Escape, Fail, Finish, session,
                OwnershipReturned
  <2>5. QED
    BY <1>8, <2>1, <2>2, <2>3, <2>4 DEF Route
<1>9. CASE Person
  <2>1. CASE PersonActs
    BY <2>1 DEF PersonActs, OwnershipReturned
  <2>2. CASE ShowControlsFails
    BY <2>2 DEF ShowControlsFails, RetryTransient, Fail, Finish, Escape, BeginAttempt,
                OwnershipReturned
  <2>3. CASE ResumeStep \/ ResumeUncertain \/ ResumeEdges \/ ResumeEdgeRecovery
    BY <2>3 DEF ResumeStep, ResumeUncertain, ResumeEdges, ResumeEdgeRecovery, HandBack,
                BeginAttempt, Complete, GoToEdges, Escape, OwnershipReturned
  <2>4. CASE RestartFlow \/ RestartRefused \/ StopReplay \/ Approve
    BY <2>4 DEF RestartFlow, RestartRefused, StopReplay, Approve, HandBack, Goto, Fail,
                Finish, OwnershipReturned
  <2>5. QED
    BY <1>9, <2>1, <2>2, <2>3, <2>4 DEF Person
<1>10. CASE UNCHANGED vars
  BY <1>10 DEF vars, given, place, session, ghosts, OwnershipReturned
<1>11. QED
  BY <1>1, <1>2, <1>3, <1>4, <1>5, <1>6, <1>7, <1>8, <1>9, <1>10
  DEF Next, Step, Over

(* SessionControl, for every run: the session is a person's during a       *)
(* handoff and at no other time, however the handoff ends.                 *)
THEOREM SessionReturned == Spec => []OwnershipReturned
<1>1. Init => OwnershipReturned
  BY DEF Init, OwnershipReturned
<1>2. QED
  BY <1>1, OwnershipStep, PTL DEF Spec

-----------------------------------------------------------------------------
(***************************************************************************)
(* The executed path.  A node is listed on the word of performed or acted, *)
(* so both must be backed by a dispatch, or by a person, in this flow.     *)
(***************************************************************************)

PathBacked == \A n \in Nodes \ ReadNodes : OnPath(n) => Spent(n)
StepBacked ==
  pc # "run" /\ node \notin ReadNodes /\ (performed \/ acted) => Spent(node)
CompletionBacked ==
  /\ pc \in {"observe", "verify"} => acted
  /\ pc = "handoff" /\ handoff.site = "uncertain" => performed
BackedInv == PathBacked /\ StepBacked /\ CompletionBacked

LEMMA PathGrows ==
  ASSUME TypeOK, Complete, NEW n \in Nodes, OnPath(n)'
  PROVE  OnPath(n) \/ n = node
  BY DEF TypeOK, LedgerOK, FlowOK, ControlOK, Complete, OnPath

LEMMA SpentGrows ==
  ASSUME TypeOK, MayHaveHappened \/ NothingHappened, UNCHANGED handled
  PROVE  /\ \A n \in Nodes : Spent(n) => Spent(n)'
         /\ MayHaveHappened /\ UNCHANGED node => Spent(node)'
<1>1. /\ dispatched \in [Nodes -> Nat]
      /\ node \in Nodes
  BY DEF TypeOK, LedgerOK, GhostsOK, ControlOK
<1>2. QED
  BY <1>1 DEF MayHaveHappened, NothingHappened, Spent

LEMMA RetryBacked ==
  ASSUME TypeOK, BackedInv, pc # "run", NEW actedNow \in BOOLEAN, RetryTransient(actedNow),
         \A n \in Nodes : Spent(n) => Spent(n)', actedNow /\ node \notin ReadNodes => Spent(node)',
         UNCHANGED executed_path
  PROVE  BackedInv'
<1>1. PathBacked'
  BY DEF BackedInv, PathBacked, OnPath
<1>2. UNCHANGED node /\ node \in Nodes
  BY DEF RetryTransient, Fail, Finish, BeginAttempt, place, TypeOK, ControlOK
<1>3. (performed \/ acted)' => performed \/ acted \/ actedNow
  BY DEF RetryTransient, Fail, Finish, BeginAttempt, CarriedOut, place
<1>4. StepBacked'
  BY <1>2, <1>3 DEF BackedInv, StepBacked
<1>5. CompletionBacked'
  BY DEF RetryTransient, Fail, Finish, BeginAttempt, CompletionBacked
<1>6. QED
  BY <1>1, <1>4, <1>5 DEF BackedInv

(* A retry of an attempt that performed nothing new.                       *)
LEMMA RetryUnspent ==
  ASSUME TypeOK, BackedInv, pc # "run", acted \in BOOLEAN, RetryTransient(acted),
         UNCHANGED <<executed_path, dispatched, handled>>
  PROVE  BackedInv'
<1>1. UNCHANGED node
  BY DEF RetryTransient, Fail, Finish, BeginAttempt, place
<1>2. \A n \in Nodes : Spent(n) => Spent(n)'
  BY DEF Spent
<1>3. acted /\ node \notin ReadNodes => Spent(node)'
  BY <1>1 DEF BackedInv, StepBacked, Spent
<1>4. QED
  BY <1>2, <1>3, RetryBacked

LEMMA BackedStep == TypeOK /\ BackedInv /\ [Next]_vars => BackedInv'
<1> SUFFICES ASSUME TypeOK, BackedInv, [Next]_vars
             PROVE  BackedInv'
  OBVIOUS
<1>1. CASE Start
  BY <1>1
  DEF Start, StartReplay, Fail, Finish, place, Goto, session, ledger, given,
      flow, ghosts, RunGraph, EnterNode, EnterAction, BeginAttempt,
      EnterDecision, GoToEdges, EnterTerminal, BackedInv, PathBacked,
      StepBacked, CompletionBacked, Spent, OnPath
<1>2. CASE Settle
  <2>1. CASE SettleLoadFails
    <3>1. UNCHANGED <<executed_path, dispatched, handled>> /\ pc = "settle"
      BY <2>1 DEF SettleLoadFails, ledger, flow, ghosts
    <3>2. RetryTransient(acted) /\ acted \in BOOLEAN
      BY <2>1 DEF SettleLoadFails, TypeOK, ControlOK
    <3>3. QED
      BY <3>1, <3>2, RetryUnspent
  <2>2. CASE SettleClear
    BY <2>2
    DEF SettleClear, Goto, place, session, ledger, given, flow, ghosts,
        BackedInv, PathBacked, StepBacked, CompletionBacked, Spent, OnPath
  <2>3. CASE SettleRecoversDialog
    BY <2>3
    DEF SettleRecoversDialog, session, ledger, given, flow, ghosts, BackedInv,
        PathBacked, StepBacked, CompletionBacked, Spent, OnPath
  <2>4. CASE SettleRecoveryFails
    BY <2>4
    DEF SettleRecoveryFails, Escalate, place, ledger, given, flow, ghosts,
        BackedInv, PathBacked, StepBacked, CompletionBacked, Spent, OnPath
  <2>5. CASE SettleUnknownDialog
    BY <2>5
    DEF SettleUnknownDialog, Escalate, place, ledger, given, flow, ghosts,
        BackedInv, PathBacked, StepBacked, CompletionBacked, Spent, OnPath
  <2>6. QED
    BY <1>2, <2>1, <2>2, <2>3, <2>4, <2>5 DEF Settle
<1>3. CASE Attempt
  <2>1. CASE StepAlreadySatisfied
    BY <2>1
    DEF StepAlreadySatisfied, Complete, GoToEdges, session, given, ghosts,
        BackedInv, PathBacked, StepBacked, CompletionBacked, Spent, OnPath
  <2>2. CASE ResultUncertain
    BY <2>2
    DEF ResultUncertain, Escalate, place, ledger, given, flow, ghosts,
        BackedInv, PathBacked, StepBacked, CompletionBacked, Spent, OnPath
  <2>3. CASE ReachDenied
    BY <2>3
    DEF ReachDenied, Proceeds, Fail, Finish, place, session, ledger, given,
        flow, ghosts, BackedInv, PathBacked, StepBacked, CompletionBacked,
        Spent, OnPath
  <2>4. CASE ResolveTarget
    BY <2>4
    DEF ResolveTarget, Proceeds, Goto, place, session, given, flow, BackedInv,
        PathBacked, StepBacked, CompletionBacked, Spent, OnPath
  <2>5. CASE TargetAmbiguous
    BY <2>5
    DEF TargetAmbiguous, Proceeds, Fail, Finish, place, session, ledger,
        given, flow, ghosts, BackedInv, PathBacked, StepBacked,
        CompletionBacked, Spent, OnPath
  <2>6. CASE TargetMissingByOutcome
    BY <2>6
    DEF TargetMissingByOutcome, Proceeds, Finish, place, session, ledger,
        given, flow, ghosts, BackedInv, PathBacked, StepBacked,
        CompletionBacked, Spent, OnPath
  <2>7. CASE TargetMissing
    BY <2>7
    DEF TargetMissing, Proceeds, Escalate, place, ledger, given, flow, ghosts,
        BackedInv, PathBacked, StepBacked, CompletionBacked, Spent, OnPath
  <2>8. CASE OptionalControlMissing
    BY <2>8, PathGrows
    DEF OptionalControlMissing, OptionalRead, Proceeds, Complete, GoToEdges, ghosts,
        BackedInv, PathBacked, StepBacked, CompletionBacked, Spent
  <2>9. QED
    BY <1>3, <2>1, <2>2, <2>3, <2>4, <2>5, <2>6, <2>7, <2>8 DEF Attempt
<1>4. CASE CheckEffect
  BY <1>4
  DEF CheckEffect, VerdictDenies, Judge, given, flow, Fail, Finish, place,
      session, EffectDenied, RequireApproval, Escalate, EffectAllowed, Goto,
      BackedInv, PathBacked, StepBacked, CompletionBacked, Spent, OnPath
<1>5. CASE Act
  <2>1. CASE ActCompletes
    <3>1. MayHaveHappened /\ UNCHANGED <<node, handled, executed_path>>
      BY <2>1 DEF ActCompletes, beside, flow
    <3>2. pc' \in {"settle", "observe"} /\ acted'
      BY <2>1 DEF ActCompletes
    <3>3. QED
      BY <3>1, <3>2, SpentGrows
      DEF BackedInv, PathBacked, StepBacked, CompletionBacked, OnPath
  <2>2. CASE ActLost
    <3>1. MayHaveHappened /\ RetryTransient(TRUE) /\ UNCHANGED <<handled, executed_path>>
      BY <2>2 DEF ActLost, beside, flow
    <3>2. UNCHANGED node
      BY <3>1 DEF RetryTransient, Fail, Finish, place, BeginAttempt
    <3>3. QED
      BY <2>2, <3>1, <3>2, SpentGrows, RetryBacked DEF ActLost, Physical
  <2>3. CASE ActNotDispatched
    <3>1. /\ NothingHappened /\ RetryTransient(FALSE)
          /\ UNCHANGED <<handled, executed_path>>
      BY <2>3 DEF ActNotDispatched, beside, flow
    <3>2. QED
      BY <2>3, <3>1, SpentGrows, RetryBacked DEF ActNotDispatched, Physical
  <2>4. CASE ActAmbiguous
    <3>1. /\ MayHaveHappened \/ NothingHappened
          /\ UNCHANGED <<node, performed, acted, handled, executed_path>>
          /\ pc = "act" /\ pc' = "done"
      BY <2>4 DEF ActAmbiguous, Physical, Fail, Finish, place, beside, flow
    <3>2. QED
      BY <3>1, SpentGrows DEF BackedInv, PathBacked, StepBacked, CompletionBacked, OnPath,
                              TypeOK, ControlOK
  <2>5. CASE ActStale
    BY <2>5
    DEF ActStale, Physical, Fail, Finish, place, NothingHappened, beside,
        session, given, flow, BackedInv, PathBacked, StepBacked,
        CompletionBacked, Spent, OnPath
  <2>6. QED
    BY <1>5, <2>1, <2>2, <2>3, <2>4, <2>5 DEF Act
<1>6. CASE AwaitCheckpoint
  <2>1. CASE ObservedAfterAct
    BY <2>1
    DEF ObservedAfterAct, Complete, GoToEdges, session, given, ghosts,
        BackedInv, PathBacked, StepBacked, CompletionBacked, Spent, OnPath
  <2>2. CASE LoadFailsAfterAct
    BY <2>2
    DEF LoadFailsAfterAct, RetryTransient, Fail, Finish, place, BeginAttempt,
        CarriedOut, session, ledger, given, flow, ghosts, BackedInv,
        PathBacked, StepBacked, CompletionBacked, Spent, OnPath
  <2>3. CASE CheckpointPassed
    BY <2>3
    DEF CheckpointPassed, Complete, GoToEdges, session, given, ghosts,
        BackedInv, PathBacked, StepBacked, CompletionBacked, Spent, OnPath
  <2>4. CASE OutcomeAfterAct
    BY <2>4
    DEF OutcomeAfterAct, Finish, place, session, ledger, given, flow, ghosts,
        BackedInv, PathBacked, StepBacked, CompletionBacked, Spent, OnPath
  <2>5. CASE CheckpointTimeout
    BY <2>5
    DEF CheckpointTimeout, Escalate, place, ledger, given, flow, ghosts,
        BackedInv, PathBacked, StepBacked, CompletionBacked, Spent, OnPath
  <2>6. CASE PollCheckpoint
    BY <2>6
    DEF PollCheckpoint, session, ledger, given, flow, ghosts, BackedInv,
        PathBacked, StepBacked, CompletionBacked, Spent, OnPath
  <2>7. QED
    BY <1>6, <2>1, <2>2, <2>3, <2>4, <2>5, <2>6 DEF AwaitCheckpoint
<1>7. CASE Read
  <2>1. CASE ReadStored
    BY <2>1
    DEF ReadStored, Reading, Complete, GoToEdges, outside, session, given,
        ghosts, BackedInv, PathBacked, StepBacked, CompletionBacked, Spent,
        OnPath
  <2>2. CASE ScalarUnmatched
    BY <2>2
    DEF ScalarUnmatched, Reading, Complete, GoToEdges, outside, session,
        given, ghosts, BackedInv, PathBacked, StepBacked, CompletionBacked,
        Spent, OnPath
  <2>3. CASE OptionalListAbsent
    BY <2>3
    DEF OptionalListAbsent, Reading, Complete, GoToEdges, outside, session,
        given, ghosts, BackedInv, PathBacked, StepBacked, CompletionBacked,
        Spent, OnPath
  <2>4. CASE ReadRefused
    BY <2>4
    DEF ReadRefused, Reading, Fail, Finish, place, session, ledger, given,
        flow, ghosts, BackedInv, PathBacked, StepBacked, CompletionBacked,
        Spent, OnPath
  <2>5. CASE ItemMissing
    BY <2>5
    DEF ItemMissing, Reading, Escalate, place, ledger, given, flow, ghosts,
        BackedInv, PathBacked, StepBacked, CompletionBacked, Spent, OnPath
  <2>6. QED
    BY <1>7, <2>1, <2>2, <2>3, <2>4, <2>5 DEF Read
<1>8. CASE Route
  <2>1. CASE LoadFails
    BY <2>1
    DEF LoadFails, Fail, Finish, place, session, ledger, given, flow, ghosts,
        BackedInv, PathBacked, StepBacked, CompletionBacked, Spent, OnPath
  <2>2. ASSUME NEW m \in Nodes, TakeEdge(m)
        PROVE  BackedInv'
    BY <2>2
    DEF TakeEdge, EnterNode, session, ledger, given, flow, ghosts, BackedInv,
        PathBacked, StepBacked, CompletionBacked, Spent, OnPath
  <2>3. ASSUME NEW m \in Nodes, TakeFallback(m)
        PROVE  BackedInv'
    BY <2>3
    DEF TakeFallback, EnterNode, session, ledger, given, flow, ghosts,
        BackedInv, PathBacked, StepBacked, CompletionBacked, Spent, OnPath
  <2>4. CASE EdgeRecoversDialog
    BY <2>4
    DEF EdgeRecoversDialog, session, ledger, given, flow, ghosts, BackedInv,
        PathBacked, StepBacked, CompletionBacked, Spent, OnPath
  <2>5. CASE EdgeRecoveryFails
    BY <2>5
    DEF EdgeRecoveryFails, Escalate, place, ledger, given, flow, ghosts,
        BackedInv, PathBacked, StepBacked, CompletionBacked, Spent, OnPath
  <2>6. CASE EdgeRecoveryRaises
    BY <2>6
    DEF EdgeRecoveryRaises, Escape, place, session, ledger, given, flow,
        ghosts, BackedInv, PathBacked, StepBacked, CompletionBacked, Spent,
        OnPath
  <2>7. CASE NoMatchingEdge
    BY <2>7
    DEF NoMatchingEdge, Escalate, place, ledger, given, flow, ghosts,
        BackedInv, PathBacked, StepBacked, CompletionBacked, Spent, OnPath
  <2>8. CASE PollEdges
    BY <2>8
    DEF PollEdges, session, ledger, given, flow, ghosts, BackedInv,
        PathBacked, StepBacked, CompletionBacked, Spent, OnPath
  <2>9. CASE SuccessVerified
    BY <2>9
    DEF SuccessTerminal, SuccessVerified, Finish, place, session, ledger, given, flow, ghosts,
        BackedInv, PathBacked, StepBacked, CompletionBacked, Spent, OnPath
  <2>10. CASE OutputsIncomplete
    BY <2>10
    DEF SuccessTerminal, OutputsIncomplete, Fail, Finish, place, session, ledger, given, flow,
        ghosts, BackedInv, PathBacked, StepBacked, CompletionBacked, Spent,
        OnPath
  <2>11. CASE SuccessNotMet
    BY <2>11
    DEF SuccessTerminal, SuccessNotMet, Fail, Finish, place, session, ledger, given, flow,
        ghosts, BackedInv, PathBacked, StepBacked, CompletionBacked, Spent,
        OnPath
  <2>12. CASE OtherTerminal
    BY <2>12
    DEF OtherTerminal, Finish, place, session, ledger, given, flow, ghosts,
        BackedInv, PathBacked, StepBacked, CompletionBacked, Spent, OnPath
  <2>13. QED
    BY <1>8, <2>1, <2>2, <2>3, <2>4, <2>5, <2>6, <2>7, <2>8, <2>9, <2>10,
       <2>11, <2>12 DEF Route
<1>9. CASE Person
  <2>1. CASE PersonActs
    BY <2>1
    DEF PersonActs, place, ledger, given, flow, ghosts, BackedInv, PathBacked,
        StepBacked, CompletionBacked, Spent, OnPath
  <2>2. CASE ShowControlsFails
    <3>1. UNCHANGED <<executed_path, dispatched, handled>> /\ pc = "handoff"
      BY <2>2 DEF ShowControlsFails, ledger, flow, ghosts
    <3>2. acted \in BOOLEAN
      BY DEF TypeOK, ControlOK
    <3>3. CASE RetryTransient(acted)
      BY <3>1, <3>2, <3>3, RetryUnspent
    <3>4. CASE Escape("TransientError")
      BY <3>1, <3>4 DEF Escape, place, BackedInv, PathBacked, StepBacked, CompletionBacked,
                        Spent, OnPath
    <3>5. QED
      BY <2>2, <3>3, <3>4 DEF ShowControlsFails
  <2>3. CASE ResumeStep
    BY <2>3
    DEF ResumeStep, HandBack, NoHandoff, BeginAttempt, CarriedOut, given,
        flow, BackedInv, PathBacked, StepBacked, CompletionBacked, Spent,
        OnPath
  <2>4. CASE ResumeUncertain
    BY <2>4
    DEF ResumeUncertain, HandBack, NoHandoff, Complete, GoToEdges, given,
        ghosts, BackedInv, PathBacked, StepBacked, CompletionBacked, Spent,
        OnPath
  <2>5. CASE ResumeEdges
    BY <2>5
    DEF ResumeEdges, HandBack, NoHandoff, ledger, given, flow, ghosts,
        BackedInv, PathBacked, StepBacked, CompletionBacked, Spent, OnPath
  <2>6. CASE ResumeEdgeRecovery
    BY <2>6
    DEF ResumeEdgeRecovery, HandBack, NoHandoff, Escape, place, ledger, given,
        flow, ghosts, BackedInv, PathBacked, StepBacked, CompletionBacked,
        Spent, OnPath
  <2>7. CASE RestartFlow
    BY <2>7 DEF RestartFlow, Goto, ClearFlow, BackedInv, PathBacked, StepBacked,
               CompletionBacked, OnPath
  <2>8. CASE RestartRefused
    BY <2>8
    DEF RestartRefused, Stuck, HandBack, NoHandoff, Fail, Finish, place,
        given, flow, ghosts, BackedInv, PathBacked, StepBacked,
        CompletionBacked, Spent, OnPath
  <2>9. CASE StopReplay
    BY <2>9
    DEF StopReplay, HandBack, NoHandoff, Fail, Finish, place, ledger, given,
        flow, ghosts, BackedInv, PathBacked, StepBacked, CompletionBacked,
        Spent, OnPath
  <2>10. CASE Approve
    BY <2>10
    DEF Approve, HandBack, NoHandoff, Goto, place, given, flow, BackedInv,
        PathBacked, StepBacked, CompletionBacked, Spent, OnPath
  <2>11. QED
    BY <1>9, <2>1, <2>2, <2>3, <2>4, <2>5, <2>6, <2>7, <2>8, <2>9, <2>10 DEF Person
<1>10. CASE UNCHANGED vars
  BY <1>10 DEF vars, given, place, session, flow, ghosts, BackedInv, PathBacked, StepBacked,
      CompletionBacked, Spent, OnPath
<1>11. QED
  BY <1>1, <1>2, <1>3, <1>4, <1>5, <1>6, <1>7, <1>8, <1>9, <1>10
  DEF Next, Step, Over

LEMMA InitBacked == Init => BackedInv
  BY DEF Init, BackedInv, PathBacked, StepBacked, CompletionBacked, OnPath

(* executed_path claims no action that neither the engine dispatched nor a *)
(* person may have performed in this flow, for every graph and every run.  *)
THEOREM PathIsBacked == Spec => []ExecutedIsBacked
<1>1. BackedInv => ExecutedIsBacked
  BY DEF BackedInv, PathBacked, ExecutedIsBacked, Spent
<1>2. QED
  BY <1>1, InitType, TypeStep, InitBacked, BackedStep, PTL DEF Spec

-----------------------------------------------------------------------------
(***************************************************************************)
(* The contract.  Every step of the engine has one of a few shapes, by     *)
(* what it does to the walk and to the memory of what was carried out; the *)
(* refinement and the invariants of the walk follow from the shapes.       *)
(***************************************************************************)

(* The part of the walk the engine is in.                                  *)
Phase ==
  IF pc \in {"replay", "run"} THEN "start"
  ELSE IF pc \in {"done", "escaped"} THEN "over"
  ELSE IF pc \in {"enter", "terminal"} THEN pc
  ELSE IF Attempting \/ Acting THEN "step"
  ELSE "edges"

kept == <<node, dispatched, handled, executed_path>>

-----------------------------------------------------------------------------
(* The shapes of a step.                                                   *)

Waits == Phase' = Phase /\ UNCHANGED <<kept, result>> /\ pc' # "replay"

Begins ==
  /\ pc \in {"replay", "run"}
  /\ UNCHANGED <<dispatched, handled, executed_path, result>>
  /\ \/ pc' = "run" /\ UNCHANGED node
     \/ pc' = "enter" /\ node' = EntryNode

Sorts ==
  /\ pc = "enter" /\ UNCHANGED <<kept, result>>
  /\ \/ Kind[node] = "action" /\ Phase' = "step"
     \/ Kind[node] = "decision" /\ Phase' = "edges"
     \/ Kind[node] = "terminal" /\ Phase' = "terminal"

Lists ==
  /\ Phase = "step" /\ Phase' = "edges"
  /\ node \in ReadNodes \/ Spent(node)
  /\ executed_path' = Append(executed_path, node)
  /\ UNCHANGED <<node, dispatched, handled, result>>

Carries ==
  /\ Physical
  /\ dispatched' = [dispatched EXCEPT ![node] = @ + 1]
  /\ UNCHANGED <<node, handled, executed_path>>
  /\ \/ Phase' = "step" /\ UNCHANGED result
     \/ Phase' = "over" /\ result'.status = "failure"

Hands ==
  /\ Phase = "step" /\ Phase' = "step"
  /\ handled' = handled \cup {node}
  /\ UNCHANGED <<node, dispatched, executed_path, result>>

Moves ==
  /\ pc = "edge" /\ pc' = "enter"
  /\ node' \in Successors(node)
  /\ UNCHANGED <<dispatched, handled, executed_path, result>>

Restarts ==
  /\ pc = "handoff" /\ pc' = "run"
  /\ dispatched' = NothingDispatched /\ handled' = {} /\ executed_path' = <<>>
  /\ UNCHANGED <<node, result>>

Ends ==
  /\ Phase \notin {"over"} /\ pc # "run" /\ Phase' = "over"
  /\ result'.status \in {"success", "business_outcome", "failure", "raised"}
  /\ result'.status = "success" => pc = "terminal" /\ TerminalStatus[node] = "success"
  /\ UNCHANGED kept

Shaped ==
  Waits \/ Begins \/ Sorts \/ Lists \/ Carries \/ Hands \/ Moves \/ Restarts \/ Ends \/ UNCHANGED vars

(* run_action's handler of a transient error.                              *)
LEMMA RetryShape ==
  ASSUME NEW actedNow, RetryTransient(actedNow)
  PROVE  /\ UNCHANGED node
         /\ \/ pc' = "settle" /\ UNCHANGED result
            \/ pc' = "done" /\ result'.status = "failure"
  BY DEF RetryTransient, Fail, Finish, BeginAttempt, place

(* A retry that performs nothing, from wherever in the step it is.         *)
LEMMA RetryQuiet ==
  ASSUME NEW actedNow, RetryTransient(actedNow), Phase = "step",
         UNCHANGED <<dispatched, handled, executed_path>>
  PROVE  Shaped
<1>1. CASE pc' = "settle" /\ UNCHANGED result
  BY <1>1, RetryShape DEF Shaped, Waits, Phase, Attempting, Acting, kept
<1>2. CASE pc' = "done" /\ result'.status = "failure"
  <2>1. pc # "run"
    BY DEF Phase
  <2>2. Ends
    BY <1>2, <2>1, RetryShape DEF Ends, Phase, kept
  <2> QED
    BY <2>2 DEF Shaped
<1> QED
  BY <1>1, <1>2, RetryShape

LEMMA Shapes == TypeOK /\ BackedInv /\ [Next]_vars => Shaped
<1> SUFFICES ASSUME TypeOK, BackedInv, [Next]_vars
             PROVE  Shaped
  OBVIOUS
<1>1. CASE Start
  <2>1. CASE StartReplay
    BY <2>1
    DEF StartReplay, Fail, Finish, Goto, place, Shaped, Begins, Ends, kept, Phase,
        Attempting, Acting, session, ledger, given, flow, ghosts
  <2>2. CASE RunGraph
    <3>1. Begins
      BY <2>2
      DEF RunGraph, EnterNode, Begins, kept, Phase, Attempting, Acting, session, ledger,
          given, flow, ghosts
    <3> QED
      BY <3>1 DEF Shaped
  <2>3. CASE EnterAction
    <3>1. Sorts
      BY <2>3
      DEF EnterAction, BeginAttempt, Sorts, kept, Phase, Attempting, Acting, session,
          ledger, given, flow, ghosts
    <3> QED
      BY <3>1 DEF Shaped
  <2>4. CASE EnterDecision
    <3>1. Sorts
      BY <2>4
      DEF EnterDecision, GoToEdges, Sorts, kept, Phase, Attempting, Acting, session,
          ledger, given, flow, ghosts
    <3> QED
      BY <3>1 DEF Shaped
  <2>5. CASE EnterTerminal
    <3>1. Sorts
      BY <2>5
      DEF EnterTerminal, Goto, place, Sorts, kept, Phase, Attempting, Acting, session,
          ledger, given, flow, ghosts
    <3> QED
      BY <3>1 DEF Shaped
  <2> QED
    BY <1>1, <2>1, <2>2, <2>3, <2>4, <2>5 DEF Start
<1>2. CASE Settle
  <2>1. CASE SettleLoadFails
    <3>1. Phase = "step" /\ UNCHANGED <<dispatched, handled, executed_path>> /\ RetryTransient(acted)
      BY <2>1
      DEF SettleLoadFails, Phase, Attempting, Acting, session, ledger, given, flow, ghosts
    <3> QED
      BY <3>1, RetryQuiet
  <2>2. CASE SettleClear
    <3>1. Waits
      BY <2>2
      DEF SettleClear, Goto, place, Waits, kept, Phase, Attempting, Acting, session,
          ledger, given, flow, ghosts
    <3> QED
      BY <3>1 DEF Shaped
  <2>3. CASE SettleRecoversDialog
    <3>1. Waits
      BY <2>3
      DEF SettleRecoversDialog, Waits, kept, Phase, Attempting, Acting, session, ledger,
          given, flow, ghosts
    <3> QED
      BY <3>1 DEF Shaped
  <2>4. CASE SettleRecoveryFails
    <3>1. Waits
      BY <2>4
      DEF SettleRecoveryFails, Escalate, place, Waits, kept, Phase, Attempting, Acting,
          session, ledger, given, flow, ghosts
    <3> QED
      BY <3>1 DEF Shaped
  <2>5. CASE SettleUnknownDialog
    <3>1. Waits
      BY <2>5
      DEF SettleUnknownDialog, Escalate, place, Waits, kept, Phase, Attempting, Acting,
          session, ledger, given, flow, ghosts
    <3> QED
      BY <3>1 DEF Shaped
  <2> QED
    BY <1>2, <2>1, <2>2, <2>3, <2>4, <2>5 DEF Settle
<1>3. CASE Attempt
  <2>1. CASE StepAlreadySatisfied
    <3>1. Complete /\ UNCHANGED <<dispatched, handled>> /\ Phase = "step" /\ (node \in ReadNodes \/ Spent(node))
      BY <2>1
      DEF StepAlreadySatisfied, Phase, Attempting, Acting, session, ledger, given, flow,
          ghosts, outside, BackedInv, StepBacked, CompletionBacked, TypeOK, ControlOK
    <3>2. Lists
      BY <3>1 DEF Complete, GoToEdges, Lists, Phase, Attempting, Acting
    <3> QED
      BY <3>2 DEF Shaped
  <2>2. CASE ResultUncertain
    <3>1. Waits
      BY <2>2
      DEF ResultUncertain, Escalate, place, Waits, kept, Phase, Attempting, Acting,
          session, ledger, given, flow, ghosts
    <3> QED
      BY <3>1 DEF Shaped
  <2>3. CASE ReachDenied
    <3>1. Ends
      BY <2>3
      DEF ReachDenied, Proceeds, Fail, Finish, place, Ends, kept, Phase, Attempting,
          Acting, session, ledger, given, flow, ghosts
    <3> QED
      BY <3>1 DEF Shaped
  <2>4. CASE ResolveTarget
    <3>1. Waits
      BY <2>4
      DEF ResolveTarget, Proceeds, Goto, place, Waits, kept, Phase, Attempting, Acting,
          session, ledger, given, flow, ghosts
    <3> QED
      BY <3>1 DEF Shaped
  <2>5. CASE TargetAmbiguous
    <3>1. Ends
      BY <2>5
      DEF TargetAmbiguous, Proceeds, Fail, Finish, place, Ends, kept, Phase, Attempting,
          Acting, session, ledger, given, flow, ghosts
    <3> QED
      BY <3>1 DEF Shaped
  <2>6. CASE TargetMissingByOutcome
    <3>1. Ends
      BY <2>6
      DEF TargetMissingByOutcome, Proceeds, Finish, place, Ends, kept, Phase, Attempting,
          Acting, session, ledger, given, flow, ghosts
    <3> QED
      BY <3>1 DEF Shaped
  <2>7. CASE TargetMissing
    <3>1. Waits
      BY <2>7
      DEF TargetMissing, Proceeds, Escalate, place, Waits, kept, Phase, Attempting, Acting,
          session, ledger, given, flow, ghosts
    <3> QED
      BY <3>1 DEF Shaped
  <2>8. CASE OptionalControlMissing
    <3>1. Complete /\ UNCHANGED <<dispatched, handled>> /\ Phase = "step" /\ (node \in ReadNodes \/ Spent(node))
      BY <2>8
      DEF OptionalControlMissing, Proceeds, OptionalRead, Phase, Attempting, Acting,
          session, ledger, given, flow, ghosts, outside, BackedInv, StepBacked,
          CompletionBacked, TypeOK, ControlOK
    <3>2. Lists
      BY <3>1 DEF Complete, GoToEdges, Lists, Phase, Attempting, Acting
    <3> QED
      BY <3>2 DEF Shaped
  <2> QED
    BY <1>3, <2>1, <2>2, <2>3, <2>4, <2>5, <2>6, <2>7, <2>8 DEF Attempt
<1>4. CASE CheckEffect
  <2>1. CASE VerdictDenies
    <3>1. Ends
      BY <2>1
      DEF VerdictDenies, Judge, Fail, Finish, place, Ends, kept, Phase, Attempting, Acting,
          session, ledger, given, flow, ghosts
    <3> QED
      BY <3>1 DEF Shaped
  <2>2. CASE \E v \in {"allow", "confirm"} : EffectDenied(v)
    <3>1. Ends
      BY <2>2
      DEF EffectDenied, Judge, Fail, Finish, place, Ends, kept, Phase, Attempting, Acting,
          session, ledger, given, flow, ghosts
    <3> QED
      BY <3>1 DEF Shaped
  <2>3. CASE \E v \in {"allow", "confirm"} : RequireApproval(v)
    <3>1. Waits
      BY <2>3
      DEF RequireApproval, Judge, Escalate, place, Waits, kept, Phase, Attempting, Acting,
          session, ledger, given, flow, ghosts
    <3> QED
      BY <3>1 DEF Shaped
  <2>4. CASE \E v \in {"allow", "confirm"} : EffectAllowed(v)
    <3>1. Waits
      BY <2>4
      DEF EffectAllowed, Judge, Goto, place, Waits, kept, Phase, Attempting, Acting,
          session, ledger, given, flow, ghosts
    <3> QED
      BY <3>1 DEF Shaped
  <2> QED
    BY <1>4, <2>1, <2>2, <2>3, <2>4 DEF CheckEffect
<1>5. CASE Act
  <2>1. CASE ActCompletes
    <3>1. Carries
      BY <2>1
      DEF ActCompletes, Physical, MayHaveHappened, beside, Carries, kept, Phase,
          Attempting, Acting, session, ledger, given, flow, ghosts
    <3> QED
      BY <3>1 DEF Shaped
  <2>2. CASE ActLost
    <3>1. /\ Physical /\ UNCHANGED <<node, handled, executed_path>>
          /\ dispatched' = [dispatched EXCEPT ![node] = @ + 1]
          /\ (pc' = "settle" /\ UNCHANGED result) \/ (pc' = "done" /\ result'.status = "failure")
      <4>1. RetryTransient(TRUE)
        BY <2>2 DEF ActLost
      <4> QED
        BY <2>2, <4>1, RetryShape DEF ActLost, MayHaveHappened, beside, flow
    <3>2. Carries
      BY <3>1 DEF Carries, Phase, Attempting, Acting
    <3> QED
      BY <3>2 DEF Shaped
  <2>3. CASE ActNotDispatched
    <3>1. Phase = "step" /\ UNCHANGED <<dispatched, handled, executed_path>> /\ RetryTransient(FALSE)
      BY <2>3 DEF ActNotDispatched, Physical, NothingHappened, beside, flow, Phase, Attempting, Acting
    <3> QED
      BY <3>1, RetryQuiet
  <2>4. CASE ActAmbiguous
    <3>1. /\ Physical /\ UNCHANGED <<node, handled, executed_path>>
          /\ pc' = "done" /\ result'.status = "failure"
      BY <2>4 DEF ActAmbiguous, Fail, Finish, place, beside, flow
    <3>2. CASE MayHaveHappened
      <4>1. Carries
        BY <3>1, <3>2 DEF Carries, MayHaveHappened, Phase
      <4> QED
        BY <4>1 DEF Shaped
    <3>3. CASE NothingHappened
      <4>1. Ends
        BY <3>1, <3>3 DEF Ends, NothingHappened, Physical, Phase, Attempting, Acting, kept
      <4> QED
        BY <4>1 DEF Shaped
    <3> QED
      BY <2>4, <3>2, <3>3 DEF ActAmbiguous
  <2>5. CASE ActStale
    <3>1. Ends
      BY <2>5
      DEF ActStale, Physical, NothingHappened, beside, Fail, Finish, place, Ends, kept,
          Phase, Attempting, Acting, session, ledger, given, flow, ghosts
    <3> QED
      BY <3>1 DEF Shaped
  <2> QED
    BY <1>5, <2>1, <2>2, <2>3, <2>4, <2>5 DEF Act
<1>6. CASE AwaitCheckpoint
  <2>1. CASE ObservedAfterAct
    <3>1. Complete /\ UNCHANGED <<dispatched, handled>> /\ Phase = "step" /\ (node \in ReadNodes \/ Spent(node))
      BY <2>1
      DEF ObservedAfterAct, Phase, Attempting, Acting, session, ledger, given, flow,
          ghosts, outside, BackedInv, StepBacked, CompletionBacked, TypeOK, ControlOK
    <3>2. Lists
      BY <3>1 DEF Complete, GoToEdges, Lists, Phase, Attempting, Acting
    <3> QED
      BY <3>2 DEF Shaped
  <2>2. CASE LoadFailsAfterAct
    <3>1. Phase = "step" /\ UNCHANGED <<dispatched, handled, executed_path>> /\ RetryTransient(acted)
      BY <2>2
      DEF LoadFailsAfterAct, Phase, Attempting, Acting, session, ledger, given, flow, ghosts
    <3> QED
      BY <3>1, RetryQuiet
  <2>3. CASE CheckpointPassed
    <3>1. Complete /\ UNCHANGED <<dispatched, handled>> /\ Phase = "step" /\ (node \in ReadNodes \/ Spent(node))
      BY <2>3
      DEF CheckpointPassed, Phase, Attempting, Acting, session, ledger, given, flow,
          ghosts, outside, BackedInv, StepBacked, CompletionBacked, TypeOK, ControlOK
    <3>2. Lists
      BY <3>1 DEF Complete, GoToEdges, Lists, Phase, Attempting, Acting
    <3> QED
      BY <3>2 DEF Shaped
  <2>4. CASE OutcomeAfterAct
    <3>1. Ends
      BY <2>4
      DEF OutcomeAfterAct, Finish, place, Ends, kept, Phase, Attempting, Acting, session,
          ledger, given, flow, ghosts
    <3> QED
      BY <3>1 DEF Shaped
  <2>5. CASE CheckpointTimeout
    <3>1. Waits
      BY <2>5
      DEF CheckpointTimeout, Escalate, place, Waits, kept, Phase, Attempting, Acting,
          session, ledger, given, flow, ghosts
    <3> QED
      BY <3>1 DEF Shaped
  <2>6. CASE PollCheckpoint
    <3>1. Waits
      BY <2>6
      DEF PollCheckpoint, Waits, kept, Phase, Attempting, Acting, session, ledger, given,
          flow, ghosts
    <3> QED
      BY <3>1 DEF Shaped
  <2> QED
    BY <1>6, <2>1, <2>2, <2>3, <2>4, <2>5, <2>6 DEF AwaitCheckpoint
<1>7. CASE Read
  <2>1. CASE ReadStored
    <3>1. Complete /\ UNCHANGED <<dispatched, handled>> /\ Phase = "step" /\ (node \in ReadNodes \/ Spent(node))
      BY <2>1
      DEF ReadStored, Reading, Phase, Attempting, Acting, session, ledger, given, flow,
          ghosts, outside, BackedInv, StepBacked, CompletionBacked, TypeOK, ControlOK
    <3>2. Lists
      BY <3>1 DEF Complete, GoToEdges, Lists, Phase, Attempting, Acting
    <3> QED
      BY <3>2 DEF Shaped
  <2>2. CASE ScalarUnmatched
    <3>1. Complete /\ UNCHANGED <<dispatched, handled>> /\ Phase = "step" /\ (node \in ReadNodes \/ Spent(node))
      BY <2>2
      DEF ScalarUnmatched, Reading, Phase, Attempting, Acting, session, ledger, given,
          flow, ghosts, outside, BackedInv, StepBacked, CompletionBacked, TypeOK, ControlOK
    <3>2. Lists
      BY <3>1 DEF Complete, GoToEdges, Lists, Phase, Attempting, Acting
    <3> QED
      BY <3>2 DEF Shaped
  <2>3. CASE OptionalListAbsent
    <3>1. Complete /\ UNCHANGED <<dispatched, handled>> /\ Phase = "step" /\ (node \in ReadNodes \/ Spent(node))
      BY <2>3
      DEF OptionalListAbsent, Reading, Phase, Attempting, Acting, session, ledger, given,
          flow, ghosts, outside, BackedInv, StepBacked, CompletionBacked, TypeOK, ControlOK
    <3>2. Lists
      BY <3>1 DEF Complete, GoToEdges, Lists, Phase, Attempting, Acting
    <3> QED
      BY <3>2 DEF Shaped
  <2>4. CASE ReadRefused
    <3>1. Ends
      BY <2>4
      DEF ReadRefused, Reading, Fail, Finish, place, Ends, kept, Phase, Attempting, Acting,
          session, ledger, given, flow, ghosts
    <3> QED
      BY <3>1 DEF Shaped
  <2>5. CASE ItemMissing
    <3>1. Waits
      BY <2>5
      DEF ItemMissing, Reading, Escalate, place, Waits, kept, Phase, Attempting, Acting,
          session, ledger, given, flow, ghosts
    <3> QED
      BY <3>1 DEF Shaped
  <2> QED
    BY <1>7, <2>1, <2>2, <2>3, <2>4, <2>5 DEF Read
<1>8. CASE Route
  <2>1. CASE LoadFails
    <3>1. CASE Fail("transient_retries_exhausted")
      <4>1. Ends
        BY <2>1, <3>1 DEF LoadFails, Fail, Finish, place, Ends, kept, Phase, Attempting, Acting, ledger, flow, ghosts
      <4> QED
        BY <4>1 DEF Shaped
    <3>2. CASE UNCHANGED <<pc, node, result>>
      <4>1. Waits
        BY <2>1, <3>2 DEF LoadFails, Waits, kept, Phase, Attempting, Acting, session, ledger, flow, ghosts
      <4> QED
        BY <4>1 DEF Shaped
    <3> QED
      BY <2>1, <3>1, <3>2 DEF LoadFails
  <2>2. CASE \E m \in Nodes : TakeEdge(m) \/ TakeFallback(m)
    <3>1. Moves
      BY <2>2
      DEF TakeEdge, TakeFallback, EnterNode, Successors, Moves, kept, Phase, Attempting,
          Acting, session, ledger, given, flow, ghosts
    <3> QED
      BY <3>1 DEF Shaped
  <2>3. CASE EdgeRecoversDialog
    <3>1. Waits
      BY <2>3
      DEF EdgeRecoversDialog, Waits, kept, Phase, Attempting, Acting, session, ledger,
          given, flow, ghosts
    <3> QED
      BY <3>1 DEF Shaped
  <2>4. CASE EdgeRecoveryFails
    <3>1. Waits
      BY <2>4
      DEF EdgeRecoveryFails, Escalate, place, Waits, kept, Phase, Attempting, Acting,
          session, ledger, given, flow, ghosts
    <3> QED
      BY <3>1 DEF Shaped
  <2>5. CASE EdgeRecoveryRaises
    <3>1. Ends
      BY <2>5
      DEF EdgeRecoveryRaises, Escape, place, Ends, kept, Phase, Attempting, Acting,
          session, ledger, given, flow, ghosts
    <3> QED
      BY <3>1 DEF Shaped
  <2>6. CASE NoMatchingEdge
    <3>1. Waits
      BY <2>6
      DEF NoMatchingEdge, Escalate, place, Waits, kept, Phase, Attempting, Acting, session,
          ledger, given, flow, ghosts
    <3> QED
      BY <3>1 DEF Shaped
  <2>7. CASE PollEdges
    <3>1. Waits
      BY <2>7
      DEF PollEdges, Waits, kept, Phase, Attempting, Acting, session, ledger, given, flow,
          ghosts
    <3> QED
      BY <3>1 DEF Shaped
  <2>8. CASE SuccessVerified
    <3>1. Ends
      BY <2>8
      DEF SuccessVerified, SuccessTerminal, Finish, place, Ends, kept, Phase, Attempting,
          Acting, session, ledger, given, flow, ghosts
    <3> QED
      BY <3>1 DEF Shaped
  <2>9. CASE OutputsIncomplete
    <3>1. Ends
      BY <2>9
      DEF OutputsIncomplete, SuccessTerminal, Fail, Finish, place, Ends, kept, Phase,
          Attempting, Acting, session, ledger, given, flow, ghosts
    <3> QED
      BY <3>1 DEF Shaped
  <2>10. CASE SuccessNotMet
    <3>1. Ends
      BY <2>10
      DEF SuccessNotMet, SuccessTerminal, Fail, Finish, place, Ends, kept, Phase,
          Attempting, Acting, session, ledger, given, flow, ghosts
    <3> QED
      BY <3>1 DEF Shaped
  <2>11. CASE OtherTerminal
    <3>1. Ends
      BY <2>11, GraphAssumption
      DEF TypeOK, ControlOK, OtherTerminal, Finish, place, Ends, kept, Phase, Attempting, Acting, session,
          ledger, given, flow, ghosts
    <3> QED
      BY <3>1 DEF Shaped
  <2> QED
    BY <1>8, <2>1, <2>2, <2>3, <2>4, <2>5, <2>6, <2>7, <2>8, <2>9, <2>10, <2>11 DEF Route
<1>9. CASE Person
  <2>1. CASE PersonActs
    <3>1. pc = "handoff" /\ UNCHANGED <<pc, kept, result>>
      BY <2>1 DEF PersonActs, place, ledger, flow, ghosts, kept
    <3>2. handoff'.site = handoff.site
      BY <2>1 DEF PersonActs, TypeOK, SessionOK
    <3>3. Waits
      BY <3>1, <3>2 DEF Waits, Phase, Attempting, Acting
    <3> QED
      BY <3>3 DEF Shaped
  <2>2. CASE ShowControlsFails
    <3>1. UNCHANGED <<dispatched, handled, executed_path>> /\ pc = "handoff"
      BY <2>2 DEF ShowControlsFails, ledger, flow, ghosts
    <3>2. CASE AtStep /\ RetryTransient(acted)
      <4>1. Phase = "step"
        BY <3>1, <3>2 DEF AtStep, Phase, Attempting, Acting
      <4> QED
        BY <3>1, <3>2, <4>1, RetryQuiet
    <3>3. CASE Escape("TransientError")
      <4>1. Ends
        BY <3>1, <3>3 DEF Escape, place, Ends, kept, Phase, Attempting, Acting
      <4> QED
        BY <4>1 DEF Shaped
    <3> QED
      BY <2>2, <3>2, <3>3 DEF ShowControlsFails
  <2>3. CASE ResumeStep
    <3>1. /\ Phase = "step" /\ pc' = "settle" /\ UNCHANGED <<node, dispatched, executed_path, result>>
          /\ handled' = IF handoff.acted THEN handled \cup {node} ELSE handled
      BY <2>3 DEF ResumeStep, HandBack, BeginAttempt, flow, Phase, Attempting, Acting
    <3>2. Hands \/ Waits
      BY <3>1 DEF Hands, Waits, kept, Phase, Attempting, Acting
    <3> QED
      BY <3>2 DEF Shaped
  <2>4. CASE ResumeUncertain
    <3>1. Complete /\ UNCHANGED <<dispatched, handled>> /\ Phase = "step" /\ (node \in ReadNodes \/ Spent(node))
      BY <2>4
      DEF ResumeUncertain, HandBack, Phase, Attempting, Acting, session, ledger, given,
          flow, ghosts, outside, BackedInv, StepBacked, CompletionBacked, TypeOK, ControlOK
    <3>2. Lists
      BY <3>1 DEF Complete, GoToEdges, Lists, Phase, Attempting, Acting
    <3> QED
      BY <3>2 DEF Shaped
  <2>5. CASE ResumeEdges
    <3>1. Waits
      BY <2>5
      DEF ResumeEdges, HandBack, Waits, kept, Phase, Attempting, Acting, session, ledger,
          given, flow, ghosts
    <3> QED
      BY <3>1 DEF Shaped
  <2>6. CASE ResumeEdgeRecovery
    <3>1. Ends
      BY <2>6
      DEF ResumeEdgeRecovery, HandBack, Escape, place, Ends, kept, Phase, Attempting,
          Acting, session, ledger, given, flow, ghosts
    <3> QED
      BY <3>1 DEF Shaped
  <2>7. CASE RestartFlow
    <3>1. Restarts
      BY <2>7
      DEF RestartFlow, HandBack, Goto, ClearFlow, place, Restarts, kept, Phase, Attempting,
          Acting, session, ledger, given, flow, ghosts
    <3> QED
      BY <3>1 DEF Shaped
  <2>8. CASE RestartRefused
    <3>1. Ends
      BY <2>8
      DEF RestartRefused, HandBack, Fail, Finish, place, Ends, kept, Phase, Attempting,
          Acting, session, ledger, given, flow, ghosts
    <3> QED
      BY <3>1 DEF Shaped
  <2>9. CASE StopReplay
    <3>1. Ends
      BY <2>9
      DEF StopReplay, HandBack, Fail, Finish, place, Ends, kept, Phase, Attempting, Acting,
          session, ledger, given, flow, ghosts
    <3> QED
      BY <3>1 DEF Shaped
  <2>10. CASE Approve
    <3>1. Waits
      BY <2>10
      DEF Approve, HandBack, Goto, place, Waits, kept, Phase, Attempting, Acting, session,
          ledger, given, flow, ghosts
    <3> QED
      BY <3>1 DEF Shaped
  <2> QED
    BY <1>9, <2>1, <2>2, <2>3, <2>4, <2>5, <2>6, <2>7, <2>8, <2>9, <2>10 DEF Person
<1>10. CASE UNCHANGED vars
  BY <1>10 DEF Shaped
<1> QED
  BY <1>1, <1>2, <1>3, <1>4, <1>5, <1>6, <1>7, <1>8, <1>9, <1>10
  DEF Next, Step, Over

-----------------------------------------------------------------------------
(* The walk.                                                               *)

Answered == result.status = "none" \/ Phase = "over"
Standing ==
  /\ pc = "replay" => node = EntryNode
  /\ Phase = "step" => node \in ActionNodes
  /\ pc = "terminal" => node \notin ActionNodes
NothingListed == Phase = "start" => executed_path = <<>>
(* What is listed lies behind the node, or is the node about to be left.   *)
ListedBehind ==
  \A n \in Nodes :
    OnPath(n) => Rank[n] < Rank[node] \/ (n = node /\ Phase \in {"edges", "over"})
ListedLast ==
  Phase = "edges" /\ node \in ActionNodes =>
    executed_path # <<>> /\ executed_path[Len(executed_path)] = node
WayInv == Answered /\ Standing /\ NothingListed /\ ListedBehind /\ ListedLast

LEMMA InitWay == Init => WayInv
  BY DEF Init, NoResult, WayInv, Answered, Standing, NothingListed, ListedBehind, ListedLast,
         Phase, OnPath

LEMMA WayKept ==
  ASSUME WayInv, UNCHANGED <<node, executed_path>>,
         Phase' = Phase \/ Phase' = "over",
         UNCHANGED result \/ Phase' = "over",
         pc' = "replay" => pc = "replay"
  PROVE  WayInv'
<1>1. Answered' /\ Standing' /\ NothingListed'
  BY DEF WayInv, Answered, Standing, NothingListed, Phase
<1>2. ListedBehind'
  BY DEF WayInv, ListedBehind, OnPath
<1>3. ListedLast'
  BY DEF WayInv, ListedLast
<1> QED
  BY <1>1, <1>2, <1>3 DEF WayInv

LEMMA Appended ==
  ASSUME TypeOK, executed_path' = Append(executed_path, node)
  PROVE  /\ \A n : OnPath(n)' => OnPath(n) \/ n = node
         /\ executed_path' # <<>> /\ executed_path'[Len(executed_path')] = node
<1>1. executed_path \in Seq(Nodes) /\ node \in Nodes /\ Len(executed_path) \in Nat
  BY DEF TypeOK, LedgerOK, FlowOK, ControlOK
<1>2. /\ Append(executed_path, node) \in Seq(Nodes)
      /\ Len(Append(executed_path, node)) = Len(executed_path) + 1
      /\ \A i \in 1..Len(executed_path) + 1 :
           Append(executed_path, node)[i]
             = IF i = Len(executed_path) + 1 THEN node ELSE executed_path[i]
  BY <1>1, AppendProperties
<1>3. \A n : OnPath(n)' => OnPath(n) \/ n = node
  <2> SUFFICES ASSUME NEW n, NEW i \in 1..Len(executed_path) + 1,
                      Append(executed_path, node)[i] = n, n # node
               PROVE  OnPath(n)
    BY <1>2 DEF OnPath
  <2>1. i \in 1..Len(executed_path) /\ executed_path[i] = n
    BY <1>1, <1>2
  <2> QED
    BY <2>1 DEF OnPath
<1>4. executed_path' # <<>>
  BY <1>1, <1>2, EmptySeq
<1> QED
  BY <1>1, <1>2, <1>3, <1>4

LEMMA WayStep == TypeOK /\ BackedInv /\ WayInv /\ [Next]_vars => WayInv'
<1> SUFFICES ASSUME TypeOK, BackedInv, WayInv, [Next]_vars
             PROVE  WayInv'
  OBVIOUS
<1>0. node \in Nodes /\ EntryNode \in Nodes /\ \A n \in Nodes : Rank[n] \in Nat
  BY GraphAssumption DEF TypeOK, ControlOK
<1>1. CASE Waits
  BY <1>1, WayKept DEF Waits, kept
<1>2. CASE Begins
  <2>1. executed_path = <<>> /\ executed_path' = <<>>
    BY <1>2 DEF Begins, WayInv, NothingListed, Phase
  <2>2. \A n : ~OnPath(n)'
    BY <2>1 DEF OnPath
  <2>3. Phase' \in {"start", "enter"} /\ result.status = "none" /\ UNCHANGED result /\ pc' \notin {"replay", "terminal"}
    BY <1>2 DEF Begins, WayInv, Answered, Phase
  <2> QED
    BY <2>1, <2>2, <2>3 DEF WayInv, Answered, Standing, NothingListed, ListedBehind, ListedLast
<1>3. CASE Sorts
  <2>1. /\ Phase = "enter" /\ UNCHANGED <<node, executed_path, result>>
        /\ \/ Phase' = "step" /\ node \in ActionNodes
           \/ Phase' \in {"edges", "terminal"} /\ node \notin ActionNodes
    BY <1>0, <1>3 DEF Sorts, kept, Phase, ActionNodes
  <2>2. pc' # "replay" /\ (pc' = "terminal" => node \notin ActionNodes)
    BY <2>1 DEF Phase
  <2>3. \A n \in Nodes : OnPath(n)' => Rank[n] < Rank[node]
    BY <2>1 DEF WayInv, ListedBehind, OnPath
  <2> QED
    BY <2>1, <2>2, <2>3 DEF WayInv, Answered, Standing, NothingListed, ListedBehind, ListedLast
<1>4. CASE Lists
  <2>1. /\ Phase = "step" /\ Phase' = "edges" /\ UNCHANGED <<node, result>>
        /\ pc' \notin {"replay", "terminal"}
    BY <1>4 DEF Lists, Phase
  <2>2. /\ \A n : OnPath(n)' => OnPath(n) \/ n = node
        /\ executed_path' # <<>> /\ executed_path'[Len(executed_path')] = node
    BY <1>4, Appended DEF Lists
  <2>3. Answered' /\ Standing' /\ NothingListed' /\ ListedLast'
    BY <2>1, <2>2 DEF WayInv, Answered, Standing, NothingListed, ListedLast
  <2>4. ListedBehind'
    BY <2>1, <2>2 DEF WayInv, ListedBehind
  <2> QED
    BY <2>3, <2>4 DEF WayInv
<1>5. CASE Carries
  <2>1. Phase = "step"
    BY <1>5 DEF Carries, Physical, Phase, Attempting, Acting
  <2>2. pc' # "replay"
    BY <1>5 DEF Carries, Phase
  <2> QED
    BY <1>5, <2>1, <2>2, WayKept DEF Carries
<1>6. CASE Hands
  <2>1. pc' # "replay"
    BY <1>6 DEF Hands, Phase
  <2> QED
    BY <1>6, <2>1, WayKept DEF Hands
<1>7. CASE Moves
  <2>1. Phase = "edges" /\ Phase' = "enter" /\ UNCHANGED <<executed_path, result>> /\ node' \in Successors(node)
    BY <1>7 DEF Moves, Phase, Attempting, Acting
  <2>2. node' \in Nodes /\ Rank[node] < Rank[node']
    BY <1>0, <2>1, GraphAssumption DEF Successors
  <2>3. \A n \in Nodes : OnPath(n)' => Rank[n] < Rank[node']
    BY <1>0, <2>1, <2>2 DEF WayInv, ListedBehind, OnPath
  <2>4. pc' = "enter"
    BY <1>7 DEF Moves
  <2> QED
    BY <2>1, <2>3, <2>4 DEF WayInv, Answered, Standing, NothingListed, ListedBehind, ListedLast
<1>8. CASE Restarts
  <2>1. Phase' = "start" /\ pc' = "run" /\ executed_path' = <<>> /\ UNCHANGED result /\ Phase # "over"
    BY <1>8 DEF Restarts, Phase
  <2>2. \A n : ~OnPath(n)'
    BY <2>1 DEF OnPath
  <2> QED
    BY <2>1, <2>2 DEF WayInv, Answered, Standing, NothingListed, ListedBehind, ListedLast
<1>9. CASE Ends
  <2>1. pc' # "replay"
    BY <1>9 DEF Ends, Phase
  <2> QED
    BY <1>9, <2>1, WayKept DEF Ends, kept
<1>10. CASE UNCHANGED vars
  <2>1. UNCHANGED <<pc, node, executed_path, result, handoff>>
    BY <1>10 DEF vars, place, flow, session
  <2>2. Phase' = Phase
    BY <2>1 DEF Phase, Attempting, Acting
  <2> QED
    BY <2>1, <2>2, WayKept
<1> QED
  BY <1>1, <1>2, <1>3, <1>4, <1>5, <1>6, <1>7, <1>8, <1>9, <1>10, Shapes DEF Shaped

(* A node about to be listed was not listed before.                        *)
LEMMA FirstListing ==
  ASSUME TypeOK, WayInv, Phase = "step"
  PROVE  ~OnPath(node)
<1>1. node \in Nodes /\ Rank[node] \in Nat
  BY GraphAssumption DEF TypeOK, ControlOK
<1> QED
  BY <1>1 DEF WayInv, ListedBehind

-----------------------------------------------------------------------------
(* Each shape is a step of the contract, or hidden from the caller.        *)

(* Where the contract sees the engine.                                     *)
Seen == IF pc \in {"replay", "run"} THEN EntryNode ELSE node

LEMMA StepMaps ==
  ASSUME TypeOK, RepeatInv, BackedInv, WayInv, [Next]_vars
  PROVE  [Contract!Next]_(Contract!vars)
<1>1. CASE UNCHANGED <<Seen, dispatched, handled, executed_path, result>>
  BY <1>1 DEF Contract!vars, Seen
<1>2. Phase \notin {"start", "over"} => Seen = node /\ result.status = "none"
  BY DEF WayInv, Answered, Seen, Phase
<1>3. Phase' # "start" => Seen' = node'
  BY DEF Seen, Phase
<1>4. Phase = "step" => node \in ActionNodes /\ ~Contract!Listed(node)
  <2> SUFFICES ASSUME Phase = "step"
               PROVE  node \in ActionNodes /\ ~OnPath(node)
    BY DEF Contract!Listed, OnPath
  <2>1. node \in Nodes /\ Rank[node] \in Nat
    BY GraphAssumption DEF TypeOK, ControlOK
  <2> QED
    BY <2>1 DEF WayInv, Standing, ListedBehind
<1>5. CASE Waits
  <2>1. Seen' = Seen
    BY <1>5 DEF Waits, kept, Seen, Phase
  <2> QED
    BY <1>1, <1>5, <2>1 DEF Waits, kept
<1>6. CASE Begins
  <2>1. Seen' = Seen
    BY <1>6 DEF Begins, Seen
  <2> QED
    BY <1>1, <1>6, <2>1 DEF Begins
<1>7. CASE Sorts
  <2>1. Seen' = Seen
    BY <1>7 DEF Sorts, kept, Seen, Phase
  <2> QED
    BY <1>1, <1>7, <2>1 DEF Sorts, kept
<1>8. CASE Lists
  <2>1. Seen = node /\ Seen' = node /\ node \in ActionNodes /\ ~Contract!Listed(node) /\ result.status = "none"
    BY <1>2, <1>3, <1>4, <1>8 DEF Lists
  <2>2. node \in ReadNodes \/ dispatched[node] > 0 \/ node \in handled
    BY <1>8 DEF Lists, Spent
  <2>3. Contract!List
    BY <1>8, <2>1, <2>2 DEF Contract!List, Lists, Seen
  <2> QED
    BY <1>8, <2>1, <2>3 DEF Contract!Next, Lists
<1>9. CASE Carries
  <2>1. Phase = "step" /\ Phase' # "start"
    BY <1>9 DEF Carries, Physical, Phase, Attempting, Acting
  <2>2. Seen = node /\ Seen' = node /\ node \in ActionNodes /\ ~Contract!Listed(node) /\ result.status = "none"
    BY <1>2, <1>3, <1>4, <1>9, <2>1 DEF Carries
  <2>3. RetrySafety[node] = "never_retry" => dispatched[node] = 0 /\ node \notin handled
    <3>1. dispatched[node] \in Nat
      BY DEF TypeOK, LedgerOK, GhostsOK, ControlOK
    <3>2. RetrySafety[node] = "never_retry" => ~MayRepeat(node)
      BY DEF MayRepeat
    <3> QED
      BY <1>9, <3>1, <3>2 DEF Carries, Physical, RepeatInv, AskedFirst, Acting, Spent
  <2>4. Contract!Carry
    BY <1>9, <2>2, <2>3 DEF Contract!Carry, Carries, Physical, Seen
  <2>5. CASE UNCHANGED result
    BY <2>2, <2>4, <2>5 DEF Contract!Next
  <2>6. CASE result'.status = "failure"
    <3>1. Contract!Answer
      BY <1>9, <2>2, <2>4, <2>6 DEF Contract!Answer, Carries, Seen
    <3> QED
      BY <2>2, <3>1 DEF Contract!Next
  <2> QED
    BY <1>9, <2>5, <2>6 DEF Carries
<1>10. CASE Hands
  <2>1. Seen = node /\ Seen' = node /\ node \in ActionNodes /\ ~Contract!Listed(node) /\ result.status = "none"
    BY <1>2, <1>3, <1>4, <1>10 DEF Hands
  <2>2. Contract!Hand
    BY <1>10, <2>1 DEF Contract!Hand, Hands, Seen
  <2> QED
    BY <1>10, <2>1, <2>2 DEF Contract!Next, Hands
<1>11. CASE Moves
  <2>1. Phase = "edges" /\ Phase' = "enter"
    BY <1>11 DEF Moves, Phase, Attempting, Acting
  <2>2. Seen = node /\ Seen' = node' /\ result.status = "none" /\ node \in Nodes
    BY <1>2, <1>3, <2>1 DEF TypeOK, ControlOK
  <2>3. node \in ActionNodes => executed_path # <<>> /\ executed_path[Len(executed_path)] = node
    BY <2>1 DEF WayInv, ListedLast
  <2>4. Contract!Move
    BY <1>11, <2>2, <2>3 DEF Contract!Move, Moves, Seen
  <2> QED
    BY <1>11, <2>2, <2>4 DEF Contract!Next, Moves
<1>12. CASE Restarts
  <2>1. Seen' = EntryNode /\ result.status = "none"
    BY <1>12 DEF Restarts, Seen, WayInv, Answered, Phase
  <2>2. Contract!Restart
    BY <1>12, <2>1 DEF Contract!Restart, Contract!Fresh, Restarts, NothingDispatched, Seen
  <2> QED
    BY <1>12, <2>1, <2>2 DEF Contract!Next, Restarts
<1>13. CASE Ends
  <2>1. Seen = node /\ Seen' = node /\ result.status = "none"
    BY <1>13 DEF Ends, kept, Seen, Phase, WayInv, Answered, Standing
  <2>2. result'.status = "success" => node \in {n \in Nodes : TerminalStatus[n] = "success"} \ ActionNodes
    BY <1>13 DEF Ends, WayInv, Standing, TypeOK, ControlOK
  <2>3. Contract!Answer
    BY <1>13, <2>1, <2>2 DEF Contract!Answer, Ends, kept, Seen
  <2> QED
    BY <2>1, <2>3 DEF Contract!Next
<1>14. CASE UNCHANGED vars
  <2>1. UNCHANGED <<Seen, dispatched, handled, executed_path, result>>
    BY <1>14 DEF vars, place, flow, ghosts, Seen
  <2> QED
    BY <1>1, <2>1
<1> QED
  BY <1>5, <1>6, <1>7, <1>8, <1>9, <1>10, <1>11, <1>12, <1>13, <1>14, Shapes DEF Shaped

(* replay.py:9-17: however attempts, failed loads, dialogs, handoffs and   *)
(* restarts interleave, the caller sees a walk of the graph, each action   *)
(* on it performed before it is listed, an unsafe one at most once in a    *)
(* flow, success only from a success terminal, and one answer.             *)
THEOREM ReplayKeepsContract == Spec => ImplementsContract
<1>1. Init => Contract!Init
  BY DEF Init, Contract!Init, Contract!Fresh, NothingDispatched, NoResult
<1>2. Init => TypeOK /\ RepeatInv /\ BackedInv /\ WayInv
  BY InitType, InitRepeat, InitBacked, InitWay
<1>3. TypeOK /\ RepeatInv /\ BackedInv /\ WayInv /\ [Next]_vars
        => (TypeOK /\ RepeatInv /\ BackedInv /\ WayInv)'
  BY TypeStep, RepeatStep, BackedStep, WayStep
<1>4. TypeOK /\ RepeatInv /\ BackedInv /\ WayInv /\ [Next]_vars => [Contract!Next]_(Contract!vars)
  BY StepMaps
<1> QED
  BY <1>1, <1>2, <1>3, <1>4, PTL DEF Spec, ImplementsContract, Contract!Spec

-----------------------------------------------------------------------------
(***************************************************************************)
(* The path.  Between two nodes it lists lie only decisions: the engine    *)
(* leaves an action node once it is listed (ListedLast), and lists none    *)
(* that lies behind it (ListedBehind).                                     *)
(***************************************************************************)
LEMMA FollowsEdge ==
  ASSUME NEW x \in Nodes, NEW y \in Successors(x)
  PROVE  Follows(x, y)
  BY GraphAssumption DEF Follows, Ahead, Successors

LEMMA FollowsDecision ==
  ASSUME NEW x \in Nodes, NEW d \in Nodes, Follows(x, d), Kind[d] = "decision",
         NEW y \in Successors(d)
  PROVE  Follows(x, y)
  BY GraphAssumption DEF Follows, Ahead, Successors

AtTerminal == pc = "terminal" \/ result.status = "success" => Kind[node] = "terminal"
OnWalk ==
  pc # "run" =>
    /\ executed_path # <<>> =>
         executed_path[1] = EntryNode \/ Follows(EntryNode, executed_path[1])
    /\ \A i \in 1..Len(executed_path) - 1 : Follows(executed_path[i], executed_path[i + 1])
    /\ node = LastListed \/ Follows(LastListed, node)
WalkInv == AtTerminal /\ OnWalk

LEMMA StaysOnWalk ==
  ASSUME WalkInv, UNCHANGED <<node, executed_path>>, pc # "run" \/ pc' = "run", AtTerminal'
  PROVE  WalkInv'
  BY DEF WalkInv, OnWalk, LastListed

LEMMA ListedOnWalk ==
  ASSUME TypeOK, WayInv, WalkInv, Lists
  PROVE  OnWalk'
<1>1. /\ executed_path \in Seq(Nodes) /\ node \in Nodes /\ EntryNode \in Nodes
      /\ Len(executed_path) \in Nat /\ UNCHANGED node
  BY GraphAssumption DEF TypeOK, LedgerOK, FlowOK, ControlOK, Lists
<1>2. /\ executed_path' # <<>> /\ Len(executed_path') = Len(executed_path) + 1
      /\ \A i \in 1..Len(executed_path) + 1 :
           executed_path'[i] = IF i = Len(executed_path) + 1 THEN node ELSE executed_path[i]
  BY <1>1, Appended, AppendProperties DEF Lists
<1>3. pc # "run" /\ Phase = "step"
  BY DEF Lists, Phase
<1>4. node = LastListed \/ Follows(LastListed, node)
  BY <1>3 DEF WalkInv, OnWalk
<1>5. CASE executed_path = <<>>
  <2>1. Len(executed_path) = 0 /\ LastListed = EntryNode
    BY <1>5 DEF LastListed
  <2>2. executed_path'[1] = node /\ Len(executed_path') = 1
    BY <1>2, <2>1
  <2> QED
    BY <1>1, <1>2, <1>4, <2>1, <2>2 DEF OnWalk, LastListed
<1>6. CASE executed_path # <<>>
  <2>1. Len(executed_path) >= 1 /\ LastListed = executed_path[Len(executed_path)]
    BY <1>1, <1>6, EmptySeq DEF LastListed
  <2>2. OnPath(LastListed) /\ LastListed \in Nodes
    BY <1>1, <2>1 DEF OnPath
  <2>3. node # LastListed
    BY <1>3, <2>2, FirstListing
  <2>4. Follows(LastListed, node)
    BY <1>4, <2>3
  <2>5. executed_path'[1] = executed_path[1] /\ executed_path'[Len(executed_path')] = node
    BY <1>1, <1>2, <2>1
  <2>6. ASSUME NEW i \in 1..Len(executed_path') - 1
        PROVE  Follows(executed_path'[i], executed_path'[i + 1])
    <3>1. i \in 1..Len(executed_path) /\ executed_path'[i] = executed_path[i]
      BY <1>1, <1>2
    <3>2. CASE i = Len(executed_path)
      BY <1>1, <1>2, <2>1, <2>4, <3>1, <3>2
    <3>3. CASE i # Len(executed_path)
      <4>1. i \in 1..Len(executed_path) - 1 /\ executed_path'[i + 1] = executed_path[i + 1]
        BY <1>1, <1>2, <3>1, <3>3
      <4> QED
        BY <1>3, <3>1, <4>1 DEF WalkInv, OnWalk
    <3> QED
      BY <3>2, <3>3
  <2>7. executed_path[1] = EntryNode \/ Follows(EntryNode, executed_path[1])
    BY <1>3, <1>6 DEF WalkInv, OnWalk
  <2> QED
    BY <1>1, <1>2, <2>5, <2>6, <2>7 DEF OnWalk, LastListed
<1> QED
  BY <1>5, <1>6

LEMMA MovedOnWalk ==
  ASSUME TypeOK, WayInv, WalkInv, Moves
  PROVE  OnWalk'
<1>1. /\ executed_path \in Seq(Nodes) /\ node \in Nodes /\ EntryNode \in Nodes
      /\ Len(executed_path) \in Nat /\ Kind[node] \in {"action", "decision", "terminal"}
  BY GraphAssumption DEF TypeOK, LedgerOK, FlowOK, ControlOK
<1>2. UNCHANGED executed_path /\ node' \in Successors(node) /\ pc = "edge" /\ Phase = "edges"
  BY DEF Moves, Phase, Attempting, Acting
<1>3. LastListed \in Nodes /\ UNCHANGED LastListed
  <2>1. CASE executed_path = <<>>
    BY <1>1, <1>2, <2>1 DEF LastListed
  <2>2. CASE executed_path # <<>>
    BY <1>1, <1>2, <2>2, EmptySeq DEF LastListed
  <2> QED
    BY <2>1, <2>2
<1>4. node = LastListed \/ Follows(LastListed, node)
  BY <1>2 DEF WalkInv, OnWalk
<1>5. Follows(LastListed, node')
  <2>1. CASE Kind[node] = "terminal"
    BY <1>1, <1>2, <2>1, GraphAssumption
  <2>2. CASE Kind[node] = "action"
    <3>1. LastListed = node
      BY <1>1, <1>2, <2>2 DEF WayInv, ListedLast, ActionNodes, LastListed
    <3> QED
      BY <1>1, <1>2, <3>1, FollowsEdge
  <2>3. CASE Kind[node] = "decision"
    BY <1>1, <1>2, <1>3, <1>4, <2>3, FollowsEdge, FollowsDecision
  <2> QED
    BY <1>1, <2>1, <2>2, <2>3
<1> QED
  BY <1>2, <1>3, <1>5 DEF WalkInv, OnWalk

LEMMA WalkStep == TypeOK /\ BackedInv /\ WayInv /\ WalkInv /\ [Next]_vars => WalkInv'
<1> SUFFICES ASSUME TypeOK, BackedInv, WayInv, WalkInv, Shaped
             PROVE  WalkInv'
  BY Shapes
<1>1. CASE Waits \/ UNCHANGED vars
  <2>1. UNCHANGED <<node, executed_path, result>> /\ Phase' = Phase
    BY <1>1 DEF Waits, kept, vars, place, flow, session, Phase, Attempting, Acting
  <2>2. (pc' = "terminal" => pc = "terminal") \/ Phase = "terminal"
    BY <2>1 DEF Phase
  <2>3. pc = "run" => pc' = "run"
    BY <1>1, <2>1 DEF Waits, vars, Phase
  <2> QED
    BY <2>1, <2>2, <2>3, StaysOnWalk DEF WalkInv, AtTerminal, Phase
<1>2. CASE Begins
  <2>1. executed_path' = <<>> /\ result'.status = "none" /\ pc' # "terminal"
    BY <1>2 DEF Begins, WayInv, NothingListed, Answered, Phase
  <2>2. pc' = "run" \/ node' = EntryNode
    BY <1>2 DEF Begins
  <2> QED
    BY <2>1, <2>2 DEF WalkInv, AtTerminal, OnWalk, LastListed
<1>3. CASE Sorts
  <2>1. UNCHANGED <<node, executed_path, result>> /\ pc = "enter" /\ (pc' = "terminal" => Kind[node] = "terminal")
    BY <1>3 DEF Sorts, kept, Phase
  <2> QED
    BY <2>1, StaysOnWalk DEF WalkInv, AtTerminal
<1>4. CASE Lists
  <2>1. UNCHANGED <<node, result>> /\ pc' # "terminal"
    BY <1>4 DEF Lists, Phase
  <2> QED
    BY <1>4, <2>1, ListedOnWalk DEF WalkInv, AtTerminal
<1>5. CASE Carries \/ Hands
  <2>1. /\ UNCHANGED <<node, executed_path>> /\ pc # "run" /\ pc' # "terminal"
        /\ UNCHANGED result \/ result'.status = "failure"
    BY <1>5 DEF Carries, Hands, Physical, Phase
  <2> QED
    BY <2>1, StaysOnWalk DEF WalkInv, AtTerminal
<1>6. CASE Moves
  <2>1. result.status = "none" /\ UNCHANGED result /\ pc' = "enter"
    BY <1>6 DEF Moves, WayInv, Answered, Phase, Attempting, Acting
  <2> QED
    BY <1>6, <2>1, MovedOnWalk DEF WalkInv, AtTerminal
<1>7. CASE Restarts
  <2>1. result.status = "none" /\ UNCHANGED result /\ pc' = "run"
    BY <1>7 DEF Restarts, WayInv, Answered, Phase
  <2> QED
    BY <2>1 DEF WalkInv, AtTerminal, OnWalk
<1>8. CASE Ends
  <2>1. UNCHANGED <<node, executed_path>> /\ pc # "run" /\ pc' # "terminal"
    BY <1>8 DEF Ends, kept, Phase
  <2> QED
    BY <1>8, <2>1, StaysOnWalk DEF Ends, WalkInv, AtTerminal
<1> QED
  BY <1>1, <1>2, <1>3, <1>4, <1>5, <1>6, <1>7, <1>8 DEF Shaped

(* executed_path is the path of one walk of the graph, from the entry to   *)
(* where the engine is, and success is answered at a terminal only.        *)
THEOREM PathIsWalked == Spec => []PathFollowsGraph
<1>1. Init => WalkInv
  BY DEF Init, NoResult, WalkInv, AtTerminal, OnWalk, LastListed
<1>2. WalkInv => PathFollowsGraph
  BY DEF WalkInv, AtTerminal, OnWalk, PathFollowsGraph
<1> QED
  BY <1>1, <1>2, InitType, TypeStep, InitBacked, BackedStep, InitWay, WayStep, WalkStep,
     PTL DEF Spec

-----------------------------------------------------------------------------
(***************************************************************************)
(* The budget.  RepeatsBounded is not inductive: a step that has not acted *)
(* yet must have left room for one more dispatch, which the attempts it    *)
(* was granted and the answers of a person account for.                    *)
(***************************************************************************)
RoomForAttempt ==
  Phase = "step" =>
    /\ attempts >= 1
    /\ dispatched[node] + (IF acted THEN 0 ELSE 1) <= attempts + interventions
BudgetInv == RepeatsBounded /\ RoomForAttempt

Answers == interventions' = interventions \/ interventions' = interventions + 1

(* What a step does to the account.                                        *)
Leaves == Phase' # "step" /\ UNCHANGED dispatched /\ Answers
Stays  == Phase = "step" /\ UNCHANGED <<dispatched, node, attempts, acted>> /\ Answers
Grants ==
  /\ Phase = "step" /\ UNCHANGED <<dispatched, node>> /\ Answers /\ acted' = FALSE
  /\ \/ attempts' = attempts + 1
     \/ attempts' = attempts /\ interventions' = interventions + 1
Opens ==
  /\ pc = "enter" /\ attempts' = 1 /\ acted' = FALSE
  /\ UNCHANGED <<dispatched, node, interventions>>
Spends ==
  /\ Physical /\ UNCHANGED <<node, interventions>>
  /\ dispatched' = [dispatched EXCEPT ![node] = @ + 1]
  /\ \/ Phase' # "step"
     \/ attempts' = attempts /\ acted' = TRUE
     \/ attempts' = attempts + 1 /\ acted' = FALSE
Resets == Phase' # "step" /\ dispatched' = NothingDispatched /\ Answers

Accounts == Leaves \/ Stays \/ Grants \/ Opens \/ Spends \/ Resets

LEMMA RetryAccounts ==
  ASSUME NEW actedNow, RetryTransient(actedNow)
  PROVE  /\ UNCHANGED node
         /\ Phase' # "step" \/ (attempts' = attempts + 1 /\ acted' = FALSE)
  BY DEF RetryTransient, Fail, Finish, BeginAttempt, place, Phase

LEMMA AccountSteps == TypeOK /\ [Next]_vars => Accounts
<1> SUFFICES ASSUME TypeOK, [Next]_vars
             PROVE  Accounts
  OBVIOUS
<1>1. CASE Start
  <2>1. CASE EnterAction
    BY <2>1 DEF EnterAction, BeginAttempt, session, ledger, ghosts, Accounts, Opens
  <2>2. CASE ~EnterAction
    BY <1>1, <2>2
    DEF Start, StartReplay, RunGraph, EnterDecision, EnterTerminal, Fail, Finish, Goto, EnterNode,
        GoToEdges, place, session, ledger, ghosts, Phase, Attempting, Acting, Answers, Accounts, Leaves
  <2> QED
    BY <2>1, <2>2
<1>2. CASE Settle
  <2>1. CASE SettleLoadFails
    <3>1. RetryTransient(acted) /\ Phase = "step" /\ UNCHANGED <<dispatched, interventions>>
      BY <2>1 DEF SettleLoadFails, Phase, Attempting, Acting, session, ledger, ghosts
    <3> QED
      BY <3>1, RetryAccounts DEF Accounts, Leaves, Grants, Answers
  <2>2. CASE ~SettleLoadFails
    BY <1>2, <2>2
    DEF Settle, SettleClear, SettleRecoversDialog, SettleRecoveryFails, SettleUnknownDialog, Goto,
        Escalate, place, session, ledger, ghosts, Phase, Attempting, Acting, Answers, Accounts, Stays
  <2> QED
    BY <2>1, <2>2
<1>3. CASE Attempt
  <2>1. Phase = "step"
    BY <1>3
    DEF Attempt, StepAlreadySatisfied, ResultUncertain, ReachDenied, ResolveTarget, TargetAmbiguous,
        TargetMissingByOutcome, TargetMissing, OptionalControlMissing, Proceeds, Phase, Attempting, Acting
  <2>2. CASE StepAlreadySatisfied \/ OptionalControlMissing
    BY <2>2
    DEF StepAlreadySatisfied, OptionalControlMissing, Complete, GoToEdges, session, ghosts, Phase,
        Attempting, Acting, Answers, Accounts, Leaves
  <2>3. CASE ReachDenied \/ TargetAmbiguous \/ TargetMissingByOutcome
    BY <2>3
    DEF ReachDenied, TargetAmbiguous, TargetMissingByOutcome, Fail, Finish, session, ledger, ghosts,
        Phase, Attempting, Acting, Answers, Accounts, Leaves
  <2>4. CASE ResultUncertain \/ ResolveTarget \/ TargetMissing
    BY <2>1, <2>4
    DEF ResultUncertain, ResolveTarget, TargetMissing, Escalate, Goto, place, session, ledger, ghosts,
        Answers, Accounts, Stays
  <2> QED
    BY <1>3, <2>2, <2>3, <2>4 DEF Attempt
<1>4. CASE CheckEffect
  <2>1. CASE VerdictDenies \/ \E v \in {"allow", "confirm"} : EffectDenied(v)
    BY <2>1
    DEF VerdictDenies, EffectDenied, Judge, Fail, Finish, session, Phase, Answers, Accounts, Leaves
  <2>2. CASE \E v \in {"allow", "confirm"} : RequireApproval(v) \/ EffectAllowed(v)
    BY <2>2
    DEF RequireApproval, EffectAllowed, Judge, Escalate, Goto, place, session, Phase, Attempting, Acting,
        Answers, Accounts, Stays
  <2> QED
    BY <1>4, <2>1, <2>2 DEF CheckEffect
<1>5. CASE Act
  <2>1. Physical /\ Phase = "step" /\ UNCHANGED interventions
    BY <1>5
    DEF Act, ActCompletes, ActLost, ActNotDispatched, ActAmbiguous, ActStale, Physical, beside, session,
        Phase, Attempting, Acting
  <2>2. CASE ActCompletes
    BY <2>1, <2>2 DEF ActCompletes, MayHaveHappened, Accounts, Spends
  <2>3. CASE ActLost
    BY <2>1, <2>3, RetryAccounts DEF ActLost, MayHaveHappened, Accounts, Spends
  <2>4. CASE ActNotDispatched
    BY <2>1, <2>4, RetryAccounts DEF ActNotDispatched, NothingHappened, Accounts, Leaves, Grants, Answers
  <2>5. CASE ActAmbiguous \/ ActStale
    BY <2>1, <2>5
    DEF ActAmbiguous, ActStale, MayHaveHappened, NothingHappened, Fail, Finish, place, Phase, Answers,
        Accounts, Spends, Leaves
  <2> QED
    BY <1>5, <2>2, <2>3, <2>4, <2>5 DEF Act
<1>6. CASE AwaitCheckpoint
  <2>1. CASE ObservedAfterAct \/ CheckpointPassed \/ OutcomeAfterAct
    BY <2>1
    DEF ObservedAfterAct, CheckpointPassed, OutcomeAfterAct, Complete, GoToEdges, Finish, session, ledger,
        ghosts, Phase, Attempting, Acting, Answers, Accounts, Leaves
  <2>2. CASE LoadFailsAfterAct
    <3>1. RetryTransient(acted) /\ Phase = "step" /\ UNCHANGED <<dispatched, interventions>>
      BY <2>2 DEF LoadFailsAfterAct, Phase, Attempting, Acting, session, ledger, ghosts
    <3> QED
      BY <3>1, RetryAccounts DEF Accounts, Leaves, Grants, Answers
  <2>3. CASE CheckpointTimeout \/ PollCheckpoint
    BY <2>3
    DEF CheckpointTimeout, PollCheckpoint, Escalate, place, session, ledger, ghosts, Phase, Attempting,
        Acting, Answers, Accounts, Stays
  <2> QED
    BY <1>6, <2>1, <2>2, <2>3 DEF AwaitCheckpoint
<1>7. CASE Read
  <2>1. CASE ItemMissing
    BY <2>1
    DEF ItemMissing, Reading, Escalate, place, ledger, ghosts, Phase, Attempting, Acting, Answers,
        Accounts, Stays
  <2>2. CASE ~ItemMissing
    BY <1>7, <2>2
    DEF Read, ReadStored, ScalarUnmatched, OptionalListAbsent, ReadRefused, Complete, GoToEdges, Fail,
        Finish, outside, session, ledger, ghosts, Phase, Attempting, Acting, Answers, Accounts, Leaves
  <2> QED
    BY <2>1, <2>2
<1>8. CASE Route
  BY <1>8
  DEF Route, LoadFails, TakeEdge, TakeFallback, EdgeRecoversDialog, EdgeRecoveryFails, EdgeRecoveryRaises,
      NoMatchingEdge, PollEdges, SuccessVerified, OutputsIncomplete, SuccessNotMet, OtherTerminal,
      SuccessTerminal, Fail, Finish, Escape, EnterNode, Escalate, session, ledger, ghosts, Phase,
      Attempting, Acting, Answers, Accounts, Leaves
<1>9. CASE Person
  <2>1. CASE PersonActs
    <3>1. /\ UNCHANGED <<dispatched, node, attempts, acted, interventions>>
          /\ Phase' = Phase
      BY <2>1 DEF PersonActs, place, ledger, ghosts, Phase, Attempting, Acting, TypeOK, SessionOK
    <3> QED
      BY <3>1 DEF Answers, Accounts, Stays, Leaves
  <2>2. CASE ShowControlsFails
    <3>1. UNCHANGED <<dispatched, interventions>>
      BY <2>2 DEF ShowControlsFails, ledger, ghosts
    <3>2. CASE AtStep /\ RetryTransient(acted)
      <4>1. Phase = "step"
        BY <2>2, <3>2 DEF ShowControlsFails, AtStep, Phase, Attempting, Acting
      <4> QED
        BY <3>1, <3>2, <4>1, RetryAccounts DEF Accounts, Leaves, Grants, Answers
    <3>3. CASE Escape("TransientError")
      BY <3>1, <3>3 DEF Escape, Phase, Answers, Accounts, Leaves
    <3> QED
      BY <2>2, <3>2, <3>3 DEF ShowControlsFails
  <2>3. CASE ResumeStep
    BY <2>3
    DEF ResumeStep, HandBack, BeginAttempt, NextAttempt, Phase, Attempting, Acting, Answers, Accounts,
        Grants
  <2>4. CASE RestartFlow
    BY <2>4 DEF RestartFlow, HandBack, Goto, Phase, Answers, Accounts, Resets
  <2>5. CASE Approve
    BY <2>5
    DEF Approve, HandBack, Goto, place, Phase, Attempting, Acting, Answers, Accounts, Stays
  <2>6. CASE ResumeUncertain \/ ResumeEdges \/ ResumeEdgeRecovery \/ RestartRefused \/ StopReplay
    BY <2>6
    DEF ResumeUncertain, ResumeEdges, ResumeEdgeRecovery, RestartRefused, StopReplay, HandBack, Complete,
        GoToEdges, Escape, Fail, Finish, ledger, ghosts, Phase, Attempting, Acting, Answers, Accounts,
        Leaves
  <2> QED
    BY <1>9, <2>1, <2>2, <2>3, <2>4, <2>5, <2>6 DEF Person
<1>10. CASE UNCHANGED vars
  <2>1. UNCHANGED <<dispatched, node, attempts, acted, interventions, pc, handoff>>
    BY <1>10 DEF vars, place, session, ghosts
  <2>2. Phase' = Phase
    BY <2>1 DEF Phase, Attempting, Acting
  <2> QED
    BY <2>1, <2>2 DEF Answers, Accounts, Stays, Leaves
<1> QED
  BY <1>1, <1>2, <1>3, <1>4, <1>5, <1>6, <1>7, <1>8, <1>9, <1>10 DEF Next, Step, Over

LEMMA BudgetStep == TypeOK /\ RepeatInv /\ BudgetInv /\ [Next]_vars => BudgetInv'
<1> SUFFICES ASSUME TypeOK, TypeOK', RepeatInv, BudgetInv, Accounts
             PROVE  BudgetInv'
  BY TypeStep, AccountSteps
<1>1. /\ dispatched \in [Nodes -> Nat] /\ node \in Nodes
      /\ attempts \in 0..MaxTransientAttempts /\ attempts' \in 0..MaxTransientAttempts
      /\ interventions \in Nat /\ MaxTransientAttempts \in Nat /\ acted \in BOOLEAN
  BY BoundAssumption DEF TypeOK, LedgerOK, GhostsOK, ControlOK, SessionOK
<1>2. \A n \in Nodes : dispatched[n] \in Nat /\ dispatched[n] <= MaxTransientAttempts + interventions
  BY <1>1 DEF BudgetInv, RepeatsBounded
<1>3. CASE Leaves
  BY <1>1, <1>2, <1>3 DEF Leaves, Answers, BudgetInv, RepeatsBounded, RoomForAttempt
<1>4. CASE Stays
  BY <1>1, <1>2, <1>4 DEF Stays, Answers, BudgetInv, RepeatsBounded, RoomForAttempt
<1>5. CASE Grants
  <2>1. RepeatsBounded'
    BY <1>1, <1>2, <1>5 DEF Grants, Answers, RepeatsBounded
  <2>2. dispatched[node] <= attempts + interventions /\ attempts >= 1
    BY <1>1, <1>2, <1>5 DEF Grants, BudgetInv, RoomForAttempt
  <2>3. RoomForAttempt'
    BY <1>1, <1>2, <1>5, <2>2 DEF Grants, Answers, RoomForAttempt
  <2> QED
    BY <2>1, <2>3 DEF BudgetInv
<1>6. CASE Opens
  <2>1. dispatched[node] = 0
    BY <1>1, <1>2, <1>6 DEF Opens, RepeatInv, FreshOnEntry, Spent
  <2> QED
    BY <1>1, <1>2, <1>6, <2>1 DEF Opens, BudgetInv, RepeatsBounded, RoomForAttempt
<1>7. CASE Spends
  <2>1. ~acted /\ Phase = "step"
    BY <1>7 DEF Spends, Physical, RepeatInv, AskedFirst, Acting, Phase
  <2>2. dispatched[node] + 1 <= attempts + interventions /\ attempts >= 1
    BY <2>1 DEF BudgetInv, RoomForAttempt
  <2>3. /\ UNCHANGED <<node, interventions>> /\ dispatched'[node] = dispatched[node] + 1
        /\ \A n \in Nodes : n # node => dispatched'[n] = dispatched[n]
    BY <1>1, <1>7 DEF Spends
  <2>4. RepeatsBounded'
    BY <1>1, <1>2, <2>2, <2>3 DEF RepeatsBounded
  <2>5. RoomForAttempt'
    BY <1>1, <1>2, <1>7, <2>2, <2>3 DEF Spends, RoomForAttempt
  <2> QED
    BY <2>4, <2>5 DEF BudgetInv
<1>8. CASE Resets
  BY <1>1, <1>8 DEF Resets, Answers, NothingDispatched, BudgetInv, RepeatsBounded, RoomForAttempt
<1> QED
  BY <1>3, <1>4, <1>5, <1>6, <1>7, <1>8 DEF Accounts

(* An action is dispatched at most once per attempt that the budget or a   *)
(* person granted, whatever fails, resumes and restarts in between.        *)
THEOREM RepeatsAreBounded == Spec => []RepeatsBounded
<1>1. Init => BudgetInv
  BY BoundAssumption DEF Init, NothingDispatched, BudgetInv, RepeatsBounded, RoomForAttempt, Phase
<1>2. BudgetInv => RepeatsBounded
  BY DEF BudgetInv
<1> QED
  BY <1>1, <1>2, InitType, TypeStep, InitRepeat, RepeatStep, BudgetStep, PTL DEF Spec

-----------------------------------------------------------------------------
(***************************************************************************)
(* What was read.  Of all the steps, only a read that completes, a read    *)
(* that finds nothing, and a restart touch the outputs.                    *)
(***************************************************************************)

KeepsReads ==
  /\ UNCHANGED <<outputs, appended>>
  /\ executed_path' = executed_path \/ executed_path' = Append(executed_path, node)
Forgets == outputs' = NothingCollected /\ appended' = {} /\ executed_path' = <<>>

FindsNothing ==
  \/ RecordMissingOutput /\ Action[node] = "extract" /\ OptionalRead
  \/ /\ outputs' = [outputs EXCEPT ![OutputOf[node]] = Absent]
     /\ node \notin AppendNodes /\ UNCHANGED appended
Gathers ==
  /\ Phase = "step" /\ node \in ReadNodes
  /\ StoreItems \/ FindsNothing
  /\ executed_path' = Append(executed_path, node)

LEMMA ReadSteps == [Next]_vars => KeepsReads \/ Forgets \/ Gathers
<1> SUFFICES ASSUME [Next]_vars
             PROVE  KeepsReads \/ Forgets \/ Gathers
  OBVIOUS
<1>1. CASE Start \/ Settle \/ CheckEffect \/ Route
  BY <1>1
  DEF Start, StartReplay, RunGraph, EnterAction, EnterDecision, EnterTerminal,
      Settle, SettleLoadFails, SettleClear, SettleRecoversDialog, SettleRecoveryFails, SettleUnknownDialog,
      CheckEffect, Judge, VerdictDenies, EffectDenied, RequireApproval, EffectAllowed,
      Route, LoadFails, TakeEdge, TakeFallback, EdgeRecoversDialog, EdgeRecoveryFails, EdgeRecoveryRaises,
      NoMatchingEdge, PollEdges, SuccessVerified, OutputsIncomplete, SuccessNotMet, OtherTerminal,
      ledger, flow, KeepsReads
<1>2. CASE Attempt
  <2>1. CASE OptionalControlMissing
    BY <2>1
    DEF OptionalControlMissing, Proceeds, Complete, Gathers, FindsNothing, OptionalRead, Phase, Attempting, Acting
  <2>2. CASE ~OptionalControlMissing
    BY <1>2, <2>2
    DEF Attempt, StepAlreadySatisfied, ResultUncertain, ReachDenied, ResolveTarget, TargetAmbiguous,
        TargetMissingByOutcome, TargetMissing, Complete, ledger, flow, KeepsReads
  <2> QED
    BY <2>1, <2>2
<1>3. CASE Act \/ AwaitCheckpoint
  BY <1>3
  DEF Act, ActCompletes, ActLost, ActNotDispatched, ActAmbiguous, ActStale, beside,
      AwaitCheckpoint, ObservedAfterAct, LoadFailsAfterAct, CheckpointPassed, OutcomeAfterAct, CheckpointTimeout,
      PollCheckpoint, Complete, ledger, flow, KeepsReads
<1>4. CASE Read
  <2>1. CASE ReadStored \/ ScalarUnmatched
    BY <2>1
    DEF ReadStored, ScalarUnmatched, Reading, Complete, Gathers, FindsNothing, Phase, Attempting, Acting
  <2>2. CASE OptionalListAbsent
    BY <2>2
    DEF OptionalListAbsent, Reading, Complete, Gathers, FindsNothing, KeepsReads, Phase, Attempting, Acting
  <2>3. CASE ReadRefused \/ ItemMissing
    BY <2>3 DEF ReadRefused, ItemMissing, ledger, flow, KeepsReads
  <2> QED
    BY <1>4, <2>1, <2>2, <2>3 DEF Read
<1>5. CASE Person
  <2>1. CASE RestartFlow
    BY <2>1 DEF RestartFlow, ClearFlow, Forgets
  <2>2. CASE ~RestartFlow
    BY <1>5, <2>2
    DEF Person, PersonActs, ShowControlsFails, ResumeStep, ResumeUncertain, ResumeEdges, ResumeEdgeRecovery,
        RestartRefused, StopReplay, Approve, Complete, ledger, flow, KeepsReads
  <2> QED
    BY <2>1, <2>2
<1>6. CASE UNCHANGED vars
  BY <1>6 DEF vars, flow, KeepsReads
<1> QED
  BY <1>1, <1>2, <1>3, <1>4, <1>5, <1>6 DEF Next, Step, Over

(* Listing a node adds it to the path, and nothing else.                   *)
LEMMA ListedSince ==
  ASSUME TypeOK, executed_path' = Append(executed_path, node)
  PROVE  \A n \in Nodes : OnPath(n)' <=> OnPath(n) \/ n = node
<1>1. executed_path \in Seq(Nodes) /\ node \in Nodes /\ Len(executed_path) \in Nat
  BY DEF TypeOK, LedgerOK, FlowOK, ControlOK
<1>2. /\ Len(executed_path') = Len(executed_path) + 1
      /\ \A i \in 1..Len(executed_path) + 1 :
           executed_path'[i] = IF i = Len(executed_path) + 1 THEN node ELSE executed_path[i]
  BY <1>1, AppendProperties
<1>3. ASSUME NEW n \in Nodes, OnPath(n) PROVE OnPath(n)'
  <2>1. PICK i \in 1..Len(executed_path) : executed_path[i] = n
    BY <1>3 DEF OnPath
  <2>2. i \in 1..Len(executed_path') /\ executed_path'[i] = n
    BY <1>1, <1>2, <2>1
  <2> QED
    BY <2>2 DEF OnPath
<1>4. ASSUME NEW n \in Nodes, n = node PROVE OnPath(n)'
  <2>1. Len(executed_path) + 1 \in 1..Len(executed_path') /\ executed_path'[Len(executed_path) + 1] = n
    BY <1>1, <1>2, <1>4
  <2> QED
    BY <2>1 DEF OnPath
<1>5. ASSUME NEW n \in Nodes, OnPath(n)' PROVE OnPath(n) \/ n = node
  BY <1>5, Appended
<1> QED
  BY <1>3, <1>4, <1>5

(* The items of one output.                                                *)
Items(o) == outputs[o].items
Ordered(items) == \A i, j \in 1..Len(items) : i < j => Rank[items[i]] < Rank[items[j]]
Within(items, o) ==
  \A i \in 1..Len(items) : items[i] \in ReadNodes /\ OutputOf[items[i]] = o /\ OnPath(items[i])

(* What a read leaves in its output: its own items, nothing, or its items  *)
(* after those that were there.                                            *)
LEMMA ReadTells ==
  ASSUME TypeOK, Gathers, node \notin appended
  PROVE  /\ OutputOf[node] \in Outputs
         /\ \A o \in Outputs : o # OutputOf[node] => outputs'[o] = outputs[o]
         /\ outputs' \in [Outputs -> [state : {"absent", "null", "value"}, items : Seq(Nodes)]]
         /\ \/ /\ node \in AppendNodes /\ appended' = appended \cup {node}
               /\ outputs'[OutputOf[node]].items = Append(Items(OutputOf[node]), node)
            \/ /\ node \notin AppendNodes /\ UNCHANGED appended
               /\ outputs'[OutputOf[node]].items \in {<<>>, <<node>>}
            \/ /\ Action[node] = "extract" /\ OutputOf[node] \in OptionalOutputs /\ UNCHANGED appended
               /\ outputs'[OutputOf[node]].items = <<>>
<1>1. node \in ReadNodes /\ OutputOf[node] \in Outputs /\ node \in Nodes
  BY OutputAssumption DEF Gathers, ReadNodes, ActionNodes
<1>2. outputs \in [Outputs -> [state : {"absent", "null", "value"}, items : Seq(Nodes)]]
  BY DEF TypeOK, LedgerOK, FlowOK
<1>3. Items(OutputOf[node]) \in Seq(Nodes) /\ Append(Items(OutputOf[node]), node) \in Seq(Nodes)
  BY <1>1, <1>2 DEF Items
<1>4. <<node>> \in Seq(Nodes) /\ <<>> \in Seq(Nodes)
  BY <1>1
<1>5. CASE StoreItems /\ node \notin AppendNodes
  <2>1. outputs' = [outputs EXCEPT ![OutputOf[node]] = Value(<<node>>)] /\ UNCHANGED appended
    BY <1>5 DEF StoreItems
  <2> QED
    BY <1>1, <1>2, <1>4, <1>5, <2>1 DEF Value
<1>6. CASE StoreItems /\ node \in AppendNodes
  <2>1. /\ outputs' = [outputs EXCEPT ![OutputOf[node]] = Value(Append(Items(OutputOf[node]), node))]
        /\ appended' = appended \cup {node}
    BY <1>1, <1>2, <1>6 DEF StoreItems, Items
  <2> QED
    BY <1>1, <1>2, <1>3, <1>6, <2>1 DEF Value
<1>7. CASE RecordMissingOutput /\ Action[node] = "extract" /\ OptionalRead
  BY <1>1, <1>2, <1>4, <1>7 DEF RecordMissingOutput, OptionalRead, Null
<1>8. CASE /\ outputs' = [outputs EXCEPT ![OutputOf[node]] = Absent]
           /\ node \notin AppendNodes /\ UNCHANGED appended
  BY <1>1, <1>2, <1>4, <1>8 DEF Absent
<1> QED
  BY <1>5, <1>6, <1>7, <1>8 DEF Gathers, FindsNothing

(* Adding an item at the end of a list that lies behind the node.          *)
LEMMA AppendKeepsOrder ==
  ASSUME NEW items \in Seq(Nodes), NEW n \in Nodes, Ordered(items),
         \A i \in 1..Len(items) : Rank[items[i]] < Rank[n]
  PROVE  Ordered(Append(items, n))
<1>1. /\ Len(items) \in Nat /\ Len(Append(items, n)) = Len(items) + 1
      /\ \A i \in 1..Len(items) + 1 :
           Append(items, n)[i] = IF i = Len(items) + 1 THEN n ELSE items[i]
  BY AppendProperties
<1> SUFFICES ASSUME NEW i \in 1..Len(items) + 1, NEW j \in 1..Len(items) + 1, i < j
             PROVE  Rank[Append(items, n)[i]] < Rank[Append(items, n)[j]]
  BY <1>1 DEF Ordered
<1>2. i \in 1..Len(items) /\ Append(items, n)[i] = items[i]
  BY <1>1
<1>3. CASE j = Len(items) + 1
  BY <1>1, <1>2, <1>3
<1>4. CASE j # Len(items) + 1
  <2>1. j \in 1..Len(items) /\ Append(items, n)[j] = items[j]
    BY <1>1, <1>4
  <2> QED
    BY <1>2, <2>1 DEF Ordered
<1> QED
  BY <1>3, <1>4

LEMMA SingleOrdered ==
  ASSUME NEW n \in Nodes
  PROVE  Ordered(<<n>>) /\ Ordered(<<>>)
  BY DEF Ordered

-----------------------------------------------------------------------------
(***************************************************************************)
(* The collected outputs.  That no read of a node lands twice rests on the *)
(* walk: what is listed lies behind the node (ListedBehind), and whatever  *)
(* was read is listed.                                                     *)
(***************************************************************************)
ItemsWithin == \A o \in Outputs : Within(Items(o), o)
WrittenByReads ==
  \A o \in Outputs :
    outputs[o].state # "absent" => \E n \in ReadNodes : OutputOf[n] = o /\ OnPath(n)
AppendedOnPath == \A n \in appended : n \in AppendNodes /\ OnPath(n)
CollectInv == ItemsWithin /\ WrittenByReads /\ AppendedOnPath /\ CollectedInOrder

LEMMA InitCollect == Init => CollectInv
  BY DEF Init, CollectInv, ItemsWithin, WrittenByReads, AppendedOnPath, CollectedInOrder,
         NothingCollected, Absent, Within, Items

LEMMA GatherCollects ==
  ASSUME TypeOK, WayInv, CollectInv, Gathers
  PROVE  CollectInv'
<1>1. node \in ReadNodes /\ node \in Nodes /\ Phase = "step"
  BY DEF Gathers, ReadNodes, ActionNodes
<1>2. ReadNodes \subseteq Nodes
  BY DEF ReadNodes, ActionNodes
<1>3. node \notin appended
  BY <1>1, FirstListing DEF CollectInv, AppendedOnPath
<1>4. \A n \in Nodes : OnPath(n)' <=> OnPath(n) \/ n = node
  BY ListedSince DEF Gathers
<1>5. PICK o \in Outputs : o = OutputOf[node]
  BY <1>3, ReadTells
<1>6. Items(o) \in Seq(Nodes) /\ Within(Items(o), o) /\ Ordered(Items(o))
  BY DEF TypeOK, LedgerOK, FlowOK, Items, CollectInv, ItemsWithin, CollectedInOrder, Ordered
<1>7. Within(Items(o), o)' /\ Ordered(Items(o))'
  <2>1. CASE Items(o)' = Append(Items(o), node)
    <3>1. /\ Len(Items(o)) \in Nat /\ Len(Items(o)') = Len(Items(o)) + 1
          /\ \A i \in 1..Len(Items(o)) + 1 :
               Items(o)'[i] = IF i = Len(Items(o)) + 1 THEN node ELSE Items(o)[i]
      BY <1>1, <1>6, <2>1, AppendProperties
    <3>2. \A i \in 1..Len(Items(o)) + 1 : i = Len(Items(o)) + 1 \/ i \in 1..Len(Items(o))
      BY <3>1
    <3>3. Within(Items(o), o)'
      BY <1>1, <1>2, <1>4, <1>5, <1>6, <3>1, <3>2 DEF Within
    <3>4. \A i \in 1..Len(Items(o)) : Rank[Items(o)[i]] < Rank[node]
      BY <1>1, <1>2, <1>6 DEF Within, WayInv, ListedBehind
    <3>5. Ordered(Append(Items(o), node))
      BY <1>1, <1>6, <3>4, AppendKeepsOrder
    <3> QED
      BY <2>1, <3>3, <3>5
  <2>2. CASE Items(o)' \in {<<>>, <<node>>}
    <3>1. Ordered(Items(o))'
      BY <1>1, <2>2, SingleOrdered DEF Ordered
    <3>2. \A i \in 1..Len(Items(o)') : Items(o)'[i] = node
      BY <2>2
    <3> QED
      BY <1>1, <1>4, <1>5, <3>1, <3>2 DEF Within
  <2> QED
    BY <1>3, <1>5, <2>1, <2>2, ReadTells DEF Items
<1>8. ASSUME NEW p \in Outputs, p # o
      PROVE  Within(Items(p), p)' /\ Ordered(Items(p))'
  <2>1. Items(p)' = Items(p)
    BY <1>3, <1>5, <1>8, ReadTells DEF Items
  <2>2. Within(Items(p), p) /\ Ordered(Items(p))
    BY DEF CollectInv, ItemsWithin, CollectedInOrder, Ordered, Items
  <2> QED
    BY <1>2, <1>4, <2>1, <2>2 DEF Within
<1>9. ItemsWithin' /\ CollectedInOrder'
  BY <1>7, <1>8 DEF ItemsWithin, CollectedInOrder, Ordered, Items
<1>10. WrittenByReads'
  <2> SUFFICES ASSUME NEW p \in Outputs, outputs'[p].state # "absent"
               PROVE  \E n \in ReadNodes : OutputOf[n] = p /\ OnPath(n)'
    BY DEF WrittenByReads
  <2>1. CASE p = o
    BY <1>1, <1>4, <1>5, <2>1
  <2>2. CASE p # o
    <3>1. outputs[p].state # "absent"
      BY <1>3, <1>5, <2>2, ReadTells
    <3> QED
      BY <1>2, <1>4, <3>1 DEF CollectInv, WrittenByReads
  <2> QED
    BY <2>1, <2>2
<1>11. AppendedOnPath'
  <2>1. \A n \in appended' : n \in appended \/ (n = node /\ node \in AppendNodes)
    BY <1>3, ReadTells
  <2>2. AppendNodes \subseteq Nodes
    BY <1>2, OutputAssumption
  <2> QED
    BY <1>1, <1>4, <2>1, <2>2 DEF CollectInv, AppendedOnPath
<1> QED
  BY <1>9, <1>10, <1>11 DEF CollectInv

LEMMA CollectStep == TypeOK /\ WayInv /\ CollectInv /\ [Next]_vars => CollectInv'
<1> SUFFICES ASSUME TypeOK, WayInv, CollectInv, [Next]_vars
             PROVE  CollectInv'
  OBVIOUS
<1>1. CASE KeepsReads
  <2>1. \A n \in Nodes : OnPath(n) => OnPath(n)'
    BY <1>1, ListedSince DEF KeepsReads, OnPath
  <2>2. ReadNodes \subseteq Nodes /\ AppendNodes \subseteq ReadNodes
    BY OutputAssumption DEF ReadNodes, ActionNodes
  <2>3. ItemsWithin' /\ CollectedInOrder'
    BY <1>1, <2>1, <2>2
    DEF KeepsReads, CollectInv, ItemsWithin, Within, Items, CollectedInOrder
  <2>4. WrittenByReads' /\ AppendedOnPath'
    BY <1>1, <2>1, <2>2 DEF KeepsReads, CollectInv, WrittenByReads, AppendedOnPath
  <2> QED
    BY <2>3, <2>4 DEF CollectInv
<1>2. CASE Forgets
  BY <1>2 DEF Forgets, CollectInv, ItemsWithin, WrittenByReads, AppendedOnPath, CollectedInOrder,
              NothingCollected, Absent, Within, Items
<1> QED
  BY <1>1, <1>2, GatherCollects, ReadSteps

(* Every output was read in this flow, by a node that the path lists: for  *)
(* every graph and every budget nothing outlives a restart.                *)
THEOREM OutputsAreOfThisFlow == Spec => []OutputsOfThisFlow
<1>1. CollectInv => OutputsOfThisFlow
  BY DEF CollectInv, ItemsWithin, WrittenByReads, Within, Items, OutputsOfThisFlow
<1> QED
  BY <1>1, InitType, TypeStep, InitBacked, BackedStep, InitWay, WayStep, InitCollect, CollectStep,
     PTL DEF Spec

-----------------------------------------------------------------------------
(***************************************************************************)
(* What an append node collected stays.  artifact.validate does not rule   *)
(* out that a later node reads the same output in "set" mode, or as an     *)
(* optional single value, which replaces the list: the run append_lost     *)
(* shows it, and the theorem takes the graphs without such a node.         *)
(***************************************************************************)

(* y is x or lies ahead of it: every set of nodes that contains x and the  *)
(* targets of its members' edges contains y.                               *)
Reaches(x, y) ==
  \A S \in SUBSET Nodes : x \in S /\ (\A z \in S : Successors(z) \subseteq S) => y \in S

AppendsStand ==
  \A n \in AppendNodes, m \in ReadNodes :
    m # n /\ Reaches(n, m) /\ OutputOf[m] = OutputOf[n] =>
      /\ m \in AppendNodes
      /\ Action[m] = "extract" => OutputOf[m] \notin OptionalOutputs

LEMMA ReachesItself == \A n \in Nodes : Reaches(n, n)
  BY DEF Reaches

LEMMA ReachesOn ==
  ASSUME NEW x \in Nodes, NEW y \in Nodes, Reaches(x, y), NEW z \in Successors(y)
  PROVE  Reaches(x, z)
  BY DEF Reaches

(* Whatever the path lists, the walk came from.                            *)
PathReaches == \A n \in Nodes : OnPath(n) => Reaches(n, node)

LEMMA ReachStep == TypeOK /\ BackedInv /\ WayInv /\ PathReaches /\ [Next]_vars => PathReaches'
<1> SUFFICES ASSUME TypeOK, BackedInv, WayInv, PathReaches, [Next]_vars
             PROVE  PathReaches'
  OBVIOUS
<1>0. node \in Nodes
  BY DEF TypeOK, ControlOK
<1>1. CASE Moves
  <2>1. UNCHANGED executed_path /\ node' \in Successors(node)
    BY <1>1 DEF Moves
  <2> QED
    BY <1>0, <2>1, ReachesOn DEF PathReaches, OnPath
<1>2. CASE Lists
  <2>1. /\ \A n \in Nodes : OnPath(n)' => OnPath(n) \/ n = node
        /\ UNCHANGED node
    BY <1>2, ListedSince DEF Lists
  <2> QED
    BY <1>0, <2>1, ReachesItself DEF PathReaches
<1>3. CASE Begins
  <2>1. executed_path' = <<>>
    BY <1>3 DEF Begins, WayInv, NothingListed, Phase
  <2> QED
    BY <2>1 DEF PathReaches, OnPath
<1>4. CASE Restarts
  BY <1>4 DEF Restarts, PathReaches, OnPath
<1>5. CASE UNCHANGED <<node, executed_path>>
  BY <1>5 DEF PathReaches, OnPath
<1> QED
  BY <1>1, <1>2, <1>3, <1>4, <1>5, Shapes
  DEF Shaped, Waits, Sorts, Carries, Hands, Ends, kept, vars, place, flow

LEMMA GatherKeeps ==
  ASSUME AppendsStand, TypeOK, WayInv, CollectInv, PathReaches, CollectedKept, Gathers
  PROVE  CollectedKept'
<1>1. node \in ReadNodes /\ node \in Nodes /\ ~OnPath(node)
  BY FirstListing DEF Gathers, ReadNodes, ActionNodes
<1>2. node \notin appended
  BY <1>1 DEF CollectInv, AppendedOnPath
<1> SUFFICES ASSUME NEW n \in appended'
             PROVE  \E i \in 1..Len(outputs'[OutputOf[n]].items) : outputs'[OutputOf[n]].items[i] = n
  BY DEF CollectedKept
<1>3. PICK o \in Outputs : o = OutputOf[node]
  BY <1>2, ReadTells
<1>4. Items(o) \in Seq(Nodes)
  BY DEF TypeOK, LedgerOK, FlowOK, Items
<1>5. /\ Len(Append(Items(o), node)) = Len(Items(o)) + 1 /\ Len(Items(o)) \in Nat
      /\ \A i \in 1..Len(Items(o)) + 1 :
           Append(Items(o), node)[i] = IF i = Len(Items(o)) + 1 THEN node ELSE Items(o)[i]
  BY <1>1, <1>4, AppendProperties
<1>6. CASE n \in appended
  <2>1. /\ n \in AppendNodes /\ n \in ReadNodes /\ n \in Nodes /\ n # node /\ Reaches(n, node)
        /\ OutputOf[n] \in Outputs
    BY <1>1, <1>6, OutputAssumption DEF CollectInv, AppendedOnPath, PathReaches, ReadNodes, ActionNodes
  <2>2. PICK i \in 1..Len(Items(OutputOf[n])) : Items(OutputOf[n])[i] = n
    BY <1>6 DEF CollectedKept, Items
  <2>3. CASE OutputOf[n] = o
    <3>1. node \in AppendNodes /\ (Action[node] = "extract" => o \notin OptionalOutputs)
      BY <1>1, <1>3, <2>1, <2>3 DEF AppendsStand
    <3>2. outputs'[o].items = Append(Items(o), node)
      BY <1>2, <1>3, <3>1, ReadTells
    <3>3. i \in 1..Len(outputs'[o].items) /\ outputs'[o].items[i] = n
      BY <1>5, <2>2, <2>3, <3>2
    <3> QED
      BY <2>3, <3>3
  <2>4. CASE OutputOf[n] # o
    BY <1>2, <1>3, <2>1, <2>2, <2>4, ReadTells DEF Items
  <2> QED
    BY <2>3, <2>4
<1>7. CASE n \notin appended
  <2>1. n = node /\ outputs'[o].items = Append(Items(o), node)
    BY <1>2, <1>3, <1>7, ReadTells
  <2>2. Len(Items(o)) + 1 \in 1..Len(outputs'[o].items) /\ outputs'[o].items[Len(Items(o)) + 1] = n
    BY <1>5, <2>1
  <2> QED
    BY <1>3, <2>1, <2>2
<1> QED
  BY <1>6, <1>7

LEMMA KeptStep ==
  AppendsStand /\ TypeOK /\ WayInv /\ CollectInv /\ PathReaches /\ CollectedKept /\ [Next]_vars
    => CollectedKept'
<1> SUFFICES ASSUME AppendsStand, TypeOK, WayInv, CollectInv, PathReaches, CollectedKept, [Next]_vars
             PROVE  CollectedKept'
  OBVIOUS
<1>1. CASE KeepsReads
  BY <1>1 DEF KeepsReads, CollectedKept
<1>2. CASE Forgets
  BY <1>2 DEF Forgets, CollectedKept
<1> QED
  BY <1>1, <1>2, GatherKeeps, ReadSteps

(* A list holds what each append node read, once each and in the order of  *)
(* the graph, however often a node was attempted and the flow restarted.   *)
THEOREM EachReadCollectedOnce ==
  ASSUME AppendsStand
  PROVE  Spec => []CollectedExactlyOnce
<1>1. Init => PathReaches /\ CollectedKept
  BY DEF Init, PathReaches, CollectedKept, OnPath
<1>2. CollectInv /\ CollectedKept => CollectedExactlyOnce
  BY DEF CollectInv, AppendedOnPath, ReadsAreAppended, CollectedExactlyOnce
<1>3. TypeOK /\ WayInv /\ CollectInv /\ PathReaches /\ CollectedKept /\ [Next]_vars => CollectedKept'
  BY KeptStep
<1> QED
  BY <1>1, <1>2, <1>3, InitType, TypeStep, InitBacked, BackedStep, InitWay, WayStep, InitCollect,
     CollectStep, ReachStep, PTL DEF Spec
=============================================================================
