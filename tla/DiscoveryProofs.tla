--------------------------- MODULE DiscoveryProofs ---------------------------
(***************************************************************************)
(* Theorems about Discovery, for every planner, page, policy and person:   *)
(* what was dispatched and left no proof is not dispatched again, no       *)
(* visual action follows a visual action without proof, no effect of the   *)
(* automation escapes both the recording and the person, the outputs hold  *)
(* what the recorded nodes read, of lists that belong together a whole     *)
(* column is read first, and the recording is one path.                    *)
(***************************************************************************)
EXTENDS Discovery, SequenceTheorems, WellFoundedInduction, TLAPS

\* The frame conditions of Discovery.
USE DEF vars, turnVars, counters, window, recorder, people, run, history

LEMMA ActionsOfNext ==
  ASSUME [Next]_vars
  PROVE  \/ UNCHANGED vars
         \/ EnterPage \/ Look \/ Stop \/ DecideAction \/ DecideStuck \/ Done
         \/ RefuseRepeat \/ FailBeforeActing \/ NotActionable \/ SelectionAmbiguous \/ Dispatch \/ BeginRead
         \/ ProveLost \/ LostUnproven \/ Verified \/ Unproven \/ VisualUnproven \/ LookEscapes
         \/ ReadRecorded \/ ReadFailed
         \/ PersonActs \/ HandBack \/ Unrecordable \/ Restarts \/ ShowControlsFails \/ Aborts
         \/ StartAgain \/ GiveUp
  BY DEF Next, Automation, Planner, Attempt, Verify, Person, Finished

-----------------------------------------------------------------------------
(* Shapes: the fields of the records stay. *)

ShapeInv ==
    /\ handoff = [why |-> handoff.why, done |-> handoff.done]
    /\ vision = [attempts |-> vision.attempts, last |-> vision.last, unproven |-> vision.unproven]
    /\ act = [id |-> act.id, warn |-> act.warn, from |-> act.from, happened |-> act.happened,
              lost |-> act.lost, noexpect |-> act.noexpect]

\* What a judged action does to the session, whoever proposed it.
LEMMA JudgeTells ==
  ASSUME NEW a \in Actions, Judge(a)
  PROVE  \/ pc' \in {"turn", "failed"} /\ act' = NoAct /\ UNCHANGED <<handoff, unseen>>
         \/ pc' = "handoff" /\ act' = NoAct /\ handoff' = [why |-> "loop", done |-> <<>>] /\ unseen' = FALSE
         \/ /\ \E w \in BOOLEAN : act' = [NoAct EXCEPT !.id = a, !.warn = w]
            /\ \/ pc' = "attempt" /\ UNCHANGED <<handoff, unseen>>
               \/ pc' = "handoff" /\ handoff' = [why |-> "confirm", done |-> <<>>] /\ unseen' = FALSE
<1> DEFINE loop == LoopVerdict(entries, warned, EntryOf(a))
<1>1. CASE Verdict[a] = "deny"
  <2>1. Denied
    BY <1>1 DEF Judge
  <2> QED
    BY <2>1 DEF Denied, End, NextTurn
<1>2. CASE Verdict[a] # "deny" /\ (loop = "stop" \/ (loop = "warn" /\ Verdict[a] = "confirm"))
  <2>1. AskPerson("loop") /\ act' = NoAct
    BY <1>2 DEF Judge
  <2> QED
    BY <2>1 DEF AskPerson
<1>3. CASE Verdict[a] # "deny" /\ ~(loop = "stop" \/ (loop = "warn" /\ Verdict[a] = "confirm"))
  <2>1. /\ act' = [NoAct EXCEPT !.id = a, !.warn = (loop = "warn")]
        /\ \/ AskPerson("confirm")
           \/ pc' = "attempt" /\ UNCHANGED <<people, unseen>>
    BY <1>3 DEF Judge
  <2> HIDE DEF loop
  <2> QED
    BY <2>1 DEF AskPerson
<1> QED
  BY <1>1, <1>2, <1>3

\* A stuck state goes to vision, which spends an attempt and may propose a visual action, or to a person.
LEMMA StuckTells ==
  ASSUME DecideStuck
  PROVE  \/ /\ vision' = [vision EXCEPT !.attempts = @ + 1, !.last = seen] /\ VisionMayLook
            /\ \E a \in Visual : Judge(a)
         \/ /\ vision' \in {vision, [vision EXCEPT !.attempts = @ + 1, !.last = seen]}
            /\ vision' = vision \/ VisionMayLook
            /\ AskPerson("stuck") /\ act' = NoAct
  BY DEF DecideStuck, StuckProposal, StuckToPerson, Proposes

-----------------------------------------------------------------------------
(* What was dispatched without proof. *)

\* The person has been told of the action in work, and the caller has not dealt with the answer yet.
Outstanding(k) == pc = "handoff" /\ handoff.why \in {"lost", "visual"} /\ k = Key(act.id)

BlindInv ==
    /\ ShapeInv
    /\ pc \notin Over \cup {"restart"} => \A k \in blind : k \in unverified \/ Outstanding(k)

LEMMA BlindInit == Init => BlindInv
  BY DEF Init, BlindInv, ShapeInv, NoHandoff, NoVision, NoAct

\* The forms in which a step writes the three records.
ActKept ==
    \/ act' = act \/ act' = NoAct
    \/ act' = [act EXCEPT !.from = screen]
    \/ \E w \in BOOLEAN : act' = [act EXCEPT !.from = screen, !.happened = w]
    \/ act' = [act EXCEPT !.lost = TRUE] \/ act' = [act EXCEPT !.lost = TRUE, !.noexpect = TRUE]
    \/ \E a \in Actions, w \in BOOLEAN : act' = [NoAct EXCEPT !.id = a, !.warn = w]
HandoffKept ==
    \/ handoff' = handoff \/ handoff' = NoHandoff
    \/ \E y : handoff' = [why |-> y, done |-> <<>>]
    \/ \E d : handoff' = [handoff EXCEPT !.done = d]
VisionKept ==
    \/ vision' = vision \/ vision' = NoVision
    \/ vision' = [vision EXCEPT !.attempts = @ + 1, !.last = seen]
    \/ vision' = [vision EXCEPT !.attempts = MaxVision, !.unproven = TRUE]

LEMMA ShapeKept ==
  ASSUME ShapeInv, ActKept, HandoffKept, VisionKept
  PROVE  ShapeInv'
<1>1. handoff' = [why |-> handoff'.why, done |-> handoff'.done]
  BY DEF ShapeInv, HandoffKept, NoHandoff
<1>2. vision' = [attempts |-> vision'.attempts, last |-> vision'.last, unproven |-> vision'.unproven]
  BY DEF ShapeInv, VisionKept, NoVision
<1>3. act' = [id |-> act'.id, warn |-> act'.warn, from |-> act'.from, happened |-> act'.happened,
              lost |-> act'.lost, noexpect |-> act'.noexpect]
  BY DEF ShapeInv, ActKept, NoAct
<1> QED
  BY <1>1, <1>2, <1>3 DEF ShapeInv

LEMMA JudgeKeeps ==
  ASSUME NEW a \in Actions, Judge(a)
  PROVE  ActKept /\ HandoffKept
  BY JudgeTells DEF ActKept, HandoffKept

LEMMA FailureKeeps ==
  ASSUME CountFailure
  PROVE  ActKept /\ HandoffKept
  BY DEF CountFailure, AskPerson, NextTurn, End, ActKept, HandoffKept

LEMMA ShapeStep ==
  ASSUME ShapeInv, [Next]_vars
  PROVE  ShapeInv'
<1> SUFFICES ActKept /\ HandoffKept /\ VisionKept
  BY ShapeKept
<1>1. CASE UNCHANGED vars \/ EnterPage \/ Look \/ Stop \/ Done \/ GiveUp
  BY <1>1 DEF EnterPage, Look, Stop, OutOfTurns, PageKeepsFailing, Done, DoneAccepted, DoneRejected, GiveUp, End, NextTurn,
              ActKept, HandoffKept, VisionKept
<1>2. CASE DecideAction
  <2>1. UNCHANGED vision /\ \E a \in Actions : Judge(a)
    BY <1>2 DEF DecideAction
  <2> QED
    BY <2>1, JudgeKeeps DEF VisionKept
<1>3. CASE DecideStuck
  <2>1. VisionKept
    BY <1>3, StuckTells DEF VisionKept
  <2>2. CASE \E a \in Visual : Judge(a)
    BY <2>1, <2>2, JudgeKeeps, ActionAssumption DEF ActionAssumption
  <2>3. CASE AskPerson("stuck") /\ act' = NoAct
    BY <2>1, <2>3 DEF AskPerson, ActKept, HandoffKept
  <2> QED
    BY <1>3, <2>2, <2>3, StuckTells
<1>4. CASE RefuseRepeat
  BY <1>4 DEF RefuseRepeat, AskPerson, ActKept, HandoffKept, VisionKept
<1>5. CASE FailBeforeActing \/ SelectionAmbiguous
  BY <1>5, FailureKeeps DEF FailBeforeActing, SelectionAmbiguous, VisionKept
<1>6. CASE NotActionable \/ BeginRead
  BY <1>6 DEF NotActionable, BeginRead, NextTurn, End, ActKept, HandoffKept, VisionKept
<1>7. CASE Dispatch
  BY <1>7 DEF Dispatch, ActKept, HandoffKept, VisionKept
<1>8. CASE ProveLost \/ Verified \/ LookEscapes \/ ReadRecorded
  BY <1>8 DEF ProveLost, Verified, LookEscapes, ReadRecorded, NextTurn, End, ActKept, HandoffKept, VisionKept
<1>9. CASE LostUnproven \/ VisualUnproven
  BY <1>9 DEF LostUnproven, VisualUnproven, AskPerson, ActKept, HandoffKept, VisionKept
<1>10. CASE Unproven
  BY <1>10 DEF Unproven, AskPerson, NextTurn, End, ActKept, HandoffKept, VisionKept
<1>11. CASE ReadFailed
  BY <1>11 DEF ReadFailed, AskPerson, NextTurn, End, ActKept, HandoffKept, VisionKept
<1>12. CASE PersonActs
  BY <1>12 DEF PersonActs, ActKept, HandoffKept, VisionKept
<1>13. CASE Unrecordable \/ Restarts \/ ShowControlsFails \/ Aborts \/ StartAgain
  BY <1>13 DEF Unrecordable, Restarts, ShowControlsFails, Aborts, StartAgain, End, ActKept, HandoffKept, VisionKept
<1>14. CASE HandBack
  <2>1. UNCHANGED vision /\ (act' = act \/ act' = NoAct)
    BY <1>14 DEF HandBack, Continue, NextTurn, End, AskPerson
  <2> QED
    BY <1>14, <2>1 DEF HandBack, ActKept, HandoffKept, VisionKept
<1> QED
  BY <1>1, <1>2, <1>3, <1>4, <1>5, <1>6, <1>7, <1>8, <1>9, <1>10, <1>11, <1>12, <1>13, <1>14, ActionsOfNext

LEMMA DecideTells ==
  ASSUME DecideAction \/ DecideStuck
  PROVE  /\ pc = "decide" /\ UNCHANGED <<blind, unverified>>
         /\ pc' \in {"turn", "failed", "attempt", "handoff"}
         /\ pc' = "handoff" => handoff'.why \in {"loop", "confirm", "stuck"}
<1>1. pc = "decide" /\ UNCHANGED <<blind, unverified>>
  BY DEF DecideAction, DecideStuck
<1>2. CASE \E a \in Actions : Judge(a)
  <2>1. \/ pc' \in {"turn", "failed", "attempt"}
        \/ pc' = "handoff" /\ handoff' = [why |-> "loop", done |-> <<>>]
        \/ pc' = "handoff" /\ handoff' = [why |-> "confirm", done |-> <<>>]
    BY <1>2, JudgeTells
  <2> QED
    BY <1>1, <2>1
<1>3. CASE AskPerson("stuck")
  BY <1>1, <1>3 DEF AskPerson
<1>4. CASE DecideAction
  BY <1>4, <1>2 DEF DecideAction
<1>5. CASE DecideStuck
  <2>1. Visual \subseteq Actions
    BY ActionAssumption DEF ActionAssumption
  <2> QED
    BY <1>5, <2>1, <1>2, <1>3, StuckTells
<1> QED
  BY <1>4, <1>5

\* A step of the automation that is not about an unproven action leaves both records as they are, or clears both.
LEMMA OtherStepsTell ==
  ASSUME \/ EnterPage \/ Look \/ Stop \/ DecideAction \/ DecideStuck \/ Done
         \/ RefuseRepeat \/ FailBeforeActing \/ NotActionable \/ SelectionAmbiguous \/ Dispatch \/ BeginRead
         \/ ProveLost \/ Verified \/ LookEscapes \/ ReadRecorded \/ ReadFailed
  PROVE  /\ pc \notin Over \cup {"restart", "handoff"}
         /\ UNCHANGED <<blind, unverified>> \/ blind' = {}
<1> USE DEF Over
<1>1. CASE EnterPage \/ Look \/ Stop \/ Done
  BY <1>1 DEF EnterPage, Look, Stop, OutOfTurns, PageKeepsFailing, Done, DoneAccepted, DoneRejected
<1>2. CASE DecideAction \/ DecideStuck
  BY <1>2, DecideTells
<1>3. CASE RefuseRepeat \/ FailBeforeActing \/ NotActionable \/ SelectionAmbiguous \/ Dispatch \/ BeginRead
  BY <1>3 DEF RefuseRepeat, FailBeforeActing, NotActionable, SelectionAmbiguous, Dispatch, BeginRead, Ready
<1>4. CASE ProveLost \/ LookEscapes
  BY <1>4 DEF ProveLost, LookEscapes
<1>5. CASE Verified
  <2>1. pc = "verify" /\ \E p, c : Record(p, c)
    BY <1>5 DEF Verified
  <2>2. \E ns, grown : Conclude(ns, grown)
    BY <2>1 DEF Record
  <2> QED
    BY <2>1, <2>2 DEF Conclude
<1>6. CASE ReadRecorded
  <2>1. pc = "verify" /\ \E ns, grown : Conclude(ns, grown)
    BY <1>6 DEF ReadRecorded
  <2> QED
    BY <2>1 DEF Conclude
<1>7. CASE ReadFailed
  BY <1>7 DEF ReadFailed, Conclude
<1> QED
  BY <1>1, <1>2, <1>3, <1>4, <1>5, <1>6, <1>7

LEMMA HandBackTells ==
  ASSUME HandBack
  PROVE  /\ pc = "handoff" /\ UNCHANGED seen
         /\ CASE handoff.why = "lost" -> blind' = blind \ {Key(act.id)} /\ unverified' = unverified
              [] handoff.why = "visual" -> blind' = blind /\ unverified' = unverified \cup {Key(act.id)}
              [] OTHER -> blind' = blind /\ unverified' = unverified
<1>1. PICK answer : Continue(answer)
  BY DEF HandBack
<1> QED
  BY <1>1 DEF HandBack, Continue, NextTurn, End

LEMMA BlindStep ==
  ASSUME BlindInv, [Next]_vars, ~Fleeting
  PROVE  BlindInv'
<1> DEFINE Known == pc \notin Over \cup {"restart"} => \A k \in blind : k \in unverified \/ Outstanding(k)
<1> SUFFICES Known'
  BY ShapeStep DEF BlindInv
<1>0. Known /\ ShapeInv
  BY DEF BlindInv
<1>1. CASE UNCHANGED vars
  BY <1>0, <1>1 DEF Outstanding, Key
<1>2. CASE \/ EnterPage \/ Look \/ Stop \/ DecideAction \/ DecideStuck \/ Done
           \/ RefuseRepeat \/ FailBeforeActing \/ NotActionable \/ SelectionAmbiguous \/ Dispatch \/ BeginRead
           \/ ProveLost \/ Verified \/ LookEscapes \/ ReadRecorded \/ ReadFailed
  BY <1>0, <1>2, OtherStepsTell DEF Outstanding
<1>3. CASE LostUnproven
  <2>1. /\ pc = "prove" /\ pc' = "handoff" /\ handoff' = [why |-> "lost", done |-> <<>>]
        /\ blind' = blind \cup {Key(act.id)} /\ UNCHANGED <<act, seen, unverified>>
    BY <1>3 DEF LostUnproven, AskPerson
  <2> QED
    BY <2>1, <1>0 DEF Outstanding, Key, Over
<1>4. CASE VisualUnproven
  <2>1. /\ pc = "verify" /\ pc' = "handoff" /\ handoff' = [why |-> "visual", done |-> <<>>]
        /\ blind' = blind \cup {Key(act.id)} /\ UNCHANGED <<act, seen, unverified>>
    BY <1>4 DEF VisualUnproven, AskPerson
  <2> QED
    BY <2>1, <1>0 DEF Outstanding, Key, Over
<1>5. CASE Unproven
  <2>1. /\ pc = "verify" /\ blind' = blind \cup {Key(act.id)}
        /\ unverified' = unverified \cup {Key(act.id)}
    BY <1>5 DEF Unproven, MayBeContradicted
  <2> QED
    BY <2>1, <1>0 DEF Outstanding, Over
<1>6. CASE PersonActs
  <2>1. handoff'.why = handoff.why /\ UNCHANGED <<pc, act, seen, unverified, blind>>
    BY <1>6, <1>0 DEF PersonActs, ShapeInv
  <2> QED
    BY <2>1, <1>0 DEF Outstanding, Key
<1>7. CASE HandBack
  <2>1. \A k \in blind : k \in unverified \/ (handoff.why \in {"lost", "visual"} /\ k = Key(act.id))
    BY <1>0, <1>7, HandBackTells DEF Outstanding, Over
  <2>2. \A k \in blind' : k \in unverified'
    BY <2>1, <1>7, HandBackTells
  <2> QED
    BY <2>2
<1>8. CASE Unrecordable \/ Restarts \/ ShowControlsFails \/ Aborts \/ GiveUp
  BY <1>8 DEF Unrecordable, Restarts, ShowControlsFails, Aborts, GiveUp, End, Over
<1>9. CASE StartAgain
  BY <1>9 DEF StartAgain
<1> QED
  BY <1>1, <1>2, <1>3, <1>4, <1>5, <1>6, <1>7, <1>8, <1>9, ActionsOfNext

\* agent.py: a performed action nothing can prove is never dispatched a second time, at the same address and before
\* something measurable changed, whatever the planner asks for and whoever answers.  A text that is gone again when
\* the outcome of a lost action is looked at is the exception (README, 5).
THEOREM NothingBlind ==
  ASSUME ~Fleeting
  PROVE  Spec => NoBlindRepeat
<1>1. BlindInv /\ [Next]_vars => [Dispatch => Key(act.id) \notin blind]_vars
  BY DEF BlindInv, Outstanding, Dispatch, Ready, Over
<1>2. BlindInv /\ [Next]_vars => BlindInv'
  BY BlindStep
<1> QED
  BY <1>1, <1>2, BlindInit, PTL DEF Spec, NoBlindRepeat

-----------------------------------------------------------------------------
(* The visual actions. *)

\* The action in work, judged or waiting for a confirmation.
Judged == pc = "attempt" \/ (pc = "handoff" /\ handoff.why = "confirm")

VisionInv ==
    /\ ShapeInv
    /\ vision.unproven \in BOOLEAN
    /\ vision.unproven => vision.attempts = MaxVision
    /\ Judged /\ act.id \in Visual => ~vision.unproven

LEMMA VisionInit == Init => VisionInv
  BY DEF Init, VisionInv, ShapeInv, Judged, NoHandoff, NoVision, NoAct

\* Once a visual action went unproven, the budget of the session is spent, and no stuck state goes to vision.
LEMMA StuckKeeps ==
  ASSUME VisionInv, DecideStuck
  PROVE  /\ vision'.unproven = vision.unproven /\ (vision.unproven => vision' = vision)
         /\ \/ ~vision.unproven
            \/ AskPerson("stuck")
<1>1. MaxVision \in Nat
  BY BoundAssumption DEF BoundAssumption
<1>2. VisionMayLook => ~vision.unproven
  BY <1>1 DEF VisionMayLook, VisionInv
<1>3. vision' \in {vision, [vision EXCEPT !.attempts = @ + 1, !.last = seen]}
  BY StuckTells
<1>4. vision'.unproven = vision.unproven
  BY <1>3 DEF VisionInv, ShapeInv
<1> QED
  BY <1>2, <1>4, StuckTells

LEMMA VisionStep ==
  ASSUME VisionInv, [Next]_vars
  PROVE  VisionInv'
<1> DEFINE Rest == /\ vision.unproven \in BOOLEAN
                   /\ vision.unproven => vision.attempts = MaxVision
                   /\ Judged /\ act.id \in Visual => ~vision.unproven
<1> SUFFICES Rest'
  BY ShapeStep DEF VisionInv
<1>0. Rest /\ ShapeInv
  BY DEF VisionInv
<1>1. CASE UNCHANGED vars
  BY <1>0, <1>1 DEF Judged
<1>2. CASE EnterPage \/ Look \/ Stop \/ Done \/ GiveUp
  <2>1. UNCHANGED vision /\ pc' \in Over \cup {"turn", "decide"}
    BY <1>2 DEF EnterPage, Look, Stop, OutOfTurns, PageKeepsFailing, Done, DoneAccepted, DoneRejected, GiveUp, End, NextTurn, Over
  <2> QED
    BY <2>1, <1>0 DEF Judged, Over
<1>3. CASE DecideAction
  <2>1. PICK a \in Actions \ Visual : Judge(a)
    BY <1>3 DEF DecideAction
  <2>2. UNCHANGED vision
    BY <1>3 DEF DecideAction
  <2>3. Judged' => act'.id = a
    <3>1. CASE pc' \in {"turn", "failed"}
      BY <3>1 DEF Judged
    <3>2. CASE pc' = "handoff" /\ handoff' = [why |-> "loop", done |-> <<>>]
      BY <3>2 DEF Judged
    <3>3. CASE \E w \in BOOLEAN : act' = [NoAct EXCEPT !.id = a, !.warn = w]
      BY <3>3 DEF NoAct
    <3> QED
      BY <2>1, <3>1, <3>2, <3>3, JudgeTells
  <2> QED
    BY <2>1, <2>2, <2>3, <1>0
<1>4. CASE DecideStuck
  <2>1. CASE vision.unproven
    <3>1. pc' = "handoff" /\ handoff'.why = "stuck" /\ vision' = vision
      BY <1>4, <2>1, StuckKeeps DEF AskPerson
    <3> QED
      BY <3>1, <1>0 DEF Judged
  <2>2. CASE ~vision.unproven
    BY <1>4, <2>2, StuckKeeps, <1>0
  <2> QED
    BY <2>1, <2>2
<1>5. CASE RefuseRepeat \/ NotActionable \/ Dispatch \/ BeginRead
  <2>1. /\ UNCHANGED vision
        /\ \/ pc' \in {"turn", "verify", "prove"}
           \/ pc' = "handoff" /\ handoff' = [why |-> "refused", done |-> <<>>]
    BY <1>5 DEF RefuseRepeat, NotActionable, Dispatch, BeginRead, AskPerson, End, NextTurn
  <2> QED
    BY <2>1, <1>0 DEF Judged
<1>6. CASE FailBeforeActing \/ SelectionAmbiguous
  <2>1. /\ UNCHANGED vision
        /\ \/ pc' = "turn"
           \/ pc' = "handoff" /\ handoff' = [why |-> "failing", done |-> <<>>]
    BY <1>6 DEF FailBeforeActing, SelectionAmbiguous, CountFailure, AskPerson, End, NextTurn
  <2> QED
    BY <2>1, <1>0 DEF Judged
<1>7. CASE ProveLost \/ Verified \/ LookEscapes \/ ReadRecorded
  <2>1. UNCHANGED vision /\ pc' \in {"turn", "verify", "escaped"}
    BY <1>7 DEF ProveLost, Verified, LookEscapes, ReadRecorded, End, NextTurn
  <2> QED
    BY <2>1, <1>0 DEF Judged
<1>8. CASE LostUnproven \/ Unproven \/ ReadFailed
  <2>1. /\ UNCHANGED vision
        /\ \/ pc' = "turn"
           \/ \E y \in {"lost", "unverified", "unread"} : pc' = "handoff" /\ handoff' = [why |-> y, done |-> <<>>]
    BY <1>8 DEF LostUnproven, Unproven, ReadFailed, AskPerson, End, NextTurn
  <2> QED
    BY <2>1, <1>0 DEF Judged
<1>9. CASE VisualUnproven
  <2>1. /\ vision' = [vision EXCEPT !.attempts = MaxVision, !.unproven = TRUE]
        /\ pc' = "handoff" /\ handoff' = [why |-> "visual", done |-> <<>>]
    BY <1>9 DEF VisualUnproven, AskPerson
  <2> QED
    BY <2>1, <1>0 DEF Judged, ShapeInv
<1>10. CASE PersonActs
  <2>1. handoff'.why = handoff.why /\ UNCHANGED <<pc, act, vision>>
    BY <1>10, <1>0 DEF PersonActs, ShapeInv
  <2> QED
    BY <2>1, <1>0 DEF Judged
<1>11. CASE HandBack
  <2>1. PICK answer : Continue(answer)
    BY <1>11 DEF HandBack
  <2>2. UNCHANGED vision
    BY <1>11 DEF HandBack
  <2>3. CASE handoff.why = "confirm" /\ answer = "approve"
    <3>1. Judged /\ UNCHANGED act
      BY <2>1, <2>3, <1>11 DEF Continue, HandBack, Judged
    <3> QED
      BY <3>1, <2>2, <1>0
  <2>4. CASE ~(handoff.why = "confirm" /\ answer = "approve")
    <3>1. pc' = "turn" \/ (pc' = "handoff" /\ handoff.why = "visual")
      BY <2>1, <2>4 DEF Continue, NextTurn, End, AskPerson
    <3>2. pc' = "handoff" => handoff'.why = "unverified"
      BY <3>1, <1>11 DEF HandBack
    <3> QED
      BY <3>1, <3>2, <2>2, <1>0 DEF Judged
  <2> QED
    BY <2>3, <2>4
<1>12. CASE Unrecordable \/ Restarts \/ ShowControlsFails \/ Aborts
  <2>1. UNCHANGED vision /\ pc' \in Over \cup {"restart"}
    BY <1>12 DEF Unrecordable, Restarts, ShowControlsFails, Aborts, End, Over
  <2> QED
    BY <2>1, <1>0 DEF Judged, Over
<1>13. CASE StartAgain
  BY <1>13 DEF StartAgain, Judged, NoVision
<1> QED
  BY <1>1, <1>2, <1>3, <1>4, <1>5, <1>6, <1>7, <1>8, <1>9, <1>10, <1>11, <1>12, <1>13, ActionsOfNext

\* verify_vision_action: after a visual action without proof no visual action is dispatched in that session, neither
\* one that was confirmed before nor one that is proposed after it.
THEOREM UnprovenVisionStops == Spec => VisionStops
<1>1. VisionInv /\ [Next]_vars => [Dispatch /\ act.id \in Visual => ~vision.unproven]_vars
  BY DEF VisionInv, Judged, Dispatch, Ready
<1> QED
  BY <1>1, VisionInit, VisionStep, PTL DEF Spec, VisionStops

-----------------------------------------------------------------------------
(* Effects. *)

\* An effect nobody knows of is being verified right now, and it is no effect of a read.
EffectInv ==
    /\ ShapeInv
    /\ unseen => pc \in {"verify", "prove"} \cup Over
    /\ pc = "prove" \/ (pc = "verify" /\ unseen) => Kind[act.id] \notin READS

LEMMA EffectInit == Init => EffectInv
  BY DEF Init, EffectInv, ShapeInv, NoHandoff, NoVision, NoAct

\* Whatever the planner proposes, a person who is asked sees the page, and nothing else touches it.
LEMMA DecideSees ==
  ASSUME DecideAction \/ DecideStuck, ~unseen
  PROVE  ~unseen' /\ pc' \notin {"verify", "prove"}
<1>1. CASE \E a \in Actions : Judge(a)
  BY <1>1, JudgeTells
<1>2. CASE AskPerson("stuck")
  BY <1>2 DEF AskPerson
<1>3. CASE DecideAction
  BY <1>3, <1>1 DEF DecideAction
<1>4. CASE DecideStuck
  <2>1. Visual \subseteq Actions
    BY ActionAssumption DEF ActionAssumption
  <2> QED
    BY <1>4, <2>1, <1>1, <1>2, StuckTells
<1> QED
  BY <1>3, <1>4

LEMMA EffectStep ==
  ASSUME EffectInv, [Next]_vars, ~Fleeting
  PROVE  EffectInv'
<1> DEFINE Told == /\ unseen => pc \in {"verify", "prove"} \cup Over
                   /\ pc = "prove" \/ (pc = "verify" /\ unseen) => Kind[act.id] \notin READS
<1> SUFFICES Told'
  BY ShapeStep DEF EffectInv
<1>0. Told /\ ShapeInv
  BY DEF EffectInv
<1>1. CASE UNCHANGED vars
  BY <1>0, <1>1
<1>2. CASE EnterPage \/ Look \/ Stop \/ Done
  BY <1>0, <1>2 DEF EnterPage, Look, Stop, OutOfTurns, PageKeepsFailing, Done, DoneAccepted, DoneRejected, NextTurn, End, Over
<1>3. CASE DecideAction \/ DecideStuck
  <2>1. pc = "decide"
    BY <1>3, DecideTells
  <2> QED
    BY <1>0, <1>3, <2>1, DecideSees DEF Over
<1>4. CASE RefuseRepeat \/ FailBeforeActing \/ NotActionable \/ SelectionAmbiguous
  BY <1>0, <1>4 DEF RefuseRepeat, FailBeforeActing, NotActionable, SelectionAmbiguous, CountFailure, AskPerson, Ready, NextTurn, End, Over
<1>5. CASE Dispatch
  <2>1. Kind[act.id] \notin READS /\ pc' \in {"verify", "prove"} /\ act'.id = act.id
    BY <1>0, <1>5 DEF Dispatch, ShapeInv
  <2> QED
    BY <2>1
<1>6. CASE BeginRead
  BY <1>0, <1>6 DEF BeginRead, Ready, Over
<1>7. CASE ProveLost
  <2>1. pc = "prove" /\ pc' = "verify" /\ act'.id = act.id
    BY <1>0, <1>7 DEF ProveLost, ShapeInv
  <2> QED
    BY <1>0, <2>1
<1>8. CASE LostUnproven \/ VisualUnproven
  BY <1>8 DEF LostUnproven, VisualUnproven, AskPerson
<1>9. CASE Verified \/ LookEscapes
  BY <1>9 DEF Verified, LookEscapes, NextTurn, End, Over
<1>10. CASE Unproven
  <2>1. ~act.lost
    BY <1>10 DEF Unproven, MayBeContradicted
  <2> QED
    BY <1>10, <2>1 DEF Unproven, AskPerson
<1>11. CASE ReadRecorded \/ ReadFailed
  BY <1>0, <1>11 DEF ReadRecorded, ReadFailed, AskPerson, NextTurn, End, Over
<1>12. CASE PersonActs
  BY <1>0, <1>12 DEF PersonActs
<1>13. CASE Unrecordable \/ Restarts \/ ShowControlsFails \/ Aborts \/ GiveUp \/ StartAgain
  BY <1>0, <1>13 DEF Unrecordable, Restarts, ShowControlsFails, Aborts, GiveUp, StartAgain, End, Over
<1>14. CASE HandBack
  <2>1. pc = "handoff" /\ ~unseen /\ \E answer : Continue(answer)
    BY <1>0, <1>14 DEF HandBack, Over
  <2> QED
    BY <2>1 DEF Continue, AskPerson, NextTurn, End
<1> QED
  BY <1>1, <1>2, <1>3, <1>4, <1>5, <1>6, <1>7, <1>8, <1>9, <1>10, <1>11, <1>12, <1>13, <1>14, ActionsOfNext

\* discover: what an action did is recorded, as a node or as the way out of a dialog, or shown to a person, before the
\* planner decides anything else, for every planner, site and person.  The exception is that of NothingBlind.
THEOREM NothingUnseen ==
  ASSUME ~Fleeting
  PROVE  Spec => []EffectsAccounted
<1>1. EffectInv => EffectsAccounted
  BY DEF EffectInv, EffectsAccounted, Over
<1>2. EffectInv /\ [Next]_vars => EffectInv'
  BY EffectStep
<1> QED
  BY <1>1, <1>2, EffectInit, PTL DEF Spec

-----------------------------------------------------------------------------
(* The shape of a recording and of a handoff. *)

Node == [by : {"entry", "planner", "vision", "person"}, id : Actions \cup {"entry", "navigate", "click", "type"},
         before : Screens, from : Screens, to : Screens, abandoned : BOOLEAN,
         proof : {"none", "text", "url", "state"}, loose : BOOLEAN]
Deed == [kind : {"navigate", "click", "type"}, from : Screens, to : Screens, good : BOOLEAN]

\* Two nodes that differ in their abandonment mark at most, and two recordings of such nodes.
Alike(m, n) ==
    /\ m.by = n.by /\ m.id = n.id /\ m.before = n.before /\ m.from = n.from /\ m.to = n.to /\ m.loose = n.loose
    /\ m.proof = n.proof
SameButMarks(ms, ns) == Len(ms) = Len(ns) /\ \A i \in 1..Len(ns) : Alike(ms[i], ns[i])

LEMMA MarkTells ==
  ASSUME NEW ns \in Seq(Node)
  PROVE  MarkLast(ns) \in Seq(Node) /\ SameButMarks(MarkLast(ns), ns)
<1>1. CASE ns = <<>>
  BY <1>1 DEF MarkLast, SameButMarks
<1>2. CASE ns # <<>>
  <2> DEFINE k == Len(ns)
             n == [ns[k] EXCEPT !.abandoned = TRUE]
  <2>1. k \in 1..Len(ns) /\ \A i \in 1..Len(ns) : ns[i] \in Node
    BY <1>2, EmptySeq
  <2>2. MarkLast(ns) = [ns EXCEPT ![k] = n]
    BY <1>2 DEF MarkLast
  <2>3. n \in Node /\ Alike(n, ns[k])
    BY <2>1 DEF Node, Alike
  <2> HIDE DEF n
  <2>4. /\ [ns EXCEPT ![k] = n] \in Seq(Node) /\ Len([ns EXCEPT ![k] = n]) = Len(ns)
        /\ \A i \in 1..Len(ns) : [ns EXCEPT ![k] = n][i] = IF i = k THEN n ELSE ns[i]
    BY <2>1, <2>3, ExceptSeq
  <2> QED
    BY <2>2, <2>3, <2>4 DEF SameButMarks, Alike
<1> QED
  BY <1>1, <1>2

LEMMA AlikeEnough ==
  ASSUME NEW ns \in Seq(Node)
  PROVE  SameButMarks(ns, ns)
  BY DEF SameButMarks, Alike

LEMMA WindowFits ==
  ASSUME NEW S, NEW w \in Seq(S), Len(w) <= LOOP_WINDOW, NEW e \in S
  PROVE  Remembered(w, e) \in Seq(S) /\ Len(Remembered(w, e)) <= LOOP_WINDOW
<1> DEFINE a == Append(w, e)
           m == Max({1, Len(a) - LOOP_WINDOW + 1})
<1>1. a \in Seq(S) /\ Len(a) \in 1..13 /\ LOOP_WINDOW = 12
  BY AppendProperties DEF LOOP_WINDOW
<1>2. m \in Nat /\ m >= 1 /\ m <= Len(a) /\ Len(a) - m <= 11
  <2>1. CASE Len(a) <= 12
    <3>1. \A x : x = 1 <=>
            x \in {1, Len(a) - LOOP_WINDOW + 1} /\ \A y \in {1, Len(a) - LOOP_WINDOW + 1} : x >= y
      BY <1>1, <2>1
    <3>2. m = 1
      BY <3>1 DEF Max
    <3> QED
      BY <1>1, <2>1, <3>2
  <2>2. CASE Len(a) > 12
    <3>1. \A x : x = Len(a) - 11 <=>
            x \in {1, Len(a) - LOOP_WINDOW + 1} /\ \A y \in {1, Len(a) - LOOP_WINDOW + 1} : x >= y
      BY <1>1, <2>2
    <3>2. m = Len(a) - 11
      BY <3>1 DEF Max
    <3> QED
      BY <1>1, <2>2, <3>2
  <2> QED
    BY <1>1, <2>1, <2>2
<1> HIDE DEF m, a
<1> DEFINE r == SubSeq(a, m, Len(a))
<1> HIDE DEF r
<1>3. r \in Seq(S) /\ Len(r) = Len(a) - m + 1
  <2>1. m \in Int /\ Len(a) \in Int /\ \A i \in m..Len(a) : a[i] \in S
    BY <1>1, <1>2
  <2> QED
    BY <1>1, <1>2, <2>1, SubSeqProperties DEF r
<1>4. r = Remembered(w, e)
  BY DEF Remembered, m, a, r
<1> QED
  BY <1>1, <1>2, <1>3, <1>4

-----------------------------------------------------------------------------
(* Types. *)

\* Somebody is at work on an action: the automation, or a person who was asked about it.
Busy == pc \in {"attempt", "verify", "prove"}
        \/ (pc = "handoff" /\ handoff.why \in {"confirm", "lost", "visual", "unread"})
ActOK ==
    /\ act.id \in Actions \cup {"none"} /\ act.from \in Screens \cup {"none"}
    /\ act.warn \in BOOLEAN /\ act.happened \in BOOLEAN /\ act.lost \in BOOLEAN /\ act.noexpect \in BOOLEAN
    /\ Busy => act.id \in Actions
    /\ pc \in {"verify", "prove"} => act.from \in Screens
CountsOK ==
    /\ denials \in 0..MAX_CONSECUTIVE_DENIALS /\ (denials < MAX_CONSECUTIVE_DENIALS \/ pc = "failed")
    /\ failures \in [Actions \X Screens -> 0..(MAX_SAME_ACTION_FAILURES - 1)]
    /\ unverified \subseteq Actions \X {Url[s] : s \in Screens}
    /\ entries \in Seq(Actions \X Screens) /\ Len(entries) <= LOOP_WINDOW /\ warned \in BOOLEAN
    /\ vision.attempts \in 0..MaxVision
PlaceOK ==
    /\ pc \in {"entry", "turn", "decide", "attempt", "verify", "prove", "handoff", "restart"} \cup Over
    /\ turn \in 0..MAX_STEPS /\ screen \in Screens /\ seen \in Screens /\ pending \in BOOLEAN
    /\ attended \in BOOLEAN /\ sessions \in 1..(MaxRestarts + 1)
RecordOK ==
    /\ nodes \in Seq(Node) /\ outputs \in [Outputs -> Nat]
    /\ snapshot \in BOOLEAN /\ loose \in BOOLEAN /\ handoff.done \in Seq(Deed)

TypeInv == ShapeInv /\ PlaceOK /\ ActOK /\ CountsOK /\ RecordOK

\* What the judgement counts, and which action it lets through.
LEMMA JudgeCounts ==
  ASSUME NEW a \in Actions, Judge(a)
  PROVE  /\ \/ denials' = 0
            \/ denials' = denials + 1 /\ (denials' = MAX_CONSECUTIVE_DENIALS => pc' = "failed")
         /\ warned \in BOOLEAN => warned' \in BOOLEAN
         /\ pc' = "attempt" => act'.id = a /\ Verdict[a] = "allow"
         /\ pc' = "handoff" /\ handoff'.why = "confirm" => act'.id = a /\ Verdict[a] = "confirm"
<1> DEFINE loop == LoopVerdict(entries, warned, EntryOf(a))
<1>1. CASE Verdict[a] = "deny"
  <2>1. Denied
    BY <1>1 DEF Judge
  <2>2. warned' = warned /\ pc' \in {"turn", "failed"}
    BY <2>1 DEF Denied, End, NextTurn
  <2>3. denials' = denials + 1 /\ (denials' = MAX_CONSECUTIVE_DENIALS => pc' = "failed")
    BY <2>1 DEF Denied, End
  <2> QED
    BY <2>2, <2>3
<1>2. CASE Verdict[a] # "deny" /\ (loop = "stop" \/ (loop = "warn" /\ Verdict[a] = "confirm"))
  <2>1. denials' = 0 /\ AskPerson("loop") /\ UNCHANGED warned
    BY <1>2 DEF Judge
  <2> QED
    BY <2>1 DEF AskPerson
<1>3. CASE Verdict[a] # "deny" /\ ~(loop = "stop" \/ (loop = "warn" /\ Verdict[a] = "confirm"))
  <2>1. /\ denials' = 0 /\ warned' = (warned \/ loop = "warn")
        /\ act' = [NoAct EXCEPT !.id = a, !.warn = (loop = "warn")]
        /\ IF Verdict[a] = "confirm" THEN AskPerson("confirm") ELSE pc' = "attempt"
    BY <1>3 DEF Judge
  <2> HIDE DEF loop
  <2>2. act'.id = a /\ Verdict[a] \in {"allow", "confirm"}
    BY <1>3, <2>1, ActionAssumption DEF NoAct, ActionAssumption
  <2>3. warned \in BOOLEAN => warned' \in BOOLEAN
    BY <2>1
  <2> QED
    BY <2>1, <2>2, <2>3 DEF AskPerson
<1> QED
  BY <1>1, <1>2, <1>3

LEMMA ConcludeTells ==
  ASSUME NEW ns \in Seq(Node), NEW grown \in BOOLEAN, Conclude(ns, grown)
  PROVE  /\ nodes' \in Seq(Node) /\ SameButMarks(nodes', ns)
         /\ entries' \in {entries, <<>>, Remembered(entries, EntryOf(act.id))}
         /\ warned' \in {warned, FALSE} /\ unverified' \in {unverified, {}}
<1>1. nodes' \in {ns, MarkLast(ns)}
  BY DEF Conclude
<1>2. nodes' \in Seq(Node) /\ SameButMarks(nodes', ns)
  BY <1>1, MarkTells, AlikeEnough
<1>3. /\ entries' \in {entries, <<>>, Remembered(entries, EntryOf(act.id))}
      /\ warned' \in {warned, FALSE} /\ unverified' \in {unverified, {}}
  BY DEF Conclude
<1> QED
  BY <1>2, <1>3

\* The node a verified action leaves.
LEMMA NewNodeFits ==
  ASSUME TypeInv, pc = "verify", NEW p \in {"none", "text", "url", "state"}, NEW c \in BOOLEAN
  PROVE  NewNode(p, c) \in Node
<1>1. /\ act.id \in Actions /\ act.from \in Screens /\ seen \in Screens /\ screen \in Screens /\ loose \in BOOLEAN
  BY DEF TypeInv, PlaceOK, ActOK, Busy, RecordOK
<1> QED
  BY <1>1 DEF NewNode, Node

LEMMA TypeInit == Init => TypeInv
<1> SUFFICES ASSUME Init PROVE TypeInv
  OBVIOUS
<1> USE DEF Init
<1>1. ShapeInv
  BY DEF ShapeInv, NoHandoff, NoVision, NoAct
<1>2. PlaceOK
  <2>1. MAX_STEPS \in Nat /\ MaxRestarts \in Nat
    BY BoundAssumption DEF BoundAssumption
  <2>2. EntryScreen \in Screens /\ attended \in BOOLEAN
    BY ContractAssumption DEF ContractAssumption
  <2>3. turn \in 0..MAX_STEPS /\ sessions \in 1..(MaxRestarts + 1)
    BY <2>1
  <2>4. pc = "entry" /\ screen \in Screens /\ seen \in Screens /\ pending \in BOOLEAN
    BY <2>2
  <2> QED
    BY <2>2, <2>3, <2>4 DEF PlaceOK
<1>3. ActOK
  <2>1. act = NoAct /\ pc = "entry"
    OBVIOUS
  <2> QED
    BY <2>1 DEF ActOK, Busy, NoAct
<1>4. CountsOK
  <2>1. <<>> \in Seq(Actions \X Screens) /\ Len(<<>>) = 0
    BY EmptySeq
  <2>2. entries = <<>> /\ warned \in BOOLEAN
    OBVIOUS
  <2>3. failures \in [Actions \X Screens -> 0..(MAX_SAME_ACTION_FAILURES - 1)]
    <3>1. failures = [k \in Actions \X Screens |-> 0] /\ 0 \in 0..(MAX_SAME_ACTION_FAILURES - 1)
      BY DEF MAX_SAME_ACTION_FAILURES
    <3> QED
      BY <3>1
  <2>4. vision.attempts \in 0..MaxVision
    BY BoundAssumption DEF BoundAssumption, NoVision
  <2> QED
    BY <2>1, <2>2, <2>3, <2>4 DEF CountsOK, LOOP_WINDOW, MAX_CONSECUTIVE_DENIALS
<1>5. RecordOK
  <2>1. <<>> \in Seq(Node) /\ <<>> \in Seq(Deed)
    BY EmptySeq
  <2> QED
    BY <2>1 DEF RecordOK, NoHandoff
<1> QED
  BY <1>1, <1>2, <1>3, <1>4, <1>5 DEF TypeInv

\* A step after which nobody is at work on an action.
LEMMA ActDropped ==
  ASSUME act' = NoAct, ~Busy'
  PROVE  ActOK'
  BY DEF ActOK, Busy, NoAct

LEMMA FailureDrops ==
  ASSUME CountFailure
  PROVE  act' = NoAct /\ ~Busy'
<1>1. act' = NoAct /\ (pc' = "turn" \/ (pc' = "handoff" /\ handoff' = [why |-> "failing", done |-> <<>>]))
  BY DEF CountFailure, AskPerson, NextTurn, End
<1> QED
  BY <1>1 DEF Busy

LEMMA JudgeActs ==
  ASSUME NEW a \in Actions, Judge(a)
  PROVE  ActOK'
<1>1. CASE pc' \in {"turn", "failed"} /\ act' = NoAct
  BY <1>1, ActDropped DEF Busy
<1>2. CASE pc' = "handoff" /\ act' = NoAct /\ handoff' = [why |-> "loop", done |-> <<>>]
  BY <1>2, ActDropped DEF Busy
<1>3. CASE (\E w \in BOOLEAN : act' = [NoAct EXCEPT !.id = a, !.warn = w]) /\ pc' \in {"attempt", "handoff"}
  BY <1>3 DEF ActOK, Busy, NoAct
<1> QED
  BY <1>1, <1>2, <1>3, JudgeTells

LEMMA ActStep ==
  ASSUME TypeInv, [Next]_vars
  PROVE  ActOK'
<1>0. ActOK /\ ShapeInv /\ screen \in Screens
  BY DEF TypeInv, PlaceOK
<1>1. CASE UNCHANGED vars
  BY <1>0, <1>1 DEF ActOK, Busy
<1>2. CASE EnterPage \/ Look
  BY <1>0, <1>2 DEF EnterPage, Look, ActOK, Busy
<1>3. CASE Stop \/ Done \/ GiveUp \/ StartAgain \/ Aborts \/ ShowControlsFails \/ Restarts \/ Unrecordable \/ LookEscapes
            \/ NotActionable \/ Verified \/ ReadRecorded
  <2>1. act' = NoAct /\ pc' \in Over \cup {"turn", "entry", "restart"}
    BY <1>3 DEF Stop, OutOfTurns, PageKeepsFailing, Done, DoneAccepted, DoneRejected, GiveUp, StartAgain, Aborts,
                ShowControlsFails, Restarts, Unrecordable, LookEscapes, NotActionable, Verified, ReadRecorded, End, NextTurn, Over
  <2> QED
    BY <2>1, ActDropped DEF Busy, Over
<1>4. CASE DecideAction
  BY <1>4, JudgeActs DEF DecideAction
<1>5. CASE DecideStuck
  <2>1. CASE \E a \in Visual : Judge(a)
    BY <2>1, JudgeActs, ActionAssumption DEF ActionAssumption
  <2>2. CASE AskPerson("stuck") /\ act' = NoAct
    BY <2>2, ActDropped DEF AskPerson, Busy
  <2> QED
    BY <1>5, <2>1, <2>2, StuckTells
<1>6. CASE RefuseRepeat
  BY <1>6, ActDropped DEF RefuseRepeat, AskPerson, Busy
<1>7. CASE FailBeforeActing \/ SelectionAmbiguous
  BY <1>7, ActDropped, FailureDrops DEF FailBeforeActing, SelectionAmbiguous
<1>8. CASE Dispatch
  <2>1. pc = "attempt" /\ pc' \in {"verify", "prove"} /\ \E w \in BOOLEAN : act' = [act EXCEPT !.from = screen, !.happened = w]
    BY <1>8 DEF Dispatch, Ready
  <2> QED
    BY <1>0, <2>1 DEF ActOK, Busy, ShapeInv
<1>9. CASE BeginRead
  <2>1. pc = "attempt" /\ pc' = "verify" /\ act' = [act EXCEPT !.from = screen]
    BY <1>9 DEF BeginRead, Ready
  <2> QED
    BY <1>0, <2>1 DEF ActOK, Busy, ShapeInv
<1>10. CASE ProveLost
  <2>1. /\ pc = "prove" /\ pc' = "verify"
        /\ act' \in {[act EXCEPT !.lost = TRUE], [act EXCEPT !.lost = TRUE, !.noexpect = TRUE]}
    BY <1>10 DEF ProveLost
  <2> QED
    BY <1>0, <2>1 DEF ActOK, Busy, ShapeInv
<1>11. CASE LostUnproven \/ VisualUnproven
  <2>1. pc \in {"prove", "verify"} /\ pc' = "handoff" /\ act' = act
    BY <1>11 DEF LostUnproven, VisualUnproven, AskPerson
  <2> QED
    BY <1>0, <2>1 DEF ActOK, Busy
<1>12. CASE Unproven
  <2>1. act' = NoAct /\ (pc' = "turn" \/ (pc' = "handoff" /\ handoff' = [why |-> "unverified", done |-> <<>>]))
    BY <1>12 DEF Unproven, AskPerson, NextTurn, End
  <2> QED
    BY <2>1, ActDropped DEF Busy
<1>13. CASE ReadFailed
  <2>1. pc = "verify" /\ ((pc' = "handoff" /\ act' = act) \/ (pc' = "turn" /\ act' = NoAct))
    BY <1>13 DEF ReadFailed, AskPerson, NextTurn, End
  <2> QED
    BY <1>0, <2>1, ActDropped DEF ActOK, Busy
<1>14. CASE PersonActs
  <2>1. handoff'.why = handoff.why /\ UNCHANGED <<pc, act>>
    BY <1>14, <1>0 DEF PersonActs, ShapeInv
  <2> QED
    BY <2>1, <1>0 DEF ActOK, Busy
<1>15. CASE HandBack
  <2>1. PICK answer : Continue(answer)
    BY <1>15 DEF HandBack
  <2>2. CASE handoff.why = "confirm" /\ answer = "approve"
    <3>1. pc = "handoff" /\ pc' = "attempt" /\ act' = act
      BY <2>1, <2>2, <1>15 DEF Continue, HandBack
    <3> QED
      BY <3>1, <2>2, <1>0 DEF ActOK, Busy
  <2>3. CASE ~(handoff.why = "confirm" /\ answer = "approve")
    <3>1. act' = NoAct /\ (pc' = "turn" \/ (pc' = "handoff" /\ handoff.why = "visual"))
      BY <2>1, <2>3 DEF Continue, NextTurn, End, AskPerson
    <3>2. pc' = "handoff" => handoff'.why = "unverified"
      BY <3>1, <1>15 DEF HandBack
    <3> QED
      BY <3>1, <3>2, ActDropped DEF Busy
  <2> QED
    BY <2>2, <2>3
<1> QED
  BY <1>1, <1>2, <1>3, <1>4, <1>5, <1>6, <1>7, <1>8, <1>9, <1>10, <1>11, <1>12, <1>13, <1>14, <1>15, ActionsOfNext

LEMMA PlaceStep ==
  ASSUME TypeInv, [Next]_vars
  PROVE  PlaceOK'
<1>0. PlaceOK /\ ActOK /\ ShapeInv /\ MAX_STEPS \in Nat /\ MaxRestarts \in Nat
  BY BoundAssumption DEF TypeInv, BoundAssumption
<1> DEFINE Pcs == {"entry", "turn", "decide", "attempt", "verify", "prove", "handoff", "restart"} \cup Over
           Still == UNCHANGED <<turn, screen, seen, pending, attended, sessions>>
<1>s. ASSUME Still, pc' \in Pcs
      PROVE  PlaceOK'
  BY <1>0, <1>s DEF PlaceOK
<1>1. CASE UNCHANGED vars
  BY <1>0, <1>1 DEF PlaceOK
<1>2. CASE EnterPage \/ Stop \/ Done \/ GiveUp \/ Aborts \/ ShowControlsFails \/ Restarts \/ Unrecordable \/ LookEscapes
           \/ Verified \/ ReadRecorded \/ BeginRead \/ ProveLost
  <2>1. Still /\ pc' \in Over \cup {"turn", "restart", "verify"}
    BY <1>2 DEF EnterPage, Stop, OutOfTurns, PageKeepsFailing, Done, DoneAccepted, DoneRejected, GiveUp, Aborts,
                ShowControlsFails, Restarts, Unrecordable, LookEscapes, Verified, ReadRecorded, BeginRead, ProveLost, End, NextTurn, Over
  <2> QED
    BY <2>1, <1>s
<1>3. CASE Look
  BY <1>0, <1>3 DEF Look, PlaceOK
<1>4. CASE DecideAction
  <2>1. Still
    BY <1>4 DEF DecideAction
  <2>2. pc' \in {"turn", "failed", "attempt", "handoff"}
    BY <1>4, DecideTells
  <2> QED
    BY <2>1, <2>2, <1>s DEF Over
<1>5. CASE DecideStuck
  <2>1. UNCHANGED <<turn, screen, seen, attended, sessions>> /\ pending' = FALSE
    BY <1>5 DEF DecideStuck
  <2>2. pc' \in {"turn", "failed", "attempt", "handoff"}
    BY <1>5, DecideTells
  <2> QED
    BY <1>0, <2>1, <2>2 DEF PlaceOK, Over
<1>6. CASE RefuseRepeat \/ FailBeforeActing \/ LostUnproven \/ VisualUnproven \/ Unproven \/ ReadFailed
  <2>1. Still /\ pc' \in {"turn", "handoff"}
    BY <1>6 DEF RefuseRepeat, FailBeforeActing, CountFailure, LostUnproven, VisualUnproven, Unproven, ReadFailed, AskPerson, NextTurn, End
  <2> QED
    BY <2>1, <1>s
<1>7. CASE NotActionable
  BY <1>0, <1>7 DEF NotActionable, NextTurn, End, PlaceOK
<1>8. CASE SelectionAmbiguous
  <2>1. pc' \in {"turn", "handoff"} /\ screen' \in Screens /\ UNCHANGED <<turn, seen, pending, attended, sessions>>
    BY <1>8 DEF SelectionAmbiguous, CountFailure, AskPerson, NextTurn, End
  <2> QED
    BY <1>0, <2>1 DEF PlaceOK
<1>9. CASE Dispatch
  <2>1. act.id \in Actions
    BY <1>0, <1>9 DEF Dispatch, Ready, ActOK, Busy
  <2>2. To[act.id] \subseteq Screens /\ screen \in Screens
    BY <1>0, <2>1, ActionAssumption DEF ActionAssumption, PlaceOK
  <2>3. pc' \in {"verify", "prove"} /\ screen' \in Screens /\ UNCHANGED <<turn, seen, pending, attended, sessions>>
    BY <1>9, <2>2 DEF Dispatch
  <2> QED
    BY <1>0, <2>3 DEF PlaceOK
<1>10. CASE PersonActs
  <2>1. screen' \in Screens /\ UNCHANGED <<pc, turn, seen, pending, attended, sessions>>
    BY <1>10 DEF PersonActs
  <2> QED
    BY <1>0, <2>1 DEF PlaceOK
<1>11. CASE HandBack
  <2>1. Still
    BY <1>11 DEF HandBack
  <2>2. PICK answer : Continue(answer)
    BY <1>11 DEF HandBack
  <2>3. pc' \in {"turn", "handoff", "attempt"}
    BY <2>2 DEF Continue, NextTurn, End, AskPerson
  <2> QED
    BY <2>1, <2>3, <1>s
<1>12. CASE StartAgain
  <2>1. EntryScreen \in Screens
    BY ContractAssumption DEF ContractAssumption
  <2>2. turn' \in 0..MAX_STEPS /\ sessions' \in 1..(MaxRestarts + 1)
    BY <1>0, <1>12 DEF StartAgain, PlaceOK
  <2>3. pc' = "entry" /\ screen' \in Screens /\ seen' \in Screens /\ pending' \in BOOLEAN /\ attended' = attended
    BY <1>12, <2>1 DEF StartAgain
  <2> QED
    BY <1>0, <2>2, <2>3 DEF PlaceOK
<1> QED
  BY <1>1, <1>2, <1>3, <1>4, <1>5, <1>6, <1>7, <1>8, <1>9, <1>10, <1>11, <1>12, ActionsOfNext

LEMMA FailureCounts ==
  ASSUME TypeInv, pc = "attempt", CountFailure
  PROVE  failures' \in [Actions \X Screens -> 0..(MAX_SAME_ACTION_FAILURES - 1)]
<1> DEFINE k == <<act.id, seen>>
<1>1. k \in Actions \X Screens /\ failures \in [Actions \X Screens -> 0..1] /\ MAX_SAME_ACTION_FAILURES = 2
  BY DEF TypeInv, ActOK, Busy, PlaceOK, CountsOK, MAX_SAME_ACTION_FAILURES
<1> HIDE DEF k
<1>2. CASE failures[k] + 1 = 2
  <2>1. failures' = [failures EXCEPT ![k] = 0]
    BY <1>1, <1>2 DEF CountFailure, k
  <2> QED
    BY <1>1, <2>1
<1>3. CASE failures[k] + 1 # 2
  <2>1. failures' = [failures EXCEPT ![k] = failures[k] + 1]
    BY <1>1, <1>3 DEF CountFailure, k
  <2>2. failures[k] + 1 \in 0..1
    BY <1>1, <1>3
  <2> QED
    BY <1>1, <2>1, <2>2
<1> QED
  BY <1>2, <1>3

\* Where the action in work stands in the counters.
LEMMA KeyFits ==
  ASSUME TypeInv, Busy
  PROVE  /\ Key(act.id) \in Actions \X {Url[s] : s \in Screens}
         /\ EntryOf(act.id) \in Actions \X Screens
         /\ Remembered(entries, EntryOf(act.id)) \in Seq(Actions \X Screens)
         /\ Len(Remembered(entries, EntryOf(act.id))) <= LOOP_WINDOW
<1>1. act.id \in Actions /\ seen \in Screens
  BY DEF TypeInv, ActOK, PlaceOK
<1>2. Key(act.id) \in Actions \X {Url[s] : s \in Screens} /\ EntryOf(act.id) \in Actions \X Screens
  BY <1>1 DEF Key, EntryOf
<1>3. entries \in Seq(Actions \X Screens) /\ Len(entries) <= LOOP_WINDOW
  BY DEF TypeInv, CountsOK
<1> QED
  BY <1>2, <1>3, WindowFits

\* What a step that concludes an action does to the counters.
LEMMA ConcludeCounts ==
  ASSUME TypeInv, Busy, entries' \in {entries, <<>>, Remembered(entries, EntryOf(act.id))},
         warned' \in {warned, FALSE}, unverified' \in {unverified, {}, unverified \cup {Key(act.id)}},
         UNCHANGED <<failures, denials>>, vision'.attempts \in {vision.attempts, MaxVision}, pc # "failed"
  PROVE  CountsOK'
<1>1. entries' \in Seq(Actions \X Screens) /\ Len(entries') <= LOOP_WINDOW
  <2>1. <<>> \in Seq(Actions \X Screens) /\ Len(<<>>) = 0 /\ LOOP_WINDOW = 12
    BY EmptySeq DEF LOOP_WINDOW
  <2>2. CASE entries' = entries
    BY <2>2 DEF TypeInv, CountsOK
  <2>3. CASE entries' = <<>>
    BY <2>1, <2>3
  <2>4. CASE entries' = Remembered(entries, EntryOf(act.id))
    BY <2>4, KeyFits
  <2> QED
    BY <2>2, <2>3, <2>4
<1>2. unverified' \subseteq Actions \X {Url[s] : s \in Screens}
  BY KeyFits DEF TypeInv, CountsOK
<1>3. /\ warned' \in BOOLEAN /\ denials' \in 0..MAX_CONSECUTIVE_DENIALS /\ denials' < MAX_CONSECUTIVE_DENIALS
      /\ failures' \in [Actions \X Screens -> 0..(MAX_SAME_ACTION_FAILURES - 1)]
  BY DEF TypeInv, CountsOK
<1>4. vision'.attempts \in 0..MaxVision
  BY BoundAssumption DEF TypeInv, CountsOK, BoundAssumption
<1> QED
  BY <1>1, <1>2, <1>3, <1>4 DEF CountsOK

LEMMA CountsStep ==
  ASSUME TypeInv, [Next]_vars
  PROVE  CountsOK'
<1>0. CountsOK /\ ActOK /\ ShapeInv /\ MaxVision \in Nat
  BY BoundAssumption DEF TypeInv, BoundAssumption
<1> DEFINE Still == UNCHANGED <<denials, failures, unverified, entries, warned, vision>>
<1>s. ASSUME Still, pc # "failed" \/ pc' = "failed"
      PROVE  CountsOK'
  BY <1>0, <1>s DEF CountsOK
<1>1. CASE UNCHANGED vars
  BY <1>1, <1>s
<1>2. CASE EnterPage \/ Look \/ Stop \/ Done \/ GiveUp \/ Aborts \/ ShowControlsFails \/ Restarts \/ Unrecordable \/ LookEscapes
           \/ BeginRead \/ ProveLost \/ RefuseRepeat \/ Dispatch \/ PersonActs
  <2>1. Still /\ pc # "failed"
    BY <1>2 DEF EnterPage, Look, Stop, OutOfTurns, PageKeepsFailing, Done, DoneAccepted, DoneRejected, GiveUp, Aborts,
                ShowControlsFails, Restarts, Unrecordable, LookEscapes, BeginRead, ProveLost, RefuseRepeat, Dispatch, Ready, PersonActs
  <2> QED
    BY <2>1, <1>s
<1>3. ASSUME NEW a \in Actions, Judge(a), UNCHANGED <<failures, unverified, entries>>, vision'.attempts \in 0..MaxVision, pc # "failed"
      PROVE  CountsOK'
  <2>1. denials' \in 0..MAX_CONSECUTIVE_DENIALS /\ (denials' < MAX_CONSECUTIVE_DENIALS \/ pc' = "failed")
    BY <1>0, <1>3, JudgeCounts DEF CountsOK, MAX_CONSECUTIVE_DENIALS
  <2>2. warned' \in BOOLEAN
    BY <1>0, <1>3, JudgeCounts DEF CountsOK
  <2> QED
    BY <1>0, <1>3, <2>1, <2>2 DEF CountsOK
<1>4. CASE DecideAction
  <2>1. \E a \in Actions : Judge(a)
    BY <1>4 DEF DecideAction
  <2>2. UNCHANGED <<failures, unverified, entries, vision>> /\ pc # "failed"
    BY <1>4 DEF DecideAction
  <2>3. vision'.attempts \in 0..MaxVision
    BY <1>0, <2>2 DEF CountsOK
  <2> QED
    BY <1>3, <2>1, <2>2, <2>3
<1>5. CASE DecideStuck
  <2>1. UNCHANGED <<failures, unverified, entries>> /\ pc # "failed"
    BY <1>5 DEF DecideStuck
  <2>2. vision' = vision \/ (vision' = [vision EXCEPT !.attempts = @ + 1, !.last = seen] /\ VisionMayLook)
    BY <1>5, StuckTells
  <2>3. vision'.attempts \in 0..MaxVision
    <3>1. CASE vision' = vision
      BY <1>0, <3>1 DEF CountsOK
    <3>2. CASE vision' = [vision EXCEPT !.attempts = @ + 1, !.last = seen] /\ VisionMayLook
      <4>1. vision'.attempts = vision.attempts + 1
        BY <1>0, <3>2 DEF ShapeInv
      <4> QED
        BY <1>0, <3>2, <4>1 DEF CountsOK, VisionMayLook
    <3> QED
      BY <2>2, <3>1, <3>2
  <2>4. CASE \E a \in Visual : Judge(a)
    BY <1>3, <2>1, <2>3, <2>4, ActionAssumption DEF ActionAssumption
  <2>5. CASE ~ \E a \in Visual : Judge(a)
    <3>1. StuckToPerson \/ \E cause \in {"actionability", "planner", "perception", "missing_data"} : StuckProposal(cause)
      BY <1>5 DEF DecideStuck
    <3>2. UNCHANGED <<denials, warned>>
      BY <2>5, <3>1 DEF StuckToPerson, StuckProposal, Proposes
    <3> QED
      BY <1>0, <2>1, <2>3, <3>2 DEF CountsOK
  <2> QED
    BY <2>4, <2>5
<1>6. CASE FailBeforeActing \/ SelectionAmbiguous
  <2>1. CountFailure /\ pc = "attempt" /\ UNCHANGED <<denials, unverified, entries, warned, vision>>
    BY <1>6 DEF FailBeforeActing, SelectionAmbiguous, Ready
  <2>2. failures' \in [Actions \X Screens -> 0..(MAX_SAME_ACTION_FAILURES - 1)]
    BY <2>1, FailureCounts
  <2> QED
    BY <1>0, <2>1, <2>2 DEF CountsOK
<1>7. CASE NotActionable
  <2>1. pc = "attempt" /\ failures' = [failures EXCEPT ![<<act.id, seen>>] = 0]
        /\ UNCHANGED <<denials, unverified, entries, warned, vision>>
    BY <1>7 DEF NotActionable, Ready
  <2>2. failures' \in [Actions \X Screens -> 0..(MAX_SAME_ACTION_FAILURES - 1)]
    <3>1. failures \in [Actions \X Screens -> 0..1] /\ 0 \in 0..1
      BY <1>0 DEF CountsOK, MAX_SAME_ACTION_FAILURES
    <3> DEFINE k == <<act.id, seen>>
    <3>2. failures' = [failures EXCEPT ![k] = 0]
      BY <2>1
    <3> HIDE DEF k
    <3>3. failures' \in [Actions \X Screens -> 0..1]
      BY <3>1, <3>2
    <3> QED
      BY <3>3 DEF MAX_SAME_ACTION_FAILURES
  <2> QED
    BY <1>0, <2>1, <2>2 DEF CountsOK
<1>8. CASE Verified \/ ReadRecorded
  <2>1. pc = "verify" /\ UNCHANGED <<denials, failures, vision>> /\ \E ns, grown : Conclude(ns, grown)
    BY <1>8 DEF Verified, Record, ReadRecorded
  <2>2. /\ entries' \in {entries, <<>>, Remembered(entries, EntryOf(act.id))}
        /\ warned' \in {warned, FALSE} /\ unverified' \in {unverified, {}}
    BY <2>1 DEF Conclude
  <2> QED
    BY <2>1, <2>2, ConcludeCounts DEF Busy
<1>9. CASE LostUnproven
  <2>1. pc = "prove" /\ Still
    BY <1>9 DEF LostUnproven
  <2> QED
    BY <2>1, <1>s
<1>10. CASE VisualUnproven
  <2>1. /\ pc = "verify" /\ UNCHANGED <<denials, failures, unverified, entries, warned>>
        /\ vision' = [vision EXCEPT !.attempts = MaxVision, !.unproven = TRUE]
    BY <1>10 DEF VisualUnproven
  <2>2. vision'.attempts = MaxVision
    BY <1>0, <2>1 DEF ShapeInv
  <2> QED
    BY <2>1, <2>2, ConcludeCounts DEF Busy
<1>11. CASE Unproven
  <2>1. pc = "verify" /\ UNCHANGED <<denials, failures, entries, warned, vision>>
        /\ unverified' \in {unverified, unverified \cup {Key(act.id)}}
    BY <1>11 DEF Unproven
  <2> QED
    BY <2>1, ConcludeCounts DEF Busy
<1>12. CASE ReadFailed
  <2>1. pc = "verify" /\ UNCHANGED <<denials, failures, vision>>
        /\ \/ UNCHANGED <<entries, warned, unverified>>
           \/ Conclude(nodes, FALSE)
    BY <1>12 DEF ReadFailed
  <2>2. /\ entries' \in {entries, <<>>, Remembered(entries, EntryOf(act.id))}
        /\ warned' \in {warned, FALSE} /\ unverified' \in {unverified, {}}
    BY <2>1 DEF Conclude
  <2> QED
    BY <2>1, <2>2, ConcludeCounts DEF Busy
<1>13. CASE HandBack
  <2>1. PICK answer : Continue(answer)
    BY <1>13 DEF HandBack
  <2>2. pc = "handoff" /\ UNCHANGED <<denials, failures, vision>>
    BY <1>13 DEF HandBack
  <2>3. CASE Busy
    <3>1. /\ entries' \in {entries, <<>>, Remembered(entries, EntryOf(act.id))}
          /\ warned' \in {warned, FALSE} /\ unverified' \in {unverified, {}, unverified \cup {Key(act.id)}}
      BY <2>1 DEF Continue
    <3> QED
      BY <2>2, <2>3, <3>1, ConcludeCounts
  <2>4. CASE ~Busy
    <3>1. handoff.why \notin {"confirm", "visual", "unread"}
      BY <2>2, <2>4 DEF Busy
    <3>2. \/ Still
          \/ entries' = <<>> /\ warned' = FALSE /\ unverified' = unverified
      BY <2>1, <2>2, <3>1 DEF Continue
    <3>3. <<>> \in Seq(Actions \X Screens) /\ Len(<<>>) <= LOOP_WINDOW
      BY EmptySeq DEF LOOP_WINDOW
    <3>4. CASE entries' = <<>> /\ warned' = FALSE /\ unverified' = unverified
      <4>1. entries' \in Seq(Actions \X Screens) /\ Len(entries') <= LOOP_WINDOW /\ warned' \in BOOLEAN
        BY <3>3, <3>4, Zenon
      <4> QED
        BY <1>0, <2>2, <3>4, <4>1 DEF CountsOK
    <3> QED
      BY <2>2, <3>2, <3>4, <1>s
  <2> QED
    BY <2>3, <2>4
<1>14. CASE StartAgain
  <2>1. entries' = <<>> /\ <<>> \in Seq(Actions \X Screens) /\ Len(<<>>) <= LOOP_WINDOW
    BY <1>14, EmptySeq DEF StartAgain, LOOP_WINDOW
  <2>2. entries' \in Seq(Actions \X Screens) /\ Len(entries') <= LOOP_WINDOW
    BY <2>1, Zenon
  <2>3. failures' \in [Actions \X Screens -> 0..(MAX_SAME_ACTION_FAILURES - 1)]
    BY <1>14 DEF StartAgain, MAX_SAME_ACTION_FAILURES
  <2>4. denials' = 0 /\ unverified' = {} /\ warned' = FALSE /\ vision'.attempts = 0
    BY <1>14 DEF StartAgain, NoVision
  <2>5. denials' \in 0..MAX_CONSECUTIVE_DENIALS /\ denials' < MAX_CONSECUTIVE_DENIALS /\ vision'.attempts \in 0..MaxVision
    BY <1>0, <2>4 DEF MAX_CONSECUTIVE_DENIALS
  <2> QED
    BY <2>2, <2>3, <2>4, <2>5 DEF CountsOK
<1> QED
  BY <1>1, <1>2, <1>4, <1>5, <1>6, <1>7, <1>8, <1>9, <1>10, <1>11, <1>12, <1>13, <1>14, ActionsOfNext

-----------------------------------------------------------------------------
(* The recording through a handoff. *)

LEMMA GreatestOf ==
  ASSUME NEW bound \in Nat, NEW T \in SUBSET (0..bound), T # {}
  PROVE  Max(T) \in T /\ \A y \in T : Max(T) >= y
<1> DEFINE R == OpToRel(<, Nat)
           D == {bound - y : y \in T}
<1>1. IsWellFoundedOn(R, Nat)
  BY NatLessThanWellFounded
<1>2. \A x, y \in Nat : x < y => <<x, y>> \in R
  BY DEF OpToRel
<1> HIDE DEF R
<1>3. D \subseteq Nat /\ D # {}
  <2>1. \A y \in T : bound - y \in Nat
    OBVIOUS
  <2> QED
    BY <2>1
<1>4. PICK x \in D : \A y \in D : ~ (<<y, x>> \in R)
  BY <1>1, <1>3, WFMin
<1>5. PICK z \in T : x = bound - z
  BY <1>4
<1>6. \A y \in T : bound - y \in D /\ bound - y \in Nat /\ x \in Nat
  BY <1>3, <1>4
<1>7. \A y \in T : ~(bound - y < x)
  BY <1>2, <1>4, <1>6
<1>8. \A y \in T : z >= y
  BY <1>5, <1>7
<1> QED
  BY <1>8 DEF Max

\* The suffix that a navigation may supersede starts behind the last boundary.
LEMMA SuffixTells ==
  ASSUME nodes \in Seq(Node), NEW url
  PROVE  /\ SuffixStart(url) \in 1..(Len(nodes) + 1)
         /\ \A i \in DOMAIN nodes : Boundary(nodes[i], url) => i < SuffixStart(url)
<1> DEFINE T == {0} \cup {i \in DOMAIN nodes : Boundary(nodes[i], url)}
<1>1. Len(nodes) \in Nat /\ DOMAIN nodes = 1..Len(nodes)
  OBVIOUS
<1>2. T \in SUBSET (0..Len(nodes)) /\ T # {}
  BY <1>1
<1>3. Max(T) \in T /\ \A y \in T : Max(T) >= y
  BY <1>1, <1>2, GreatestOf
<1>4. SuffixStart(url) = Max(T) + 1
  BY DEF SuffixStart
<1> HIDE DEF T
<1>5. Max(T) \in 0..Len(nodes)
  BY <1>2, <1>3
<1>6. \A i \in DOMAIN nodes : Boundary(nodes[i], url) => i \in T
  BY DEF T
<1> QED
  BY <1>1, <1>3, <1>4, <1>5, <1>6

\* What is left of the recording: its first k nodes, cut where the page was the one the person left, and
\* nothing behind the cut is a boundary.
KeptUpTo(k, left) ==
    /\ k \in 0..Len(nodes)
    /\ k < Len(nodes) =>
          /\ Page[nodes[k + 1].before] = Page[left]
          /\ \A i \in (k + 1)..Len(nodes) : ~Boundary(nodes[i], Url[left])

LEMMA PrunedTells ==
  ASSUME nodes \in Seq(Node), NEW left
  PROVE  \E k \in 0..Len(nodes) : KeptUpTo(k, left) /\ Pruned(left) = SubSeq(nodes, 1, k)
<1> DEFINE s == SuffixStart(Url[left])
           suffix == Suffix(Url[left])
<1>1. Len(nodes) \in Nat /\ DOMAIN nodes = 1..Len(nodes) /\ s \in 1..(Len(nodes) + 1)
  BY SuffixTells
<1>2. \A i \in s..Len(nodes) : ~Boundary(nodes[i], Url[left])
  <2>1. \A i \in s..Len(nodes) : i \in DOMAIN nodes /\ ~(i < s)
    BY <1>1
  <2> QED
    BY <2>1, SuffixTells
<1>3. CASE suffix # <<>> /\ SamePage(left, suffix)
  <2>1. suffix = SubSeq(nodes, s, Len(nodes)) /\ Pruned(left) = SubSeq(nodes, 1, s - 1)
    BY <1>3 DEF Suffix, Pruned
  <2> HIDE DEF suffix, s
  <2>2. s <= Len(nodes)
    <3>1. ASSUME s > Len(nodes) PROVE FALSE
      <4>1. SubSeq(nodes, s, Len(nodes)) = <<>>
        BY <1>1, <3>1, SubSeqEmpty
      <4> QED
        BY <1>3, <2>1, <4>1
    <3> QED
      BY <1>1, <3>1
  <2>3. suffix[1] = nodes[s]
    <3>1. \A i \in s..Len(nodes) : nodes[i] \in Node
      BY <1>1
    <3>2. \A i \in 1..(Len(nodes) - s + 1) : SubSeq(nodes, s, Len(nodes))[i] = nodes[s + i - 1]
      BY <1>1, <3>1, SubSeqProperties
    <3>3. 1 \in 1..(Len(nodes) - s + 1) /\ s + 1 - 1 = s
      BY <1>1, <2>2
    <3> QED
      BY <2>1, <3>2, <3>3
  <2>4. KeptUpTo(s - 1, left)
    <3>1. Page[nodes[s].before] = Page[left]
      BY <1>3, <2>3 DEF SamePage
    <3>2. s - 1 \in 0..Len(nodes) /\ (s - 1) + 1 = s
      BY <1>1
    <3> QED
      BY <1>2, <3>1, <3>2 DEF KeptUpTo
  <2> QED
    BY <1>1, <2>1, <2>4
<1>4. CASE ~(suffix # <<>> /\ SamePage(left, suffix))
  <2>1. Pruned(left) = nodes
    BY <1>4 DEF Pruned
  <2>2. nodes = SubSeq(nodes, 1, Len(nodes))
    OBVIOUS
  <2>3. KeptUpTo(Len(nodes), left) /\ Len(nodes) \in 0..Len(nodes)
    BY <1>1 DEF KeptUpTo
  <2> QED
    BY <2>1, <2>2, <2>3
<1> QED
  BY <1>3, <1>4

\* What the person's actions become: the nodes kept, then one node for each deed, the first with the gap in front of
\* it.
PersonNode(d, gap) ==
    [by |-> "person", id |-> d.kind, before |-> d.from, from |-> d.from, to |-> d.to,
     abandoned |-> FALSE, proof |-> "none", loose |-> gap]
Joined(ns, k, gap, done) ==
    /\ Len(ns) = k + Len(done)
    /\ \A i \in 1..k : ns[i] = nodes[i]
    /\ \A i \in 1..Len(done) : ns[k + i] = PersonNode(done[i], i = 1 /\ gap)

LEMMA PersonNodesFit ==
  ASSUME NEW done \in Seq(Deed), NEW gap \in BOOLEAN
  PROVE  /\ PersonNodes(done, gap) \in Seq(Node) /\ Len(PersonNodes(done, gap)) = Len(done)
         /\ \A i \in 1..Len(done) : PersonNodes(done, gap)[i] = PersonNode(done[i], i = 1 /\ gap)
<1> DEFINE ps == PersonNodes(done, gap)
<1>1. Len(done) \in Nat /\ DOMAIN done = 1..Len(done) /\ \A i \in 1..Len(done) : done[i] \in Deed
  OBVIOUS
<1>2. ps = [i \in 1..Len(done) |-> PersonNode(done[i], i = 1 /\ gap)]
  BY <1>1 DEF PersonNodes, PersonNode
<1>3. \A i \in 1..Len(done) : PersonNode(done[i], i = 1 /\ gap) \in Node
  BY <1>1 DEF PersonNode, Node, Deed
<1> HIDE DEF ps
<1>4. ps \in [1..Len(done) -> Node]
  BY <1>2, <1>3
<1>5. ps \in Seq(Node)
  BY <1>1, <1>4, SeqDef
<1>6. Len(ps) = Len(done)
  BY <1>1, <1>4, <1>5, LenProperties
<1> QED
  BY <1>2, <1>5, <1>6 DEF ps

LEMMA WithPersonTells ==
  ASSUME nodes \in Seq(Node), loose \in BOOLEAN, NEW done \in Seq(Deed), done # <<>>
  PROVE  /\ WithPersonNodes(done) \in Seq(Node)
         /\ \E k \in 0..Len(nodes), gap \in BOOLEAN :
              /\ Joined(WithPersonNodes(done), k, gap, done) /\ KeptUpTo(k, done[1].from)
              /\ gap = (IF k = Len(nodes) THEN loose ELSE nodes[k + 1].loose \/ loose)
<1> DEFINE kept == IF LeavesPage(done) THEN Pruned(done[1].from) ELSE nodes
           gap == IF kept = nodes THEN loose ELSE nodes[Len(kept) + 1].loose \/ loose
<1>1. Len(nodes) \in Nat /\ \A i \in 1..Len(nodes) : nodes[i] \in Node
  OBVIOUS
<1>2. WithPersonNodes(done) = kept \o PersonNodes(done, gap)
  BY DEF WithPersonNodes
<1>3. PICK k \in 0..Len(nodes) : KeptUpTo(k, done[1].from) /\ kept = SubSeq(nodes, 1, k)
  <2>1. CASE LeavesPage(done)
    BY <2>1, PrunedTells
  <2>2. CASE ~LeavesPage(done)
    <3>1. kept = nodes /\ nodes = SubSeq(nodes, 1, Len(nodes))
      BY <2>2
    <3>2. KeptUpTo(Len(nodes), done[1].from)
      BY <1>1 DEF KeptUpTo
    <3> QED
      BY <1>1, <3>1, <3>2
  <2> QED
    BY <2>1, <2>2
<1> HIDE DEF kept
<1>4. kept \in Seq(Node) /\ Len(kept) = k /\ \A i \in 1..k : kept[i] = nodes[i]
  <2>1. \A i \in 1..k : nodes[i] \in Node
    BY <1>1, <1>3
  <2>2. SubSeq(nodes, 1, k) \in Seq(Node) /\ Len(SubSeq(nodes, 1, k)) = (IF 1 <= k THEN k - 1 + 1 ELSE 0)
        /\ \A i \in 1..(k - 1 + 1) : SubSeq(nodes, 1, k)[i] = nodes[1 + i - 1]
    BY <1>1, <2>1, SubSeqProperties
  <2> QED
    BY <1>1, <1>3, <2>2
<1>5. kept = nodes <=> k = Len(nodes)
  BY <1>1, <1>3, <1>4, SeqEqual
<1>6. gap \in BOOLEAN /\ gap = (IF k = Len(nodes) THEN loose ELSE nodes[k + 1].loose \/ loose)
  <2>1. k < Len(nodes) => nodes[k + 1].loose \in BOOLEAN
    <3>1. k < Len(nodes) => nodes[k + 1] \in Node
      BY <1>1, <1>3
    <3> QED
      BY <3>1 DEF Node
  <2> QED
    BY <1>3, <1>4, <1>5, <2>1
<1> HIDE DEF gap
<1> DEFINE ps == PersonNodes(done, gap)
<1>7. ps \in Seq(Node) /\ Len(ps) = Len(done) /\ \A i \in 1..Len(done) : ps[i] = PersonNode(done[i], i = 1 /\ gap)
  BY <1>6, PersonNodesFit
<1> HIDE DEF ps
<1>8. /\ kept \o ps \in Seq(Node) /\ Len(kept \o ps) = Len(kept) + Len(ps)
      /\ \A i \in 1..(Len(kept) + Len(ps)) : (kept \o ps)[i] = IF i <= Len(kept) THEN kept[i] ELSE ps[i - Len(kept)]
  <2>1. kept \in Seq(Node) /\ ps \in Seq(Node)
    BY <1>4, <1>7
  <2> QED
    BY <2>1, ConcatProperties, Zenon
<1>9. Joined(kept \o ps, k, gap, done)
  <2>1. \A i \in 1..k : i \in 1..(Len(kept) + Len(ps)) /\ i <= Len(kept)
    BY <1>4, <1>7, Len(done) \in Nat
  <2>2. \A i \in 1..Len(done) : k + i \in 1..(Len(kept) + Len(ps)) /\ ~(k + i <= Len(kept)) /\ (k + i) - Len(kept) = i
    BY <1>4, <1>7, Len(done) \in Nat
  <2> QED
    BY <1>4, <1>7, <1>8, <2>1, <2>2 DEF Joined
<1>10. WithPersonNodes(done) = kept \o ps
  BY <1>2 DEF ps
<1>11. WithPersonNodes(done) \in Seq(Node)
  BY <1>8, <1>10
<1>12. /\ Joined(WithPersonNodes(done), k, gap, done) /\ KeptUpTo(k, done[1].from)
       /\ gap = (IF k = Len(nodes) THEN loose ELSE nodes[k + 1].loose \/ loose)
  BY <1>3, <1>6, <1>9, <1>10
<1> QED
  BY <1>3, <1>6, <1>11, <1>12

\* How a handoff that goes on writes the recording.  A confirmation answered with "restart" drops what the person did.
LEMMA HandBackWrites ==
  ASSUME TypeInv, HandBack
  PROVE  /\ nodes' \in Seq(Node)
         /\ \/ SameButMarks(nodes', nodes) /\ loose' = loose /\ handoff.done = <<>>
            \/ /\ SameButMarks(nodes', nodes) /\ loose' = loose
               /\ handoff.why = "confirm" /\ "restart" \in ConfirmAnswers
            \/ /\ handoff.done # <<>> /\ SameButMarks(nodes', WithPersonNodes(handoff.done)) /\ loose' = FALSE
<1> DEFINE done(answer) == IF answer = "restart" THEN <<>> ELSE handoff.done
<1>1. nodes \in Seq(Node) /\ loose \in BOOLEAN /\ handoff.done \in Seq(Deed)
  BY DEF TypeInv, RecordOK
<1>2. PICK answer \in Answers :
        /\ answer = "restart" => handoff.why = "confirm"
        /\ nodes' \in {WithPersonNodes(done(answer)), MarkLast(WithPersonNodes(done(answer)))}
        /\ loose' = (loose /\ done(answer) = <<>>)
  BY DEF HandBack
<1>3. WithPersonNodes(<<>>) = nodes
  BY DEF WithPersonNodes
<1>4. done(answer) # <<>> => WithPersonNodes(done(answer)) \in Seq(Node)
  BY <1>1, WithPersonTells
<1>5. WithPersonNodes(done(answer)) \in Seq(Node)
  BY <1>1, <1>3, <1>4
<1>6. nodes' \in Seq(Node) /\ SameButMarks(nodes', WithPersonNodes(done(answer)))
  BY <1>2, <1>5, MarkTells, AlikeEnough
<1>7. CASE answer = "restart"
  <2>1. SameButMarks(nodes', nodes) /\ loose' = loose /\ handoff.why = "confirm" /\ "restart" \in ConfirmAnswers
    BY <1>1, <1>2, <1>3, <1>6, <1>7 DEF Answers
  <2> QED
    BY <1>6, <2>1
<1>8. CASE answer # "restart"
  BY <1>1, <1>2, <1>3, <1>6, <1>8
<1> QED
  BY <1>7, <1>8

\* How a verified action writes the recording: it becomes a node, or the way out of a dialog.
LEMMA VerifiedWrites ==
  ASSUME TypeInv, Verified
  PROVE  /\ nodes' \in Seq(Node) /\ pc = "verify" /\ Kind[act.id] \notin READS
         /\ \/ SameButMarks(nodes', nodes) /\ loose' = (loose \/ Page[screen] # Page[act.from])
            \/ /\ loose' = FALSE
               /\ \E p \in {"none", "text", "url", "state"}, c \in BOOLEAN :
                    SameButMarks(nodes', Append(nodes, NewNode(p, c)))
<1>1. pc = "verify" /\ Kind[act.id] \notin READS /\ nodes \in Seq(Node)
  BY DEF TypeInv, RecordOK, Verified
<1>2. PICK p \in {"none", "text", "url", "state"}, c \in BOOLEAN : Record(p, c)
  <2>1. MetProofs \subseteq {"none", "text", "url", "state"} /\ ContraryProofs \subseteq {"none", "text", "url", "state"}
    BY DEF MetProofs, ContraryProofs
  <2> QED
    BY <2>1 DEF Verified
<1>3. CASE Dismissal
  <2>1. Conclude(nodes, FALSE) /\ loose' = (loose \/ Page[screen] # Page[act.from])
    BY <1>2, <1>3 DEF Record
  <2> QED
    BY <1>1, <2>1, ConcludeTells
<1>4. CASE ~Dismissal
  <2>1. Conclude(Append(nodes, NewNode(p, c)), FALSE) /\ loose' = FALSE
    BY <1>2, <1>4 DEF Record
  <2>2. Append(nodes, NewNode(p, c)) \in Seq(Node)
    BY <1>1, NewNodeFits, AppendProperties
  <2>3. nodes' \in Seq(Node) /\ SameButMarks(nodes', Append(nodes, NewNode(p, c)))
    BY <2>1, <2>2, ConcludeTells
  <2> QED
    BY <1>1, <2>1, <2>3
<1> QED
  BY <1>3, <1>4

LEMMA ReadWrites ==
  ASSUME TypeInv, ReadRecorded
  PROVE  /\ nodes' \in Seq(Node) /\ SameButMarks(nodes', Append(nodes, NewNode("none", FALSE)))
         /\ pc = "verify" /\ Kind[act.id] \in READS /\ loose' = FALSE /\ act.id \in Actions /\ Output[act.id] \in Outputs
         /\ outputs' = [outputs EXCEPT ![Output[act.id]] = @ + Adds[act.id]]
         /\ snapshot' = (snapshot \/ (Aligned # {} /\ Kind[act.id] = "extract_many"))
<1>1. /\ pc = "verify" /\ Kind[act.id] \in READS /\ loose' = FALSE
      /\ outputs' = [outputs EXCEPT ![Output[act.id]] = @ + Adds[act.id]]
      /\ snapshot' = (snapshot \/ (Aligned # {} /\ Kind[act.id] = "extract_many"))
      /\ Conclude(Append(nodes, NewNode("none", FALSE)), TRUE)
  BY DEF ReadRecorded
<1>2. act.id \in Actions /\ Output[act.id] \in Outputs
  BY <1>1, ActionAssumption DEF ActionAssumption, TypeInv, ActOK, Busy
<1>3. nodes \in Seq(Node) /\ NewNode("none", FALSE) \in Node
  BY <1>1, NewNodeFits DEF TypeInv, RecordOK
<1>4. Append(nodes, NewNode("none", FALSE)) \in Seq(Node)
  BY <1>3, AppendProperties
<1>5. nodes' \in Seq(Node) /\ SameButMarks(nodes', Append(nodes, NewNode("none", FALSE)))
  BY <1>1, <1>4, ConcludeTells
<1> QED
  BY <1>1, <1>2, <1>5

LEMMA ReadFailedWrites ==
  ASSUME TypeInv, ReadFailed
  PROVE  nodes' \in Seq(Node) /\ SameButMarks(nodes', nodes)
<1>1. nodes \in Seq(Node)
  BY DEF TypeInv, RecordOK
<1>2. CASE Conclude(nodes, FALSE)
  BY <1>1, <1>2, ConcludeTells
<1>3. CASE nodes' = nodes
  BY <1>1, <1>3, AlikeEnough
<1> QED
  BY <1>2, <1>3 DEF ReadFailed

\* The steps that leave the recorder alone.
RecorderRests ==
    \/ Look \/ Stop \/ DecideAction \/ DecideStuck \/ Done \/ RefuseRepeat \/ FailBeforeActing \/ NotActionable
    \/ SelectionAmbiguous \/ Dispatch \/ BeginRead \/ ProveLost \/ LostUnproven \/ Unproven \/ VisualUnproven
    \/ LookEscapes \/ PersonActs \/ Unrecordable \/ Restarts \/ ShowControlsFails \/ Aborts \/ GiveUp

LEMMA RestingRecorder ==
  ASSUME RecorderRests
  PROVE  UNCHANGED <<nodes, outputs, snapshot>>
<1>1. CASE Look \/ Stop \/ DecideAction \/ DecideStuck \/ Done \/ RefuseRepeat \/ FailBeforeActing \/ NotActionable
  BY <1>1 DEF Look, Stop, DecideAction, DecideStuck, Done, RefuseRepeat, FailBeforeActing, NotActionable
<1>2. CASE SelectionAmbiguous \/ Dispatch \/ BeginRead \/ ProveLost \/ LostUnproven \/ Unproven \/ VisualUnproven
  BY <1>2 DEF SelectionAmbiguous, Dispatch, BeginRead, ProveLost, LostUnproven, Unproven, VisualUnproven
<1>3. CASE LookEscapes \/ PersonActs \/ Unrecordable \/ Restarts \/ ShowControlsFails \/ Aborts \/ GiveUp
  BY <1>3 DEF LookEscapes, PersonActs, Unrecordable, Restarts, ShowControlsFails, Aborts, GiveUp
<1> QED
  BY <1>1, <1>2, <1>3 DEF RecorderRests

LEMMA StepsByRecorder ==
  ASSUME [Next]_vars
  PROVE  UNCHANGED vars \/ RecorderRests \/ EnterPage \/ Verified \/ ReadRecorded \/ ReadFailed \/ HandBack \/ StartAgain
  BY ActionsOfNext DEF RecorderRests

\* What a handoff holds is what the person did.
LEMMA DeedsStep ==
  ASSUME TypeInv, [Next]_vars
  PROVE  handoff'.done \in Seq(Deed)
<1>0. handoff.done \in Seq(Deed) /\ ShapeInv /\ screen \in Screens
  BY DEF TypeInv, RecordOK, PlaceOK
<1>1. <<>> \in Seq(Deed)
  BY EmptySeq
<1>2. CASE handoff' = handoff
  BY <1>0, <1>2
<1>3. CASE handoff' = NoHandoff \/ \E y : handoff' = [why |-> y, done |-> <<>>]
  <2>1. handoff'.done = <<>>
    BY <1>3 DEF NoHandoff
  <2> QED
    BY <1>1, <2>1
<1>4. CASE PersonActs
  <2>1. PICK k \in {"navigate", "click", "type"}, s \in Screens, known, sound \in BOOLEAN :
           handoff' = [handoff EXCEPT !.done = Append(@, [kind |-> k, from |-> screen, to |-> s, good |-> known /\ sound])]
    BY <1>4 DEF PersonActs
  <2>2. handoff'.done = Append(handoff.done, [kind |-> k, from |-> screen, to |-> s, good |-> known /\ sound])
    BY <1>0, <2>1 DEF ShapeInv
  <2>3. [kind |-> k, from |-> screen, to |-> s, good |-> known /\ sound] \in Deed
    BY <1>0 DEF Deed
  <2> QED
    BY <1>0, <2>2, <2>3, AppendProperties
<1>5. CASE UNCHANGED vars \/ EnterPage \/ Look \/ Stop \/ Done \/ GiveUp \/ NotActionable \/ Dispatch \/ BeginRead \/ ProveLost
           \/ Verified \/ LookEscapes \/ ReadRecorded
  BY <1>2, <1>5 DEF EnterPage, Look, Stop, Done, GiveUp, NotActionable, Dispatch, BeginRead, ProveLost, Verified, LookEscapes, ReadRecorded
<1>6. CASE \E a \in Actions : Judge(a)
  BY <1>2, <1>3, <1>6, JudgeTells
<1>7. CASE DecideAction
  BY <1>6, <1>7 DEF DecideAction
<1>8. CASE DecideStuck
  <2>1. CASE \E a \in Visual : Judge(a)
    BY <2>1, <1>6, ActionAssumption DEF ActionAssumption
  <2>2. CASE AskPerson("stuck")
    BY <2>2, <1>3 DEF AskPerson
  <2> QED
    BY <1>8, <2>1, <2>2, StuckTells
<1>9. CASE RefuseRepeat \/ FailBeforeActing \/ SelectionAmbiguous \/ LostUnproven \/ VisualUnproven
  <2>1. handoff' = handoff \/ \E y : handoff' = [why |-> y, done |-> <<>>]
    BY <1>9 DEF RefuseRepeat, FailBeforeActing, SelectionAmbiguous, CountFailure, LostUnproven, VisualUnproven, AskPerson
  <2> QED
    BY <2>1, <1>2, <1>3
<1>10. CASE Unproven \/ ReadFailed
  <2>1. handoff' = handoff \/ \E y : handoff' = [why |-> y, done |-> <<>>]
    BY <1>10 DEF Unproven, ReadFailed, AskPerson
  <2> QED
    BY <2>1, <1>2, <1>3
<1>11. CASE HandBack \/ Unrecordable \/ Restarts \/ ShowControlsFails \/ Aborts \/ StartAgain
  <2>1. handoff' = NoHandoff \/ handoff' = [why |-> "unverified", done |-> <<>>]
    BY <1>11 DEF HandBack, Unrecordable, Restarts, ShowControlsFails, Aborts, StartAgain
  <2> QED
    BY <2>1, <1>3
<1> QED
  BY <1>4, <1>5, <1>7, <1>8, <1>9, <1>10, <1>11, ActionsOfNext

LEMMA LooseStep ==
  ASSUME TypeInv, [Next]_vars
  PROVE  loose' \in BOOLEAN
<1>0. loose \in BOOLEAN /\ act.happened \in BOOLEAN
  BY DEF TypeInv, RecordOK, ActOK
<1>1. CASE UNCHANGED vars \/ EnterPage \/ Look \/ Stop \/ Done \/ GiveUp \/ NotActionable \/ Dispatch \/ BeginRead \/ ProveLost
           \/ LookEscapes \/ ReadRecorded \/ ReadFailed \/ DecideAction \/ DecideStuck \/ RefuseRepeat \/ FailBeforeActing
  BY <1>0, <1>1 DEF EnterPage, Look, Stop, Done, GiveUp, NotActionable, Dispatch, BeginRead, ProveLost, LookEscapes, ReadRecorded,
                    ReadFailed, DecideAction, DecideStuck, RefuseRepeat, FailBeforeActing
<1>2. CASE SelectionAmbiguous \/ LostUnproven \/ VisualUnproven \/ Unproven
  BY <1>0, <1>2 DEF SelectionAmbiguous, LostUnproven, VisualUnproven, Unproven
<1>3. CASE Verified
  BY <1>0, <1>3, VerifiedWrites
<1>4. CASE HandBack
  BY <1>0, <1>4, HandBackWrites
<1>5. CASE PersonActs \/ Unrecordable \/ Restarts \/ ShowControlsFails \/ Aborts \/ StartAgain
  BY <1>0, <1>5 DEF PersonActs, Unrecordable, Restarts, ShowControlsFails, Aborts, StartAgain
<1> QED
  BY <1>1, <1>2, <1>3, <1>4, <1>5, ActionsOfNext

LEMMA RecordStep ==
  ASSUME TypeInv, [Next]_vars
  PROVE  RecordOK'
<1> DEFINE Rest == nodes \in Seq(Node) /\ outputs \in [Outputs -> Nat] /\ snapshot \in BOOLEAN
<1>0. Rest
  BY DEF TypeInv, RecordOK
<1> SUFFICES Rest'
  BY DeedsStep, LooseStep DEF RecordOK
<1>1. CASE UNCHANGED vars \/ RecorderRests
  <2>1. UNCHANGED <<nodes, outputs, snapshot>>
    BY <1>1, RestingRecorder
  <2> QED
    BY <1>0, <2>1
<1>2. CASE EnterPage
  <2>1. EntryNode \in Node
    BY ContractAssumption DEF ContractAssumption, EntryNode, Node
  <2>2. nodes' = <<EntryNode>> /\ UNCHANGED <<outputs, snapshot>>
    BY <1>2 DEF EnterPage
  <2> HIDE DEF Rest
  <2>3. nodes' \in Seq(Node)
    BY <2>1, <2>2
  <2> QED
    BY <1>0, <2>2, <2>3 DEF Rest
<1>3. CASE Verified
  <2>1. nodes' \in Seq(Node) /\ UNCHANGED <<outputs, snapshot>>
    BY <1>3, VerifiedWrites DEF Verified
  <2> QED
    BY <1>0, <2>1
<1>4. CASE ReadRecorded
  <2>1. Adds[act.id] \in Nat
    BY <1>4, ReadWrites, ContractAssumption DEF ContractAssumption
  <2>2. outputs' \in [Outputs -> Nat]
    <3>1. outputs' = [outputs EXCEPT ![Output[act.id]] = @ + Adds[act.id]] /\ Output[act.id] \in Outputs
      BY <1>4, ReadWrites
    <3>2. outputs[Output[act.id]] + Adds[act.id] \in Nat
      BY <1>0, <2>1, <3>1
    <3> QED
      BY <1>0, <3>1, <3>2
  <2>3. nodes' \in Seq(Node)
    BY <1>4, ReadWrites
  <2>4. snapshot' \in BOOLEAN
    BY <1>0, <1>4, ReadWrites
  <2> QED
    BY <2>2, <2>3, <2>4
<1>5. CASE ReadFailed
  <2>1. nodes' \in Seq(Node) /\ UNCHANGED <<outputs, snapshot>>
    BY <1>5, ReadFailedWrites DEF ReadFailed
  <2> QED
    BY <1>0, <2>1
<1>6. CASE HandBack
  <2>1. nodes' \in Seq(Node) /\ UNCHANGED <<outputs, snapshot>>
    BY <1>6, HandBackWrites DEF HandBack
  <2> QED
    BY <1>0, <2>1
<1>7. CASE StartAgain
  <2>1. nodes' = <<>> /\ outputs' = [o \in Outputs |-> 0] /\ snapshot' = FALSE
    BY <1>7 DEF StartAgain
  <2>2. nodes' \in Seq(Node)
    BY <2>1
  <2> QED
    BY <2>1, <2>2
<1> QED
  BY <1>1, <1>2, <1>3, <1>4, <1>5, <1>6, <1>7, StepsByRecorder

LEMMA TypeStep ==
  ASSUME TypeInv, [Next]_vars
  PROVE  TypeInv'
<1>1. ShapeInv'
  BY ShapeStep DEF TypeInv
<1> QED
  BY <1>1, PlaceStep, ActStep, CountsStep, RecordStep DEF TypeInv

\* discover keeps its types: the window of the loop detector holds at most twelve entries, no counter passes the bound
\* at which it is noticed, the budgets of vision and of restarts are kept, and what is refused as unverified is an
\* action at an address.
THEOREM TypesKept == Spec => []TypeOK
<1>1. TypeInv => TypeOK
  BY DEF TypeInv, PlaceOK, ActOK, CountsOK, RecordOK, TypeOK
<1> QED
  BY <1>1, TypeInit, TypeStep, PTL DEF Spec

-----------------------------------------------------------------------------
(* Reads. *)

\* The steps that lead into a verification, a proof or a new session; every other one leads elsewhere.
LEMMA PlacesTell ==
  ASSUME [Next]_vars, pc' \in {"entry", "verify", "prove"}
  PROVE  UNCHANGED vars \/ Dispatch \/ BeginRead \/ ProveLost \/ StartAgain
<1> USE DEF Over
<1>1. CASE EnterPage \/ Look \/ Stop \/ Done \/ GiveUp \/ Aborts \/ ShowControlsFails \/ Restarts \/ Unrecordable \/ LookEscapes
           \/ Verified \/ ReadRecorded \/ NotActionable
  BY <1>1 DEF EnterPage, Look, Stop, OutOfTurns, PageKeepsFailing, Done, DoneAccepted, DoneRejected, GiveUp, Aborts,
              ShowControlsFails, Restarts, Unrecordable, LookEscapes, Verified, ReadRecorded, NotActionable, End, NextTurn
<1>2. CASE DecideAction \/ DecideStuck
  BY <1>2, DecideTells
<1>3. CASE RefuseRepeat \/ FailBeforeActing \/ SelectionAmbiguous \/ LostUnproven \/ VisualUnproven \/ Unproven \/ ReadFailed
  BY <1>3 DEF RefuseRepeat, FailBeforeActing, SelectionAmbiguous, CountFailure, LostUnproven, VisualUnproven, Unproven, ReadFailed,
              AskPerson, NextTurn, End
<1>4. CASE PersonActs
  BY <1>4 DEF PersonActs
<1>5. CASE HandBack
  <2>1. PICK answer : Continue(answer)
    BY <1>5 DEF HandBack
  <2> QED
    BY <2>1 DEF Continue, NextTurn, End, AskPerson
<1> QED
  BY <1>1, <1>2, <1>3, <1>4, <1>5, ActionsOfNext

\* A read is verified with the outputs as they were when it was found to fit, and nothing is proven of one afterwards.
ReadHeld ==
    /\ pc = "prove" => Kind[act.id] \notin READS
    /\ pc = "verify" /\ Kind[act.id] \in READS => ~OutputConflict(act.id)
    /\ pc = "entry" => nodes = <<>> /\ outputs = [o \in Outputs |-> 0] /\ snapshot = FALSE

LEMMA ReadHeldStep ==
  ASSUME TypeInv, ReadHeld, [Next]_vars
  PROVE  ReadHeld'
<1>0. ShapeInv
  BY DEF TypeInv
<1>1. CASE pc' \notin {"entry", "verify", "prove"}
  BY <1>1 DEF ReadHeld
<1>2. CASE UNCHANGED vars
  BY <1>2 DEF ReadHeld, OutputConflict, SnapshotNeeded
<1>3. CASE Dispatch
  <2>1. Kind[act.id] \notin READS /\ pc' \in {"verify", "prove"} /\ act'.id = act.id
    BY <1>0, <1>3 DEF Dispatch, ShapeInv
  <2> QED
    BY <2>1 DEF ReadHeld
<1>4. CASE BeginRead
  <2>1. ~OutputConflict(act.id) /\ pc' = "verify" /\ act'.id = act.id /\ UNCHANGED <<outputs, snapshot>>
    BY <1>0, <1>4 DEF BeginRead, ShapeInv
  <2> QED
    BY <2>1 DEF ReadHeld, OutputConflict, SnapshotNeeded
<1>5. CASE ProveLost
  <2>1. pc = "prove" /\ pc' = "verify" /\ act'.id = act.id
    BY <1>0, <1>5 DEF ProveLost, ShapeInv
  <2> QED
    BY <2>1 DEF ReadHeld
<1>6. CASE StartAgain
  BY <1>6 DEF StartAgain, ReadHeld
<1> QED
  BY <1>1, <1>2, <1>3, <1>4, <1>5, <1>6, PlacesTell

IsRead(n) == n.by \in {"planner", "vision"} /\ Kind[n.id] \in READS
\* Up to the k-th node the recordings agree, and behind it neither reads anything.
ReadsKept(k) ==
    /\ k \in 0..Len(nodes) /\ k \in 0..Len(nodes')
    /\ \A i \in 1..k : Alike(nodes'[i], nodes[i])
    /\ \A i \in (k + 1)..Len(nodes) : ~IsRead(nodes[i])
    /\ \A i \in (k + 1)..Len(nodes') : ~IsRead(nodes'[i])

LEMMA MarksKeepReads ==
  ASSUME nodes \in Seq(Node), nodes' \in Seq(Node), SameButMarks(nodes', nodes)
  PROVE  ReadsKept(Len(nodes))
<1>1. Len(nodes) \in Nat /\ Len(nodes') = Len(nodes)
  BY DEF SameButMarks
<1> QED
  BY <1>1 DEF ReadsKept, SameButMarks

\* No step but a recorded read changes what the recording reads, and no read is ever cut from it.
LEMMA ReadsStay ==
  ASSUME TypeInv, ReadHeld,
         UNCHANGED vars \/ RecorderRests \/ EnterPage \/ Verified \/ ReadFailed \/ HandBack
  PROVE  (\E k \in 0..Len(nodes) : ReadsKept(k)) /\ UNCHANGED <<outputs, snapshot>>
<1>0. nodes \in Seq(Node) /\ Len(nodes) \in Nat /\ Len(nodes) \in 0..Len(nodes) /\ loose \in BOOLEAN /\ handoff.done \in Seq(Deed)
  BY DEF TypeInv, RecordOK
<1>1. CASE UNCHANGED vars \/ RecorderRests
  <2>1. UNCHANGED <<nodes, outputs, snapshot>>
    BY <1>1, RestingRecorder
  <2>2. SameButMarks(nodes', nodes)
    BY <1>0, <2>1, AlikeEnough
  <2>3. ReadsKept(Len(nodes))
    BY <1>0, <2>1, <2>2, MarksKeepReads
  <2> QED
    BY <1>0, <2>1, <2>3
<1>2. CASE EnterPage
  <2>1. nodes = <<>> /\ nodes' = <<EntryNode>> /\ UNCHANGED <<outputs, snapshot>>
    BY <1>2 DEF EnterPage, ReadHeld
  <2>2. Len(nodes) = 0 /\ Len(nodes') = 1 /\ nodes'[1].by = "entry"
    BY <2>1 DEF EntryNode
  <2>3. ReadsKept(0)
    BY <2>2 DEF ReadsKept, IsRead
  <2> QED
    BY <2>1, <2>2, <2>3
<1>3. CASE Verified
  <2>1. UNCHANGED <<outputs, snapshot>>
    BY <1>3 DEF Verified
  <2>2. CASE SameButMarks(nodes', nodes)
    BY <1>0, <1>3, <2>1, <2>2, MarksKeepReads, VerifiedWrites
  <2>3. ASSUME NEW p \in {"none", "text", "url", "state"}, NEW c \in BOOLEAN,
               SameButMarks(nodes', Append(nodes, NewNode(p, c)))
        PROVE  ReadsKept(Len(nodes))
    <3> DEFINE n == NewNode(p, c)
               ns == Append(nodes, n)
    <3>1. n \in Node /\ ~IsRead(n)
      <4>1. n \in Node
        BY <1>3, VerifiedWrites, NewNodeFits
      <4>2. n.id = act.id
        BY DEF NewNode
      <4> QED
        BY <1>3, <4>1, <4>2, VerifiedWrites DEF IsRead
    <3> HIDE DEF n
    <3>2. Len(ns) = Len(nodes) + 1 /\ \A i \in 1..(Len(nodes) + 1) : ns[i] = IF i = Len(nodes) + 1 THEN n ELSE nodes[i]
      BY <1>0, <3>1, AppendProperties
    <3>3. Len(nodes') = Len(nodes) + 1 /\ \A i \in 1..(Len(nodes) + 1) : Alike(nodes'[i], ns[i])
      BY <2>3, <3>2 DEF SameButMarks, n
    <3>4. \A i \in 1..Len(nodes) : Alike(nodes'[i], nodes[i])
      BY <1>0, <3>2, <3>3
    <3>5. Alike(nodes'[Len(nodes) + 1], n)
      BY <1>0, <3>2, <3>3
    <3>6. ~IsRead(nodes'[Len(nodes) + 1])
      BY <3>1, <3>5 DEF Alike, IsRead
    <3> QED
      BY <1>0, <3>3, <3>4, <3>6 DEF ReadsKept
  <2> QED
    BY <1>0, <1>3, <2>1, <2>2, <2>3, VerifiedWrites
<1>4. CASE ReadFailed
  <2>1. nodes' \in Seq(Node) /\ SameButMarks(nodes', nodes) /\ UNCHANGED <<outputs, snapshot>>
    BY <1>4, ReadFailedWrites DEF ReadFailed
  <2> QED
    BY <1>0, <2>1, MarksKeepReads
<1>5. CASE HandBack
  <2>1. UNCHANGED <<outputs, snapshot>> /\ nodes' \in Seq(Node)
    BY <1>5, HandBackWrites DEF HandBack
  <2>2. CASE SameButMarks(nodes', nodes)
    BY <1>0, <2>1, <2>2, MarksKeepReads
  <2>3. CASE handoff.done # <<>> /\ SameButMarks(nodes', WithPersonNodes(handoff.done))
    <3> DEFINE ns == WithPersonNodes(handoff.done)
               done == handoff.done
    <3>1. PICK k \in 0..Len(nodes), gap \in BOOLEAN : Joined(ns, k, gap, done) /\ KeptUpTo(k, done[1].from)
      BY <1>0, <2>3, WithPersonTells
    <3>2. Len(done) \in Nat
      BY <1>0
    <3>3. Len(nodes') = k + Len(done) /\ \A i \in 1..(k + Len(done)) : Alike(nodes'[i], ns[i])
      BY <2>3, <3>1 DEF SameButMarks, Joined
    <3>4. \A i \in 1..k : Alike(nodes'[i], nodes[i])
      BY <3>1, <3>2, <3>3 DEF Joined
    <3>5. \A i \in (k + 1)..Len(nodes) : ~IsRead(nodes[i])
      <4>1. k < Len(nodes) => \A i \in (k + 1)..Len(nodes) : ~Boundary(nodes[i], Url[done[1].from])
        BY <3>1 DEF KeptUpTo
      <4> QED
        BY <1>0, <4>1 DEF Boundary, IsRead
    <3>6. ASSUME NEW i \in (k + 1)..Len(nodes')
          PROVE  ~IsRead(nodes'[i])
      <4>1. i - k \in 1..Len(done) /\ k + (i - k) = i /\ i \in 1..(k + Len(done))
        BY <3>2, <3>3
      <4>2. ns[k + (i - k)] = PersonNode(done[i - k], i - k = 1 /\ gap)
        BY <3>1, <4>1 DEF Joined
      <4>3. ns[i].by = "person"
        BY <4>1, <4>2 DEF PersonNode
      <4> QED
        BY <3>3, <4>1, <4>3 DEF Alike, IsRead
    <3>7. ReadsKept(k)
      BY <3>2, <3>3, <3>4, <3>5, <3>6 DEF ReadsKept
    <3> QED
      BY <2>1, <3>7
  <2> QED
    BY <1>0, <1>5, <2>1, <2>2, <2>3, HandBackWrites
<1> QED
  BY <1>1, <1>2, <1>3, <1>4, <1>5

\* Among aligned lists, the nodes that read a whole column, and those that add a value to one.
ReadsColumn(n) == IsRead(n) /\ Output[n.id] \in Aligned /\ Kind[n.id] = "extract_many"
AddsToColumn(n) == IsRead(n) /\ Output[n.id] \in Aligned /\ n.id \in Appends
FixedFirst(ns) ==
    \A i \in 1..Len(ns) : AddsToColumn(ns[i]) => \E j \in 1..(i - 1) : ReadsColumn(ns[j])

OrderInv ==
    /\ TypeInv /\ ReadHeld
    /\ snapshot => \E j \in 1..Len(nodes) : ReadsColumn(nodes[j])
    /\ FixedFirst(nodes)

LEMMA FixedFirstSuffices ==
  ASSUME nodes \in Seq(Node), FixedFirst(nodes)
  PROVE  OrderFixedFirst
<1>0. DOMAIN nodes = 1..Len(nodes) /\ Len(nodes) \in Nat
  OBVIOUS
<1> SUFFICES ASSUME Aligned # {}, NEW o \in Aligned, NEW i \in ReadBy(o), nodes[i].id \in Appends
             PROVE  \E j \in 1..(i - 1) : \E q \in Aligned : j \in ReadBy(q) /\ Kind[nodes[j].id] = "extract_many"
  BY DEF OrderFixedFirst
<1>1. i \in 1..Len(nodes) /\ AddsToColumn(nodes[i])
  BY <1>0 DEF ReadBy, AddsToColumn, IsRead
<1>2. PICK j \in 1..(i - 1) : ReadsColumn(nodes[j])
  BY <1>1 DEF FixedFirst
<1>3. j \in DOMAIN nodes
  BY <1>0, <1>1, <1>2
<1>4. j \in ReadBy(Output[nodes[j].id]) /\ Output[nodes[j].id] \in Aligned /\ Kind[nodes[j].id] = "extract_many"
  BY <1>2, <1>3 DEF ReadsColumn, IsRead, ReadBy
<1> QED
  BY <1>2, <1>4

LEMMA KeptOrder ==
  ASSUME nodes \in Seq(Node), nodes' \in Seq(Node), NEW k \in 0..Len(nodes), ReadsKept(k)
  PROVE  /\ FixedFirst(nodes) => FixedFirst(nodes')
         /\ (\E j \in 1..Len(nodes) : ReadsColumn(nodes[j])) => \E j \in 1..Len(nodes') : ReadsColumn(nodes'[j])
<1>0. Len(nodes) \in Nat /\ Len(nodes') \in Nat /\ k \in 0..Len(nodes')
  BY DEF ReadsKept
<1>1. ASSUME NEW i \in 1..k
      PROVE  /\ i \in 1..Len(nodes) /\ i \in 1..Len(nodes')
             /\ ReadsColumn(nodes[i]) <=> ReadsColumn(nodes'[i])
             /\ AddsToColumn(nodes[i]) <=> AddsToColumn(nodes'[i])
  <2>1. Alike(nodes'[i], nodes[i])
    BY DEF ReadsKept
  <2>2. nodes'[i].by = nodes[i].by /\ nodes'[i].id = nodes[i].id
    BY <2>1 DEF Alike
  <2> QED
    BY <1>0, <2>2 DEF ReadsColumn, AddsToColumn, IsRead
<1>2. ASSUME NEW i \in 1..Len(nodes), IsRead(nodes[i])
      PROVE  i \in 1..k
  <2>1. i \notin (k + 1)..Len(nodes)
    BY <1>2 DEF ReadsKept
  <2> QED
    BY <1>0, <2>1
<1>3. ASSUME NEW i \in 1..Len(nodes'), IsRead(nodes'[i])
      PROVE  i \in 1..k
  <2>1. i \notin (k + 1)..Len(nodes')
    BY <1>3 DEF ReadsKept
  <2> QED
    BY <1>0, <2>1
<1>4. ASSUME FixedFirst(nodes), NEW i \in 1..Len(nodes'), AddsToColumn(nodes'[i])
      PROVE  \E j \in 1..(i - 1) : ReadsColumn(nodes'[j])
  <2>1. i \in 1..k
    BY <1>3, <1>4 DEF AddsToColumn
  <2>2. PICK j \in 1..(i - 1) : ReadsColumn(nodes[j])
    BY <1>1, <1>4, <2>1 DEF FixedFirst
  <2>3. j \in 1..k
    BY <1>0, <2>1, <2>2
  <2> QED
    BY <1>1, <2>2, <2>3
<1>5. ASSUME NEW j \in 1..Len(nodes), ReadsColumn(nodes[j])
      PROVE  \E m \in 1..Len(nodes') : ReadsColumn(nodes'[m])
  <2>1. j \in 1..k
    BY <1>2, <1>5 DEF ReadsColumn
  <2> QED
    BY <1>1, <1>5, <2>1
<1> QED
  BY <1>4, <1>5 DEF FixedFirst

\* The node of a recorded read comes last, and nothing else changes but marks.
LEMMA ReadAppends ==
  ASSUME TypeInv, ReadRecorded
  PROVE  LET m == Len(nodes) + 1
         IN  /\ nodes' \in Seq(Node) /\ Len(nodes) \in Nat /\ Len(nodes') = m
             /\ \A i \in 1..Len(nodes) : Alike(nodes'[i], nodes[i])
             /\ nodes'[m].id = act.id /\ IsRead(nodes'[m])
<1> DEFINE n == NewNode("none", FALSE)
           ns == Append(nodes, n)
<1>0. nodes \in Seq(Node) /\ Len(nodes) \in Nat
  BY DEF TypeInv, RecordOK
<1>1. n \in Node /\ n.id = act.id /\ IsRead(n)
  <2>1. n \in Node
    BY ReadWrites, NewNodeFits
  <2>2. n.id = act.id /\ n.by \in {"planner", "vision"}
    BY DEF NewNode
  <2> QED
    BY <2>1, <2>2, ReadWrites DEF IsRead
<1>2. nodes' \in Seq(Node) /\ SameButMarks(nodes', ns)
  BY ReadWrites
<1> HIDE DEF n
<1>3. Len(ns) = Len(nodes) + 1 /\ \A i \in 1..(Len(nodes) + 1) : ns[i] = IF i = Len(nodes) + 1 THEN n ELSE nodes[i]
  BY <1>0, <1>1, AppendProperties
<1>4. Len(nodes') = Len(nodes) + 1 /\ \A i \in 1..(Len(nodes) + 1) : Alike(nodes'[i], ns[i])
  BY <1>2, <1>3 DEF SameButMarks
<1>5. \A i \in 1..Len(nodes) : Alike(nodes'[i], nodes[i])
  BY <1>0, <1>3, <1>4
<1>6. Alike(nodes'[Len(nodes) + 1], n)
  BY <1>0, <1>3, <1>4
<1>7. nodes'[Len(nodes) + 1].id = act.id /\ IsRead(nodes'[Len(nodes) + 1])
  BY <1>1, <1>6 DEF Alike, IsRead
<1> QED
  BY <1>0, <1>2, <1>4, <1>5, <1>7

LEMMA OrderInit == Init => OrderInv
<1> SUFFICES ASSUME Init PROVE OrderInv
  OBVIOUS
<1>1. nodes = <<>> /\ Len(nodes) = 0 /\ snapshot = FALSE /\ pc = "entry" /\ outputs = [o \in Outputs |-> 0]
  BY DEF Init
<1> QED
  BY <1>1, TypeInit DEF OrderInv, ReadHeld, FixedFirst

LEMMA OrderStep ==
  ASSUME OrderInv, [Next]_vars
  PROVE  OrderInv'
<1>0. /\ TypeInv /\ TypeInv' /\ ReadHeld /\ ReadHeld' /\ nodes \in Seq(Node) /\ nodes' \in Seq(Node)
      /\ Len(nodes) \in Nat /\ Len(nodes') \in Nat
  BY TypeStep, ReadHeldStep DEF OrderInv, TypeInv, RecordOK
<1> SUFFICES (snapshot' => \E j \in 1..Len(nodes') : ReadsColumn(nodes'[j])) /\ FixedFirst(nodes')
  BY <1>0 DEF OrderInv, FixedFirst, ReadsColumn, AddsToColumn, IsRead
<1>1. CASE UNCHANGED vars \/ RecorderRests \/ EnterPage \/ Verified \/ ReadFailed \/ HandBack
  <2>1. PICK k \in 0..Len(nodes) : ReadsKept(k) /\ UNCHANGED <<outputs, snapshot>>
    BY <1>0, <1>1, ReadsStay
  <2> QED
    BY <1>0, <2>1, KeptOrder DEF OrderInv
<1>2. CASE ReadRecorded
  <2> DEFINE m == Len(nodes) + 1
  <2>1. /\ Len(nodes') = m /\ \A i \in 1..Len(nodes) : Alike(nodes'[i], nodes[i])
        /\ nodes'[m].id = act.id /\ IsRead(nodes'[m])
    BY <1>0, <1>2, ReadAppends
  <2>2. \A i \in 1..Len(nodes) : /\ ReadsColumn(nodes[i]) <=> ReadsColumn(nodes'[i])
                                 /\ AddsToColumn(nodes[i]) <=> AddsToColumn(nodes'[i])
    BY <2>1 DEF Alike, ReadsColumn, AddsToColumn, IsRead
  <2>3. snapshot \/ (Aligned # {} /\ Kind[act.id] = "extract_many") \/ ~snapshot'
    BY <1>0, <1>2, ReadWrites
  <2>4. ~OutputConflict(act.id) /\ Kind[act.id] \in READS /\ Output[act.id] \in Outputs
    BY <1>0, <1>2, ReadWrites DEF ReadHeld
  <2>5. ASSUME Aligned # {}, Kind[act.id] = "extract_many"
        PROVE  ReadsColumn(nodes'[m])
    <3>1. IsList[Output[act.id]]
      BY <2>4, <2>5 DEF OutputConflict
    <3>2. Output[act.id] \in Aligned
      BY <2>4, <2>5, <3>1 DEF Aligned
    <3> QED
      BY <2>1, <2>5, <3>2 DEF ReadsColumn
  <2>6. snapshot' => \E j \in 1..Len(nodes') : ReadsColumn(nodes'[j])
    <3>1. CASE snapshot
      <4>1. PICK j \in 1..Len(nodes) : ReadsColumn(nodes[j])
        BY <3>1 DEF OrderInv
      <4> QED
        BY <1>0, <2>1, <2>2, <4>1
    <3>2. CASE Aligned # {} /\ Kind[act.id] = "extract_many"
      BY <1>0, <2>1, <2>5, <3>2
    <3> QED
      BY <2>3, <3>1, <3>2
  <2>7. ASSUME NEW i \in 1..Len(nodes'), AddsToColumn(nodes'[i])
        PROVE  \E j \in 1..(i - 1) : ReadsColumn(nodes'[j])
    <3>1. CASE i \in 1..Len(nodes)
      <4>1. PICK j \in 1..(i - 1) : ReadsColumn(nodes[j])
        BY <2>2, <2>7, <3>1 DEF OrderInv, FixedFirst
      <4>2. j \in 1..Len(nodes)
        BY <1>0, <3>1, <4>1
      <4> QED
        BY <2>2, <4>1, <4>2
    <3>2. CASE i = m
      <4>1. Aligned # {} /\ act.id \in Appends
        BY <2>1, <2>7, <3>2 DEF AddsToColumn
      <4>2. snapshot
        BY <2>4, <4>1 DEF OutputConflict, SnapshotNeeded
      <4>3. PICK j \in 1..Len(nodes) : ReadsColumn(nodes[j])
        BY <4>2 DEF OrderInv
      <4> QED
        BY <1>0, <2>2, <3>2, <4>3
    <3> QED
      BY <1>0, <2>1, <3>1, <3>2
  <2> QED
    BY <2>6, <2>7 DEF FixedFirst
<1>3. CASE StartAgain
  <2>1. Len(nodes') = 0 /\ snapshot' = FALSE
    BY <1>3 DEF StartAgain
  <2> QED
    BY <2>1 DEF FixedFirst
<1> QED
  BY <1>1, <1>2, <1>3, StepsByRecorder

\* Recorder.snapshot_needed: of lists that belong together, nothing is read one value at a time before a whole column
\* fixed which results they are, in every recording, however it was read, cut by a navigation or continued by a person.
THEOREM ColumnComesFirst == Spec => []OrderFixedFirst
<1>1. OrderInv => OrderFixedFirst
  BY FixedFirstSuffices DEF OrderInv, TypeInv, RecordOK
<1> QED
  BY <1>1, OrderInit, OrderStep, PTL DEF Spec

LEMMA LeastOf ==
  ASSUME NEW T \in SUBSET Nat, T # {}
  PROVE  \E x \in T : \A y \in T : x <= y
<1>1. IsWellFoundedOn(OpToRel(<, Nat), Nat)
  BY NatLessThanWellFounded
<1>2. PICK x \in T : \A y \in T : ~ (<<y, x>> \in OpToRel(<, Nat))
  BY <1>1, WFMin
<1>3. \A y \in T : ~(y < x)
  <2>1. \A y, z \in Nat : y < z => <<y, z>> \in OpToRel(<, Nat)
    BY DEF OpToRel
  <2> QED
    BY <1>2, <2>1
<1>4. x \in Nat /\ \A y \in T : y \in Nat
  BY <1>2
<1>5. \A y \in T : x <= y
  BY <1>3, <1>4
<1> QED
  BY <1>2, <1>5

-----------------------------------------------------------------------------
(* What the recording reads of an output, counted along it. *)

Reads(n, o) == IsRead(n) /\ Output[n.id] = o
Weight(n, o) == IF Reads(n, o) THEN Adds[n.id] ELSE 0
Counts(t, ns, o) ==
    /\ t \in [0..Len(ns) -> Nat] /\ t[0] = 0
    /\ \A i \in 1..Len(ns) : t[i] = t[i - 1] + Weight(ns[i], o)

\* Where nothing is read, the count stays.
LEMMA CountRests ==
  ASSUME NEW ns \in Seq(Node), NEW o, NEW t, Counts(t, ns, o), NEW k \in 0..Len(ns),
         \A i \in (k + 1)..Len(ns) : ~IsRead(ns[i])
  PROVE  t[Len(ns)] = t[k]
<1> DEFINE T == {i \in k..Len(ns) : t[i] # t[k]}
<1>0. Len(ns) \in Nat /\ k \in Nat /\ k <= Len(ns)
  OBVIOUS
<1> SUFFICES ASSUME T # {} PROVE FALSE
  BY <1>0
<1>1. T \in SUBSET Nat
  BY <1>0
<1>2. PICK x \in T : \A y \in T : x <= y
  BY <1>1, LeastOf
<1>3. x \in k..Len(ns) /\ t[x] # t[k] /\ x # k
  BY <1>2
<1>4. x - 1 \in k..Len(ns) /\ x \in 1..Len(ns) /\ x \in (k + 1)..Len(ns) /\ ~(x <= x - 1)
  BY <1>0, <1>3
<1>5. t[x - 1] = t[k]
  BY <1>2, <1>4
<1>6. t[x] = t[x - 1] + 0 /\ t[x - 1] \in Nat
  BY <1>0, <1>4 DEF Counts, Weight, Reads
<1> QED
  BY <1>3, <1>5, <1>6

\* The count of the operator Tally is the only one.
LEMMA CountIsTally ==
  ASSUME nodes \in Seq(Node), NEW o, NEW t, Counts(t, nodes, o)
  PROVE  Tally(o)[Len(nodes)] = t[Len(nodes)]
<1> DEFINE W(i) == IF i \in ReadBy(o) THEN Adds[nodes[i].id] ELSE 0
           Fits(f) == f = [i \in 0..Len(nodes) |-> IF i = 0 THEN 0 ELSE f[i - 1] + W(i)]
           u == CHOOSE f : Fits(f)
<1>0. Len(nodes) \in Nat /\ DOMAIN nodes = 1..Len(nodes)
  OBVIOUS
<1>1. \A i \in 1..Len(nodes) : W(i) = Weight(nodes[i], o)
  BY <1>0 DEF ReadBy, Weight, Reads, IsRead
<1>2. Tally(o) = u
  BY DEF Tally
<1> HIDE DEF W
<1>3. Fits(t)
  <2>1. \A i \in 0..Len(nodes) : t[i] = IF i = 0 THEN 0 ELSE t[i - 1] + W(i)
    BY <1>0, <1>1 DEF Counts
  <2>2. t = [i \in 0..Len(nodes) |-> t[i]]
    BY DEF Counts
  <2> QED
    BY <2>1, <2>2
<1>4. Fits(u)
  <2> HIDE DEF Fits
  <2> QED
    BY <1>3
<1> HIDE DEF u
<1>5. \A i \in 0..Len(nodes) : u[i] = IF i = 0 THEN 0 ELSE u[i - 1] + W(i)
  BY <1>4
<1>6. \A i \in 0..Len(nodes) : t[i] = IF i = 0 THEN 0 ELSE t[i - 1] + W(i)
  BY <1>3
<1> HIDE DEF Fits
<1> DEFINE T == {i \in 0..Len(nodes) : u[i] # t[i]}
<1>7. ASSUME T # {} PROVE FALSE
  <2>1. T \in SUBSET Nat
    BY <1>0
  <2>2. PICK x \in T : \A y \in T : x <= y
    BY <1>7, <2>1, LeastOf
  <2>3. x \in 0..Len(nodes) /\ u[x] # t[x] /\ x # 0
    BY <1>0, <1>5, <1>6, <2>2
  <2>4. x - 1 \in 0..Len(nodes) /\ ~(x <= x - 1)
    BY <1>0, <2>3
  <2>5. u[x - 1] = t[x - 1]
    BY <2>2, <2>4
  <2> QED
    BY <1>5, <1>6, <2>3, <2>5
<1> QED
  BY <1>0, <1>2, <1>7

LEMMA CountIsUntold ==
  ASSUME nodes \in Seq(Node), nodes' \in Seq(Node), NEW k \in 0..Len(nodes), ReadsKept(k),
         NEW o, NEW t, Counts(t, nodes, o)
  PROVE  \E v : Counts(v, nodes', o) /\ v[Len(nodes')] = t[Len(nodes)]
<1> DEFINE v == [i \in 0..Len(nodes') |-> IF i <= k THEN t[i] ELSE t[k]]
<1>0. Len(nodes) \in Nat /\ Len(nodes') \in Nat /\ k \in 0..Len(nodes') /\ t \in [0..Len(nodes) -> Nat] /\ t[0] = 0
  BY DEF ReadsKept, Counts
<1>1. \A i \in 0..Len(nodes') : v[i] = IF i <= k THEN t[i] ELSE t[k]
  OBVIOUS
<1>2. \A i \in 0..k : i \in 0..Len(nodes) /\ t[i] \in Nat
  BY <1>0
<1>3. v \in [0..Len(nodes') -> Nat]
  BY <1>0, <1>2
<1> HIDE DEF v
<1>4. ASSUME NEW i \in 1..Len(nodes')
      PROVE  v[i] = v[i - 1] + Weight(nodes'[i], o)
  <2>1. i \in 0..Len(nodes') /\ i - 1 \in 0..Len(nodes')
    BY <1>0
  <2>2. CASE i <= k
    <3>1. i \in 1..k /\ i \in 1..Len(nodes) /\ i - 1 <= k
      BY <1>0, <2>2
    <3>2. Weight(nodes'[i], o) = Weight(nodes[i], o)
      BY <3>1 DEF ReadsKept, Alike, Weight, Reads, IsRead
    <3>3. t[i] = t[i - 1] + Weight(nodes[i], o)
      BY <3>1 DEF Counts
    <3> QED
      BY <1>1, <2>1, <2>2, <3>1, <3>2, <3>3
  <2>3. CASE ~(i <= k)
    <3>1. i \in (k + 1)..Len(nodes')
      BY <1>0, <2>3
    <3>2. Weight(nodes'[i], o) = 0
      BY <3>1 DEF ReadsKept, Weight, Reads
    <3>3. v[i] = t[k] /\ v[i - 1] = t[k] /\ t[k] \in Nat
      <4>1. i - 1 <= k => i - 1 = k
        BY <1>0, <2>3
      <4>2. v[i - 1] = t[k]
        BY <1>1, <2>1, <4>1
      <4>3. t[k] \in Nat
        BY <1>0, <1>2
      <4> QED
        BY <1>1, <2>1, <2>3, <4>2, <4>3
    <3> QED
      BY <3>2, <3>3
  <2> QED
    BY <2>2, <2>3
<1>5. v[0] = 0
  BY <1>0, <1>1
<1>6. v[Len(nodes')] = t[k]
  <2>1. Len(nodes') <= k => Len(nodes') = k
    BY <1>0
  <2> QED
    BY <1>0, <1>1, <2>1
<1>7. t[Len(nodes)] = t[k]
  BY CountRests DEF ReadsKept
<1> QED
  BY <1>3, <1>4, <1>5, <1>6, <1>7 DEF Counts

LEMMA CountGrows ==
  ASSUME TypeInv, ReadRecorded, NEW o, NEW t, Counts(t, nodes, o)
  PROVE  \E v : Counts(v, nodes', o)
                /\ v[Len(nodes')] = t[Len(nodes)] + (IF o = Output[act.id] THEN Adds[act.id] ELSE 0)
<1> DEFINE m == Len(nodes) + 1
           w == IF o = Output[act.id] THEN Adds[act.id] ELSE 0
           v == [i \in 0..m |-> IF i <= Len(nodes) THEN t[i] ELSE t[Len(nodes)] + w]
<1>0. /\ Len(nodes) \in Nat /\ Len(nodes') = m /\ m \in Nat
      /\ \A i \in 1..Len(nodes) : Alike(nodes'[i], nodes[i])
      /\ nodes'[m].id = act.id /\ IsRead(nodes'[m])
      /\ t \in [0..Len(nodes) -> Nat] /\ t[0] = 0
  BY ReadAppends DEF Counts
<1>w. w \in Nat
  BY ReadWrites, ContractAssumption DEF ContractAssumption
<1>1. \A i \in 0..m : v[i] = IF i <= Len(nodes) THEN t[i] ELSE t[Len(nodes)] + w
  OBVIOUS
<1>2. v \in [0..m -> Nat]
  <2>1. \A i \in 0..m : i <= Len(nodes) => i \in 0..Len(nodes)
    BY <1>0
  <2>2. Len(nodes) \in 0..Len(nodes) /\ t[Len(nodes)] + w \in Nat
    BY <1>0, <1>w
  <2> HIDE DEF w
  <2> QED
    BY <1>0, <2>1, <2>2
<1>3. Weight(nodes'[m], o) = w
  BY <1>0 DEF Weight, Reads
<1> HIDE DEF v, w
<1>4. ASSUME NEW i \in 1..m
      PROVE  v[i] = v[i - 1] + Weight(nodes'[i], o)
  <2>1. i \in 0..m /\ i - 1 \in 0..m /\ i - 1 <= Len(nodes)
    BY <1>0
  <2>2. CASE i <= Len(nodes)
    <3>1. i \in 1..Len(nodes)
      BY <1>0, <2>2
    <3>2. Weight(nodes'[i], o) = Weight(nodes[i], o)
      BY <1>0, <3>1 DEF Alike, Weight, Reads, IsRead
    <3>3. t[i] = t[i - 1] + Weight(nodes[i], o)
      BY <3>1 DEF Counts
    <3> QED
      BY <1>1, <2>1, <2>2, <3>2, <3>3
  <2>3. CASE ~(i <= Len(nodes))
    <3>1. i = m /\ i - 1 = Len(nodes)
      BY <1>0, <2>3
    <3> QED
      BY <1>1, <1>3, <2>1, <2>3, <3>1
  <2> QED
    BY <2>2, <2>3
<1>5. v[0] = 0 /\ v[m] = t[Len(nodes)] + w
  <2>1. 0 \in 0..m /\ 0 <= Len(nodes) /\ m \in 0..m /\ ~(m <= Len(nodes))
    BY <1>0
  <2> QED
    BY <1>0, <1>1, <2>1
<1>6. Counts(v, nodes', o)
  BY <1>0, <1>2, <1>4, <1>5 DEF Counts
<1> QED
  BY <1>0, <1>5, <1>6 DEF w

\* Nothing ends a session successfully but the planner's claim, checked against the contract.
LEMMA BuiltTells ==
  ASSUME [Next]_vars, pc' = "built"
  PROVE  UNCHANGED vars \/ (Done /\ ContractMet)
<1>1. CASE EnterPage \/ Look \/ Stop \/ GiveUp \/ Aborts \/ ShowControlsFails \/ Restarts \/ Unrecordable \/ LookEscapes
           \/ Verified \/ ReadRecorded \/ NotActionable \/ Dispatch \/ BeginRead \/ ProveLost \/ StartAgain
  BY <1>1 DEF EnterPage, Look, Stop, OutOfTurns, PageKeepsFailing, GiveUp, Aborts, Dispatch, BeginRead, ProveLost, StartAgain,
              ShowControlsFails, Restarts, Unrecordable, LookEscapes, Verified, ReadRecorded, NotActionable, End, NextTurn
<1>2. CASE DecideAction \/ DecideStuck
  BY <1>2, DecideTells
<1>3. CASE RefuseRepeat \/ FailBeforeActing \/ SelectionAmbiguous \/ LostUnproven \/ VisualUnproven \/ Unproven \/ ReadFailed
  BY <1>3 DEF RefuseRepeat, FailBeforeActing, SelectionAmbiguous, CountFailure, LostUnproven, VisualUnproven, Unproven, ReadFailed,
              AskPerson, NextTurn, End
<1>4. CASE PersonActs
  <2>1. pc = "handoff" /\ pc' = pc
    BY <1>4 DEF PersonActs
  <2> QED
    BY <2>1
<1>5. CASE HandBack
  <2>1. PICK answer : Continue(answer)
    BY <1>5 DEF HandBack
  <2> QED
    BY <2>1 DEF Continue, NextTurn, End, AskPerson
<1>6. CASE Done
  <2>1. DoneAccepted
    BY <1>6 DEF Done, DoneRejected, NextTurn, End
  <2> QED
    BY <1>6, <2>1 DEF DoneAccepted
<1> QED
  BY <1>1, <1>2, <1>3, <1>4, <1>5, <1>6, ActionsOfNext

\* An output was read exactly when it holds something; what is added to it keeps within the contract.
Held(o) == outputs[o] = 0 => \A i \in 1..Len(nodes) : ~Reads(nodes[i], o)
Within(o) == (\E i \in 1..Len(nodes) : Reads(nodes[i], o) /\ nodes[i].id \in Appends) => outputs[o] <= MaxItems[o]
Counted(o) == \E t : Counts(t, nodes, o) /\ t[Len(nodes)] = outputs[o]

TallyInv ==
    /\ TypeInv /\ ReadHeld
    /\ \A o \in Outputs : Counted(o) /\ Held(o) /\ Within(o)
    /\ pc = "built" => ContractMet

LEMMA TallySuffices ==
  ASSUME TallyInv
  PROVE  OutputsBacked
<1>0. nodes \in Seq(Node) /\ DOMAIN nodes = 1..Len(nodes)
  BY DEF TallyInv, TypeInv, RecordOK
<1> SUFFICES ASSUME NEW o \in Outputs
             PROVE  /\ outputs[o] = Tally(o)[Len(nodes)]
                    /\ (\E i \in ReadBy(o) : nodes[i].id \in Appends) => outputs[o] <= MaxItems[o]
                    /\ pc = "built" => outputs[o] \in MinItems[o]..MaxItems[o]
  BY DEF OutputsBacked
<1>1. outputs[o] = Tally(o)[Len(nodes)]
  BY <1>0, CountIsTally DEF TallyInv, Counted
<1>2. (\E i \in ReadBy(o) : nodes[i].id \in Appends) => outputs[o] <= MaxItems[o]
  BY <1>0 DEF TallyInv, Within, ReadBy, Reads, IsRead
<1>3. pc = "built" => outputs[o] \in MinItems[o]..MaxItems[o]
  BY DEF TallyInv, ContractMet
<1> QED
  BY <1>1, <1>2, <1>3

\* A recording that reads nothing yet.
LEMMA NothingRead ==
  ASSUME nodes = <<>>, outputs = [o \in Outputs |-> 0], NEW o \in Outputs
  PROVE  Counted(o) /\ Held(o) /\ Within(o)
<1> DEFINE t == [i \in 0..0 |-> 0]
<1>1. Len(nodes) = 0 /\ outputs[o] = 0
  OBVIOUS
<1>2. t \in [0..0 -> Nat] /\ t[0] = 0
  OBVIOUS
<1> HIDE DEF t
<1>3. Counts(t, nodes, o) /\ t[Len(nodes)] = outputs[o]
  BY <1>1, <1>2 DEF Counts
<1> QED
  BY <1>1, <1>3 DEF Counted, Held, Within

LEMMA TallyInit == Init => TallyInv
<1> SUFFICES ASSUME Init PROVE TallyInv
  OBVIOUS
<1>1. nodes = <<>> /\ outputs = [o \in Outputs |-> 0] /\ snapshot = FALSE /\ pc = "entry"
  BY DEF Init
<1> QED
  BY <1>1, TypeInit, NothingRead DEF TallyInv, ReadHeld

LEMMA KeptTally ==
  ASSUME TallyInv, nodes' \in Seq(Node), NEW k \in 0..Len(nodes), ReadsKept(k), outputs' = outputs, NEW o \in Outputs
  PROVE  Counted(o)' /\ Held(o)' /\ Within(o)'
<1>0. nodes \in Seq(Node) /\ Len(nodes) \in Nat /\ Len(nodes') \in Nat
  BY DEF TallyInv, TypeInv, RecordOK
<1>1. Counted(o)'
  <2>1. PICK t : Counts(t, nodes, o) /\ t[Len(nodes)] = outputs[o]
    BY DEF TallyInv, Counted
  <2>2. PICK v : Counts(v, nodes', o) /\ v[Len(nodes')] = t[Len(nodes)]
    BY <1>0, <2>1, CountIsUntold
  <2> QED
    BY <2>1, <2>2 DEF Counted, Counts, Weight, Reads, IsRead
<1>2. ASSUME NEW i \in 1..Len(nodes'), Reads(nodes'[i], o)
      PROVE  i \in 1..Len(nodes) /\ Reads(nodes[i], o) /\ nodes[i].id = nodes'[i].id
  <2>1. i \notin (k + 1)..Len(nodes')
    BY <1>2 DEF ReadsKept, Reads
  <2>2. i \in 1..k /\ i \in 1..Len(nodes)
    BY <1>0, <2>1
  <2>3. Alike(nodes'[i], nodes[i])
    BY <2>2 DEF ReadsKept
  <2> QED
    BY <1>2, <2>2, <2>3 DEF Alike, Reads, IsRead
<1>3. Held(o)'
  <2>1. outputs[o] = 0 => \A i \in 1..Len(nodes') : ~Reads(nodes'[i], o)
    BY <1>2 DEF TallyInv, Held
  <2> QED
    BY <2>1 DEF Held, Reads, IsRead
<1>4. Within(o)'
  <2>1. (\E i \in 1..Len(nodes') : Reads(nodes'[i], o) /\ nodes'[i].id \in Appends) => outputs[o] <= MaxItems[o]
    BY <1>2 DEF TallyInv, Within
  <2> QED
    BY <2>1 DEF Within, Reads, IsRead
<1> QED
  BY <1>1, <1>3, <1>4

LEMMA ReadTally ==
  ASSUME TallyInv, ReadRecorded, NEW o \in Outputs
  PROVE  Counted(o)' /\ Held(o)' /\ Within(o)'
<1> DEFINE m == Len(nodes) + 1
           w == IF o = Output[act.id] THEN Adds[act.id] ELSE 0
<1>0. /\ TypeInv /\ nodes \in Seq(Node) /\ outputs \in [Outputs -> Nat] /\ MaxItems[o] \in Nat
      /\ Len(nodes) \in Nat /\ Len(nodes') = m
      /\ \A i \in 1..Len(nodes) : Alike(nodes'[i], nodes[i])
      /\ nodes'[m].id = act.id /\ IsRead(nodes'[m])
  BY ReadAppends, ContractAssumption DEF TallyInv, TypeInv, RecordOK, ContractAssumption
<1>1. /\ act.id \in Actions /\ Kind[act.id] \in READS /\ Output[act.id] \in Outputs /\ ~OutputConflict(act.id)
      /\ Adds[act.id] \in Nat \ {0}
      /\ outputs' = [outputs EXCEPT ![Output[act.id]] = @ + Adds[act.id]]
  BY <1>0, ReadWrites, ContractAssumption DEF TallyInv, ReadHeld, ContractAssumption
<1>2. outputs'[o] = outputs[o] + w
  BY <1>0, <1>1
<1>3. Counted(o)'
  <2>1. PICK t : Counts(t, nodes, o) /\ t[Len(nodes)] = outputs[o]
    BY DEF TallyInv, Counted
  <2>2. PICK v : Counts(v, nodes', o) /\ v[Len(nodes')] = t[Len(nodes)] + w
    BY <1>0, <2>1, CountGrows
  <2> QED
    BY <1>2, <2>1, <2>2 DEF Counted, Counts, Weight, Reads, IsRead
<1>4. ASSUME NEW i \in 1..Len(nodes'), Reads(nodes'[i], o)
      PROVE  \/ i = m /\ o = Output[act.id] /\ nodes'[i].id = act.id
             \/ i \in 1..Len(nodes) /\ Reads(nodes[i], o) /\ nodes[i].id = nodes'[i].id
  <2>1. CASE i = m
    BY <1>0, <1>4, <2>1 DEF Reads
  <2>2. CASE i \in 1..Len(nodes)
    BY <1>0, <1>4, <2>2 DEF Alike, Reads, IsRead
  <2> QED
    BY <1>0, <2>1, <2>2
<1>5. outputs[o] \in Nat /\ w \in Nat
  BY <1>0, <1>1
<1>6. Held(o)'
  <2>1. ASSUME outputs'[o] = 0 PROVE \A i \in 1..Len(nodes') : ~Reads(nodes'[i], o)
    <3>1. outputs[o] = 0 /\ o # Output[act.id]
      BY <1>1, <1>2, <1>5, <2>1
    <3> QED
      BY <1>4, <3>1 DEF TallyInv, Held
  <2> QED
    BY <2>1 DEF Held, Reads, IsRead
<1>7. Within(o)'
  <2>1. ASSUME NEW i \in 1..Len(nodes'), Reads(nodes'[i], o), nodes'[i].id \in Appends
        PROVE  outputs'[o] <= MaxItems[o]
    <3>1. CASE o # Output[act.id]
      <4>1. outputs'[o] = outputs[o]
        BY <1>2, <1>5, <3>1
      <4>2. i \in 1..Len(nodes) /\ Reads(nodes[i], o) /\ nodes[i].id \in Appends
        BY <1>4, <2>1, <3>1
      <4> QED
        BY <4>1, <4>2 DEF TallyInv, Within
    <3>2. CASE o = Output[act.id] /\ act.id \in Appends
      BY <1>0, <1>1, <1>2, <1>5, <3>2 DEF OutputConflict
    <3>3. CASE o = Output[act.id] /\ act.id \notin Appends
      <4>1. outputs[o] = 0
        BY <1>1, <1>5, <3>3 DEF OutputConflict
      <4>2. \A j \in 1..Len(nodes) : ~Reads(nodes[j], o)
        BY <4>1 DEF TallyInv, Held
      <4> QED
        BY <1>4, <2>1, <3>3, <4>2
    <3> QED
      BY <3>1, <3>2, <3>3
  <2> QED
    BY <2>1 DEF Within, Reads, IsRead
<1> QED
  BY <1>3, <1>6, <1>7

LEMMA TallyStep ==
  ASSUME TallyInv, [Next]_vars
  PROVE  TallyInv'
<1>0. TypeInv /\ TypeInv' /\ ReadHeld /\ ReadHeld' /\ nodes' \in Seq(Node)
  BY TypeStep, ReadHeldStep DEF TallyInv, TypeInv, RecordOK
<1>1. (pc = "built" => ContractMet)'
  <2>1. CASE UNCHANGED vars
    BY <2>1 DEF TallyInv, ContractMet
  <2>2. CASE Done /\ ContractMet
    <3>1. outputs' = outputs
      BY <2>2 DEF Done
    <3> QED
      BY <2>2, <3>1 DEF ContractMet
  <2> QED
    BY <2>1, <2>2, BuiltTells
<1> SUFFICES ASSUME NEW o \in Outputs PROVE Counted(o)' /\ Held(o)' /\ Within(o)'
  BY <1>0, <1>1 DEF TallyInv
<1>2. CASE UNCHANGED vars \/ RecorderRests \/ EnterPage \/ Verified \/ ReadFailed \/ HandBack
  <2>1. PICK k \in 0..Len(nodes) : ReadsKept(k) /\ UNCHANGED <<outputs, snapshot>>
    BY <1>0, <1>2, ReadsStay
  <2> QED
    BY <1>0, <2>1, KeptTally
<1>3. CASE ReadRecorded
  BY <1>3, ReadTally
<1>4. CASE StartAgain
  <2>1. nodes' = <<>> /\ outputs' = [q \in Outputs |-> 0]
    BY <1>4 DEF StartAgain
  <2> DEFINE t == [i \in 0..0 |-> 0]
  <2>2. Len(nodes') = 0 /\ outputs'[o] = 0
    BY <2>1
  <2>3. t \in [0..0 -> Nat] /\ t[0] = 0
    OBVIOUS
  <2> HIDE DEF t
  <2>4. Counts(t, nodes', o) /\ t[Len(nodes')] = outputs'[o]
    BY <2>2, <2>3 DEF Counts
  <2>5. Counted(o)'
    BY <2>4 DEF Counted, Counts, Weight, Reads, IsRead
  <2>6. Held(o)' /\ Within(o)'
    BY <2>2 DEF Held, Within, Reads, IsRead
  <2> QED
    BY <2>5, <2>6
<1> QED
  BY <1>2, <1>3, <1>4, StepsByRecorder

\* Recorder: each output holds exactly what the recorded nodes read of it, however the recording was cut and continued;
\* what is added value by value never outgrows the contract, and a finished discovery keeps it.
THEOREM OutputsAreRead == Spec => []OutputsBacked
<1> QED
  BY TallyInit, TallyStep, TallySuffices, PTL DEF Spec

-----------------------------------------------------------------------------
(* The recording is a path. *)

\* The screen the part of the run that is not recorded yet started from.
Origin ==
    IF pc \in {"verify", "prove"} THEN act.from
    ELSE IF pc = "handoff" /\ handoff.done # <<>> THEN handoff.done[1].from ELSE screen
Met == pc \notin Over \cup {"restart"} /\ nodes # <<>> => loose \/ Page[nodes[Len(nodes)].to] = Page[Origin]
\* What a person did is one walk that ends on the screen.
DeedsMeet ==
    pc = "handoff" =>
        /\ \A i \in 1..(Len(handoff.done) - 1) : handoff.done[i + 1].from = handoff.done[i].to
        /\ handoff.done # <<>> => handoff.done[Len(handoff.done)].to = screen
        /\ handoff.why = "confirm" /\ handoff.done # <<>> => ActsInConfirm
\* An action that nobody confirms starts on the screen the planner saw, and what took no effect moved nothing.
ActMeets ==
    /\ pc = "entry" => screen = EntryScreen /\ nodes = <<>>
    /\ pc = "decide" => seen = screen
    /\ pc = "attempt" => ~act.happened /\ (Verdict[act.id] = "confirm" \/ seen = screen)
    /\ pc = "handoff" /\ handoff.why = "confirm" => ~act.happened /\ Verdict[act.id] = "confirm"
    /\ pc \in {"verify", "prove"} =>
          /\ Verdict[act.id] = "confirm" \/ act.from = seen
          /\ ~act.happened \/ Kind[act.id] \in READS => screen = act.from
SeenMet ==
    \A i \in 1..Len(nodes) :
        nodes[i].by \in {"planner", "vision"} /\ Verdict[nodes[i].id] # "confirm" => nodes[i].before = nodes[i].from

ConnectedInv == TypeInv /\ RecordingConnected /\ Met /\ DeedsMeet /\ ActMeets /\ SeenMet
\* A confirmation answered with "restart" drops what the person did on the page.
DeedsAreKept == ~ActsInConfirm \/ "restart" \notin ConfirmAnswers

LEMMA ConnectedInit == Init => ConnectedInv
<1> SUFFICES ASSUME Init PROVE ConnectedInv
  OBVIOUS
<1>1. /\ nodes = <<>> /\ Len(nodes) = 0 /\ pc = "entry" /\ screen = EntryScreen
  BY DEF Init
<1>2. RecordingConnected /\ SeenMet
  BY <1>1 DEF RecordingConnected, SeenMet
<1>3. Met /\ DeedsMeet /\ ActMeets
  BY <1>1 DEF Met, DeedsMeet, ActMeets
<1> QED
  BY <1>2, <1>3, TypeInit DEF ConnectedInv

\* What a step that judges an action leaves.
LEMMA DecideMeets ==
  ASSUME ConnectedInv, DecideAction \/ DecideStuck
  PROVE  DeedsMeet' /\ ActMeets' /\ screen' = screen /\ loose' = loose /\ nodes' = nodes
         /\ pc = "decide" /\ (pc' = "handoff" => handoff'.done = <<>>) /\ pc' \in {"turn", "failed", "attempt", "handoff"}
<1>1. /\ pc = "decide" /\ UNCHANGED <<screen, seen, loose, nodes>> /\ seen = screen
      /\ pc' \in {"turn", "failed", "attempt", "handoff"}
  BY DecideTells DEF DecideAction, DecideStuck, ConnectedInv, ActMeets
<1>2. ASSUME NEW a \in Actions, Judge(a)
      PROVE  /\ pc' = "handoff" => handoff'.done = <<>>
             /\ pc' = "attempt" => ~act'.happened
             /\ pc' = "handoff" /\ handoff'.why = "confirm" => ~act'.happened /\ Verdict[act'.id] = "confirm"
  <2>1. CASE pc' \in {"turn", "failed"}
    BY <2>1
  <2>2. CASE handoff' = [why |-> "loop", done |-> <<>>] /\ pc' = "handoff"
    BY <2>2
  <2>3. CASE /\ \E w \in BOOLEAN : act' = [NoAct EXCEPT !.id = a, !.warn = w]
             /\ pc' = "attempt" \/ (pc' = "handoff" /\ handoff' = [why |-> "confirm", done |-> <<>>])
    <3>1. act'.happened = FALSE
      BY <2>3 DEF NoAct
    <3>2. pc' = "handoff" /\ handoff'.why = "confirm" => Verdict[act'.id] = "confirm"
      BY <1>2, JudgeCounts
    <3>3. pc' = "handoff" => handoff'.done = <<>>
      BY <2>3
    <3> QED
      BY <3>1, <3>2, <3>3
  <2> QED
    BY <1>2, <2>1, <2>2, <2>3, JudgeTells
<1>3. ASSUME AskPerson("stuck")
      PROVE  /\ pc' = "handoff" /\ handoff'.done = <<>> /\ handoff'.why # "confirm"
  BY <1>3 DEF AskPerson
<1>4. /\ pc' = "handoff" => handoff'.done = <<>>
      /\ pc' = "attempt" => ~act'.happened
      /\ pc' = "handoff" /\ handoff'.why = "confirm" => ~act'.happened /\ Verdict[act'.id] = "confirm"
  <2>1. CASE DecideAction
    BY <2>1, <1>2 DEF DecideAction
  <2>2. CASE DecideStuck
    BY <2>2, <1>2, <1>3, StuckTells, ActionAssumption DEF ActionAssumption
  <2> QED
    BY <2>1, <2>2
<1>5. DeedsMeet'
  <2>1. pc' = "handoff" => handoff'.done = <<>> /\ Len(handoff'.done) = 0
    BY <1>4
  <2> QED
    BY <2>1 DEF DeedsMeet
<1>6. ActMeets'
  BY <1>1, <1>4 DEF ActMeets
<1> QED
  BY <1>1, <1>4, <1>5, <1>6

\* A step of the automation asks a person afresh or not at all; only the judgement of an action asks to confirm it.
LEMMA AsksAfresh ==
  ASSUME \/ EnterPage \/ Look \/ Stop \/ Done \/ RefuseRepeat \/ FailBeforeActing \/ NotActionable \/ SelectionAmbiguous
         \/ Dispatch \/ BeginRead \/ ProveLost \/ LostUnproven \/ Verified \/ Unproven \/ VisualUnproven \/ LookEscapes
         \/ ReadRecorded \/ ReadFailed \/ StartAgain \/ GiveUp \/ HandBack \/ Aborts \/ Unrecordable \/ Restarts
         \/ ShowControlsFails
  PROVE  pc' = "handoff" => handoff'.done = <<>> /\ handoff'.why # "confirm"
<1>1. CASE EnterPage \/ Look \/ Stop \/ Done \/ NotActionable \/ Dispatch \/ BeginRead \/ ProveLost \/ Verified \/ LookEscapes
           \/ ReadRecorded \/ StartAgain \/ GiveUp \/ Aborts \/ Unrecordable \/ Restarts \/ ShowControlsFails
  BY <1>1 DEF EnterPage, Look, Stop, OutOfTurns, PageKeepsFailing, Done, DoneAccepted, DoneRejected, NotActionable, Dispatch,
              BeginRead, ProveLost, Verified, LookEscapes, ReadRecorded, StartAgain, GiveUp, Aborts, Unrecordable, Restarts,
              ShowControlsFails, End, NextTurn
<1>2. CASE RefuseRepeat \/ FailBeforeActing \/ SelectionAmbiguous \/ LostUnproven \/ Unproven \/ VisualUnproven \/ ReadFailed
  <2>1. \/ \E why \in {"refused", "failing", "lost", "unverified", "visual", "unread"} : AskPerson(why)
        \/ NextTurn
    BY <1>2 DEF RefuseRepeat, FailBeforeActing, SelectionAmbiguous, LostUnproven, Unproven, VisualUnproven, ReadFailed,
                CountFailure
  <2> QED
    BY <2>1 DEF AskPerson, NextTurn, End
<1>3. CASE HandBack
  <2>1. pc' = "handoff" => handoff.why = "visual"
    <3>1. PICK answer : Continue(answer)
      BY <1>3 DEF HandBack
    <3> QED
      BY <3>1 DEF Continue, NextTurn, End
  <2>2. handoff.why = "visual" => handoff' = [why |-> "unverified", done |-> <<>>]
    BY <1>3 DEF HandBack
  <2> QED
    BY <2>1, <2>2
<1> QED
  BY <1>1, <1>2, <1>3

LEMMA DeedsMeetStep ==
  ASSUME ConnectedInv, [Next]_vars
  PROVE  DeedsMeet'
<1>0. DeedsMeet /\ handoff.done \in Seq(Deed) /\ screen \in Screens
  BY DEF ConnectedInv, TypeInv, RecordOK, PlaceOK
<1>1. CASE UNCHANGED vars
  BY <1>0, <1>1 DEF DeedsMeet
<1>2. CASE DecideAction \/ DecideStuck
  BY <1>2, DecideMeets
<1>3. CASE PersonActs
  <2>1. PICK k \in {"navigate", "click", "type"}, s \in Screens, known, sound \in BOOLEAN :
          /\ pc = "handoff" /\ pc' = pc /\ screen' = s
          /\ handoff.why = "confirm" => ActsInConfirm
          /\ handoff' = [handoff EXCEPT !.done = Append(@, [kind |-> k, from |-> screen, to |-> s, good |-> known /\ sound])]
    BY <1>3 DEF PersonActs
  <2> DEFINE d == [kind |-> k, from |-> screen, to |-> s, good |-> known /\ sound]
             done == handoff.done
  <2>2. d \in Deed /\ d.from = screen /\ d.to = screen'
    BY <1>0, <2>1 DEF Deed
  <2>3. /\ handoff'.done = Append(done, d) /\ handoff'.why = handoff.why
    BY <2>1 DEF ConnectedInv, TypeInv, ShapeInv
  <2> HIDE DEF d
  <2>4. /\ Len(done) \in Nat /\ Append(done, d) # <<>> /\ Len(Append(done, d)) = Len(done) + 1
        /\ Append(done, d)[Len(done) + 1] = d
        /\ \A i \in 1..Len(done) : Append(done, d)[i] = done[i]
    BY <1>0, <2>2, AppendProperties
  <2>5. ASSUME NEW i \in 1..Len(done)
        PROVE  Append(done, d)[i + 1].from = Append(done, d)[i].to
    <3>1. CASE i = Len(done)
      <4>1. done # <<>>
        BY <2>4, <2>5
      <4>2. done[Len(done)].to = screen
        BY <1>0, <2>1, <4>1 DEF DeedsMeet
      <4> QED
        BY <2>2, <2>4, <3>1, <4>2
    <3>2. CASE i # Len(done)
      <4>1. i \in 1..(Len(done) - 1) /\ i + 1 \in 1..Len(done)
        BY <2>4, <3>2
      <4>2. done[i + 1].from = done[i].to
        BY <1>0, <2>1, <4>1 DEF DeedsMeet
      <4> QED
        BY <2>4, <4>1, <4>2
    <3> QED
      BY <3>1, <3>2
  <2>6. (Len(done) + 1) - 1 = Len(done)
    BY <2>4
  <2>7. /\ \A i \in 1..(Len(handoff'.done) - 1) : handoff'.done[i + 1].from = handoff'.done[i].to
        /\ handoff'.done[Len(handoff'.done)].to = screen'
        /\ handoff'.why = "confirm" => ActsInConfirm
    BY <2>1, <2>2, <2>3, <2>4, <2>5, <2>6
  <2> QED
    BY <2>7 DEF DeedsMeet
<1>4. CASE ~UNCHANGED vars /\ ~DecideAction /\ ~DecideStuck /\ ~PersonActs
  <2>1. pc' = "handoff" => handoff'.done = <<>> /\ Len(handoff'.done) = 0
    BY <1>4, ActionsOfNext, AsksAfresh
  <2> QED
    BY <2>1 DEF DeedsMeet
<1> QED
  BY <1>1, <1>2, <1>3, <1>4

LEMMA ActMeetsStep ==
  ASSUME ConnectedInv, [Next]_vars
  PROVE  ActMeets'
<1>0. ActMeets /\ ShapeInv
  BY DEF ConnectedInv, TypeInv
<1>1. CASE UNCHANGED vars
  BY <1>0, <1>1 DEF ActMeets
<1>2. CASE DecideAction \/ DecideStuck
  BY <1>2, DecideMeets
<1>3. CASE EnterPage \/ Stop \/ Done \/ RefuseRepeat \/ FailBeforeActing \/ NotActionable \/ SelectionAmbiguous
           \/ LostUnproven \/ Verified \/ Unproven \/ VisualUnproven \/ LookEscapes
           \/ ReadRecorded \/ ReadFailed \/ GiveUp \/ Aborts \/ Unrecordable \/ Restarts \/ ShowControlsFails
  <2>1. pc' \in {"turn", "handoff", "restart"} \cup Over
    <3>1. CASE EnterPage \/ Stop \/ Done \/ NotActionable \/ Verified \/ LookEscapes
               \/ ReadRecorded \/ GiveUp \/ Aborts \/ Unrecordable \/ Restarts \/ ShowControlsFails
      BY <3>1 DEF EnterPage, Stop, OutOfTurns, PageKeepsFailing, Done, DoneAccepted, DoneRejected, NotActionable,
              Verified, LookEscapes, ReadRecorded, GiveUp, Aborts, Unrecordable, Restarts, ShowControlsFails, End, NextTurn, Over
    <3>2. CASE RefuseRepeat \/ FailBeforeActing \/ SelectionAmbiguous \/ LostUnproven \/ Unproven \/ VisualUnproven \/ ReadFailed
      BY <3>2 DEF RefuseRepeat, FailBeforeActing, SelectionAmbiguous, LostUnproven, Unproven, VisualUnproven, ReadFailed,
                CountFailure, AskPerson, NextTurn, End, Over
    <3> QED
      BY <1>3, <3>1, <3>2
  <2>2. pc' = "handoff" => handoff'.why # "confirm"
    BY <1>3, AsksAfresh
  <2> QED
    BY <2>1, <2>2 DEF ActMeets, Over
<1>4. CASE Look
  BY <1>4 DEF Look, ActMeets
<1>5. CASE Dispatch
  <2>1. PICK worked \in BOOLEAN :
          /\ screen' \in IF worked THEN To[act.id] ELSE {screen}
          /\ act' = [act EXCEPT !.from = screen, !.happened = worked]
          /\ pc = "attempt" /\ pc' \in {"verify", "prove"} /\ seen' = seen /\ Kind[act.id] \notin READS
    BY <1>5 DEF Dispatch, Ready
  <2>2. act'.id = act.id /\ act'.from = screen /\ act'.happened = worked
    BY <1>0, <2>1 DEF ShapeInv
  <2>3. Verdict[act.id] = "confirm" \/ seen = screen
    BY <1>0, <2>1 DEF ActMeets
  <2>4. ~worked => screen' = screen
    BY <2>1
  <2> QED
    BY <2>1, <2>2, <2>3, <2>4 DEF ActMeets
<1>6. CASE BeginRead
  <2>1. act' = [act EXCEPT !.from = screen] /\ pc = "attempt" /\ pc' = "verify" /\ seen' = seen /\ screen' = screen
    BY <1>6 DEF BeginRead, Ready
  <2>2. act'.id = act.id /\ act'.from = screen
    BY <1>0, <2>1 DEF ShapeInv
  <2>3. Verdict[act.id] = "confirm" \/ seen = screen
    BY <1>0, <2>1 DEF ActMeets
  <2> QED
    BY <2>1, <2>2, <2>3 DEF ActMeets
<1>7. CASE ProveLost
  <2>1. /\ pc = "prove" /\ pc' = "verify" /\ seen' = seen /\ screen' = screen
        /\ act' \in {[act EXCEPT !.lost = TRUE], [act EXCEPT !.lost = TRUE, !.noexpect = TRUE]}
    BY <1>7 DEF ProveLost
  <2>2. act'.id = act.id /\ act'.from = act.from /\ act'.happened = act.happened
    BY <1>0, <2>1 DEF ShapeInv
  <2> QED
    BY <1>0, <2>1, <2>2 DEF ActMeets
<1>8. CASE StartAgain
  <2>1. pc' = "entry" /\ screen' = EntryScreen /\ nodes' = <<>>
    BY <1>8 DEF StartAgain
  <2> QED
    BY <2>1 DEF ActMeets
<1>9. CASE PersonActs
  <2>1. /\ pc = "handoff" /\ pc' = pc /\ act' = act /\ handoff'.why = handoff.why
    BY <1>0, <1>9 DEF PersonActs, ShapeInv
  <2> QED
    BY <1>0, <2>1 DEF ActMeets
<1>10. CASE HandBack
  <2>1. PICK answer : Continue(answer)
    BY <1>10 DEF HandBack
  <2>2. pc = "handoff"
    BY <1>10 DEF HandBack
  <2>3. CASE handoff.why = "confirm" /\ pc' = "attempt" /\ act' = act
    BY <1>0, <2>2, <2>3 DEF ActMeets
  <2>4. CASE pc' \in {"turn", "handoff"}
    <3>1. pc' = "handoff" => handoff'.why # "confirm"
      BY <1>10, AsksAfresh
    <3> QED
      BY <2>4, <3>1 DEF ActMeets
  <2> QED
    BY <2>1, <2>3, <2>4 DEF Continue, NextTurn, End, AskPerson
<1> QED
  BY <1>1, <1>2, <1>3, <1>4, <1>5, <1>6, <1>7, <1>8, <1>9, <1>10, ActionsOfNext

\* Marks do not move a path.
LEMMA MarksKeepPath ==
  ASSUME nodes \in Seq(Node), nodes' \in Seq(Node), SameButMarks(nodes', nodes), RecordingConnected, SeenMet
  PROVE  /\ RecordingConnected' /\ SeenMet'
         /\ nodes' # <<>> => nodes # <<>> /\ nodes'[Len(nodes')].to = nodes[Len(nodes)].to
<1>1. Len(nodes') = Len(nodes) /\ Len(nodes) \in Nat /\ \A i \in 1..Len(nodes) : Alike(nodes'[i], nodes[i])
  BY DEF SameButMarks
<1>2. RecordingConnected'
  <2>1. ASSUME NEW i \in 1..(Len(nodes) - 1)
        PROVE  nodes'[i + 1].loose \/ Page[nodes'[i].to] = Page[nodes'[i + 1].from]
    <3>1. i \in 1..Len(nodes) /\ i + 1 \in 1..Len(nodes)
      BY <1>1
    <3>2. Alike(nodes'[i], nodes[i]) /\ Alike(nodes'[i + 1], nodes[i + 1])
      BY <1>1, <3>1
    <3> QED
      BY <3>2 DEF Alike, RecordingConnected
  <2> QED
    BY <1>1, <2>1 DEF RecordingConnected
<1>3. SeenMet'
  BY <1>1 DEF SeenMet, Alike
<1>4. nodes' # <<>> => nodes # <<>> /\ Len(nodes) \in 1..Len(nodes)
  BY <1>1
<1> QED
  BY <1>1, <1>2, <1>3, <1>4 DEF Alike

\* What is recorded of an action starts where the recording had come to.
LEMMA NodeExtendsPath ==
  ASSUME ConnectedInv, pc = "verify", NEW p \in {"none", "text", "url", "state"}, NEW c \in BOOLEAN,
         nodes' \in Seq(Node), SameButMarks(nodes', Append(nodes, NewNode(p, c)))
  PROVE  RecordingConnected' /\ SeenMet' /\ nodes'[Len(nodes')].to = screen
<1> DEFINE n == NewNode(p, c)
           m == Len(nodes) + 1
<1>0. nodes \in Seq(Node) /\ Len(nodes) \in Nat /\ n \in Node
  BY NewNodeFits DEF ConnectedInv, TypeInv, RecordOK
<1>1. /\ n.id = act.id /\ n.before = seen /\ n.from = act.from /\ n.to = screen /\ n.loose = loose
  BY DEF NewNode
<1> HIDE DEF n
<1>2. /\ Len(Append(nodes, n)) = m /\ Append(nodes, n)[m] = n /\ \A i \in 1..Len(nodes) : Append(nodes, n)[i] = nodes[i]
  BY <1>0, AppendProperties
<1>3. /\ Len(nodes') = m /\ Alike(nodes'[m], n) /\ \A i \in 1..Len(nodes) : Alike(nodes'[i], nodes[i])
  <2>1. SameButMarks(nodes', Append(nodes, n))
    BY DEF n
  <2>2. m \in 1..m /\ \A i \in 1..Len(nodes) : i \in 1..m
    BY <1>0
  <2> QED
    BY <1>2, <2>1, <2>2 DEF SameButMarks
<1>4. RecordingConnected'
  <2>1. ASSUME NEW i \in 1..(m - 1)
        PROVE  nodes'[i + 1].loose \/ Page[nodes'[i].to] = Page[nodes'[i + 1].from]
    <3>0. i \in 1..Len(nodes)
      BY <1>0
    <3>1. Alike(nodes'[i], nodes[i])
      BY <1>3, <3>0
    <3>2. CASE i = Len(nodes)
      <4>1. nodes # <<>>
        BY <3>0
      <4>2. loose \/ Page[nodes[i].to] = Page[act.from]
        BY <3>2, <4>1 DEF ConnectedInv, Met, Origin, Over
      <4>3. Alike(nodes'[i + 1], n)
        BY <1>3, <3>2
      <4> QED
        BY <1>1, <3>1, <4>2, <4>3 DEF Alike
    <3>3. CASE i # Len(nodes)
      <4>1. i \in 1..(Len(nodes) - 1) /\ i + 1 \in 1..Len(nodes)
        BY <1>0, <3>0, <3>3
      <4>2. Alike(nodes'[i + 1], nodes[i + 1])
        BY <1>3, <4>1
      <4>3. nodes[i + 1].loose \/ Page[nodes[i].to] = Page[nodes[i + 1].from]
        BY <4>1 DEF ConnectedInv, RecordingConnected
      <4> QED
        BY <3>1, <4>2, <4>3 DEF Alike
    <3> QED
      BY <3>2, <3>3
  <2> QED
    BY <1>3, <2>1 DEF RecordingConnected
<1>5. SeenMet'
  <2>1. ASSUME NEW i \in 1..m, nodes'[i].by \in {"planner", "vision"}, Verdict[nodes'[i].id] # "confirm"
        PROVE  nodes'[i].before = nodes'[i].from
    <3>1. CASE i = m
      <4>1. Verdict[act.id] # "confirm"
        BY <1>1, <1>3, <2>1, <3>1 DEF Alike
      <4>2. act.from = seen
        BY <4>1 DEF ConnectedInv, ActMeets
      <4> QED
        BY <1>1, <1>3, <3>1, <4>2 DEF Alike
    <3>2. CASE i \in 1..Len(nodes)
      <4>1. Alike(nodes'[i], nodes[i])
        BY <1>3, <3>2
      <4> QED
        BY <2>1, <3>2, <4>1 DEF Alike, ConnectedInv, SeenMet
    <3> QED
      BY <1>0, <3>1, <3>2
  <2> QED
    BY <1>3, <2>1 DEF SeenMet
<1> QED
  BY <1>1, <1>3, <1>4, <1>5 DEF Alike

\* What a person did continues what is left of the recording, from the page the person left; the gap in front of a node
\* that is cut stands in front of what follows instead.
LEMMA PersonExtendsPath ==
  ASSUME ConnectedInv, pc = "handoff", handoff.done # <<>>, nodes' \in Seq(Node),
         SameButMarks(nodes', WithPersonNodes(handoff.done))
  PROVE  RecordingConnected' /\ SeenMet' /\ nodes'[Len(nodes')].to = screen
<1> DEFINE done == handoff.done
           ns == WithPersonNodes(done)
<1>0. nodes \in Seq(Node) /\ loose \in BOOLEAN /\ done \in Seq(Deed) /\ Len(nodes) \in Nat /\ Len(done) \in Nat \ {0}
  BY DEF ConnectedInv, TypeInv, RecordOK
<1>1. PICK k \in 0..Len(nodes), gap \in BOOLEAN :
        /\ ns \in Seq(Node) /\ Joined(ns, k, gap, done) /\ KeptUpTo(k, done[1].from)
        /\ gap = (IF k = Len(nodes) THEN loose ELSE nodes[k + 1].loose \/ loose)
  BY <1>0, WithPersonTells
<1> HIDE DEF ns
<1>2. /\ Len(nodes') = k + Len(done)
      /\ \A i \in 1..k : Alike(nodes'[i], nodes[i])
      /\ \A j \in 1..Len(done) : Alike(nodes'[k + j], PersonNode(done[j], j = 1 /\ gap))
  <2>1. SameButMarks(nodes', ns)
    BY DEF ns
  <2>2. /\ \A i \in 1..k : i \in 1..(k + Len(done))
        /\ \A j \in 1..Len(done) : k + j \in 1..(k + Len(done))
    BY <1>0, <1>1
  <2> QED
    BY <1>1, <2>1, <2>2 DEF SameButMarks, Joined
<1>3. \A j \in 1..Len(done) : /\ nodes'[k + j].by = "person" /\ nodes'[k + j].from = done[j].from
                              /\ nodes'[k + j].to = done[j].to
                              /\ nodes'[k + j].loose = (j = 1 /\ gap)
  BY <1>2 DEF Alike, PersonNode
<1>4. k \in 1..Len(nodes) => gap \/ Page[nodes[k].to] = Page[done[1].from]
  <2>1. CASE k = Len(nodes)
    <3>1. k \in 1..Len(nodes) => nodes # <<>>
      BY <1>0
    <3> QED
      BY <1>0, <1>1, <2>1, <3>1 DEF ConnectedInv, Met, Origin, Over
  <2>2. CASE k # Len(nodes) /\ k \in 1..Len(nodes)
    <3>1. k + 1 \in 1..Len(nodes) /\ k \in 1..(Len(nodes) - 1) /\ k + 1 \in (k + 1)..Len(nodes) /\ k < Len(nodes)
      BY <1>0, <2>2
    <3>2. Page[nodes[k + 1].before] = Page[done[1].from] /\ ~Boundary(nodes[k + 1], Url[done[1].from])
      BY <1>1, <3>1 DEF KeptUpTo
    <3>3. nodes[k + 1] \in Node
      BY <1>0, <3>1
    <3>4. nodes[k + 1].before = nodes[k + 1].from
      BY <3>1, <3>2, <3>3 DEF Boundary, Node, ConnectedInv, SeenMet
    <3>5. nodes[k + 1].loose \/ Page[nodes[k].to] = Page[nodes[k + 1].from]
      BY <3>1 DEF ConnectedInv, RecordingConnected
    <3> QED
      BY <1>1, <2>2, <3>2, <3>4, <3>5
  <2> QED
    BY <2>1, <2>2
<1>5. RecordingConnected'
  <2>1. ASSUME NEW i \in 1..(Len(nodes') - 1)
        PROVE  nodes'[i + 1].loose \/ Page[nodes'[i].to] = Page[nodes'[i + 1].from]
    <3>1. CASE i < k
      <4>1. i \in 1..k /\ i + 1 \in 1..k /\ i \in 1..(Len(nodes) - 1)
        BY <1>0, <1>1, <1>2, <3>1
      <4>2. Alike(nodes'[i], nodes[i]) /\ Alike(nodes'[i + 1], nodes[i + 1])
        BY <1>2, <4>1
      <4>3. nodes[i + 1].loose \/ Page[nodes[i].to] = Page[nodes[i + 1].from]
        BY <4>1 DEF ConnectedInv, RecordingConnected
      <4> QED
        BY <4>2, <4>3 DEF Alike
    <3>2. CASE i = k
      <4>1. k \in 1..k /\ k \in 1..Len(nodes) /\ 1 \in 1..Len(done)
        BY <1>0, <1>1, <3>2
      <4>2. Alike(nodes'[k], nodes[k])
        BY <1>2, <4>1
      <4>3. nodes'[k + 1].from = done[1].from /\ nodes'[k + 1].loose = gap
        BY <1>1, <1>3, <4>1
      <4> QED
        BY <1>4, <3>2, <4>1, <4>2, <4>3 DEF Alike
    <3>3. CASE i > k
      <4> DEFINE j == i - k
      <4>1. j \in 1..(Len(done) - 1) /\ j \in 1..Len(done) /\ j + 1 \in 1..Len(done) /\ i = k + j /\ i + 1 = k + (j + 1)
        BY <1>0, <1>1, <1>2, <3>3
      <4> HIDE DEF j
      <4>2. done[j + 1].from = done[j].to
        BY <4>1 DEF ConnectedInv, DeedsMeet
      <4>3. nodes'[k + j].to = done[j].to /\ nodes'[k + (j + 1)].from = done[j + 1].from
        BY <1>3, <4>1
      <4> QED
        BY <4>1, <4>2, <4>3
    <3> QED
      BY <1>0, <1>1, <1>2, <3>1, <3>2, <3>3
  <2> QED
    BY <2>1 DEF RecordingConnected
<1>6. SeenMet'
  <2>1. ASSUME NEW i \in 1..Len(nodes'), nodes'[i].by \in {"planner", "vision"}, Verdict[nodes'[i].id] # "confirm"
        PROVE  nodes'[i].before = nodes'[i].from
    <3>1. CASE i \in 1..k
      <4>1. Alike(nodes'[i], nodes[i]) /\ i \in 1..Len(nodes)
        BY <1>1, <1>2, <3>1
      <4> QED
        BY <2>1, <4>1 DEF Alike, ConnectedInv, SeenMet
    <3>2. CASE i \notin 1..k
      <4>1. i - k \in 1..Len(done) /\ k + (i - k) = i
        BY <1>0, <1>1, <1>2, <3>2
      <4>2. nodes'[k + (i - k)].by = "person"
        BY <1>3, <4>1
      <4> QED
        BY <2>1, <4>1, <4>2
    <3> QED
      BY <3>1, <3>2
  <2> QED
    BY <2>1 DEF SeenMet
<1>7. nodes'[Len(nodes')].to = screen
  <2>1. Len(done) \in 1..Len(done)
    BY <1>0
  <2>2. done[Len(done)].to = screen
    BY DEF ConnectedInv, DeedsMeet
  <2> QED
    BY <1>2, <1>3, <2>1, <2>2
<1> QED
  BY <1>5, <1>6, <1>7

\* Where the recorder rests, the run goes on from where the recording ends.
LEMMA MetRests ==
  ASSUME ConnectedInv, [Next]_vars, RecorderRests
  PROVE  Met'
<1>0. /\ nodes' = nodes /\ nodes \in Seq(Node) /\ loose \in BOOLEAN /\ ShapeInv /\ Met /\ handoff.done \in Seq(Deed)
      /\ act.happened \in BOOLEAN
  BY RestingRecorder DEF ConnectedInv, TypeInv, RecordOK, ActOK
<1>1. CASE DecideAction \/ DecideStuck
  <2>1. Origin' = screen /\ Origin = screen
    BY <1>1, DecideMeets DEF Origin
  <2>2. pc \notin Over \cup {"restart"} /\ loose' = loose
    BY <1>1, DecideMeets DEF Over
  <2> QED
    BY <1>0, <2>1, <2>2 DEF Met
<1>2. CASE Look \/ Done \/ RefuseRepeat \/ FailBeforeActing \/ NotActionable
  <2>1. /\ pc \in {"turn", "decide", "attempt"} /\ pc' \notin {"verify", "prove"} /\ UNCHANGED <<screen, loose>>
    BY <1>2 DEF Look, Done, DoneAccepted, DoneRejected, RefuseRepeat, FailBeforeActing, NotActionable, Ready, CountFailure,
                AskPerson, NextTurn, End
  <2>2. pc' = "handoff" => handoff'.done = <<>>
    BY <1>2, AsksAfresh
  <2>3. Origin' = screen /\ Origin = screen
    BY <2>1, <2>2 DEF Origin
  <2> QED
    BY <1>0, <2>1, <2>3 DEF Met, Over
<1>3. CASE Stop \/ LookEscapes \/ Unrecordable \/ Restarts \/ ShowControlsFails \/ Aborts \/ GiveUp
  <2>1. pc' \in Over \cup {"restart"}
    BY <1>3 DEF Stop, OutOfTurns, PageKeepsFailing, LookEscapes, Unrecordable, Restarts, ShowControlsFails, Aborts, GiveUp,
                End, Over
  <2> QED
    BY <2>1 DEF Met
<1>4. CASE SelectionAmbiguous
  BY <1>4 DEF SelectionAmbiguous, Met
<1>5. CASE Dispatch \/ BeginRead
  <2>1. /\ pc = "attempt" /\ pc' \in {"verify", "prove"} /\ loose' = loose
        /\ \E b \in BOOLEAN : act' \in {[act EXCEPT !.from = screen], [act EXCEPT !.from = screen, !.happened = b]}
    BY <1>5 DEF Dispatch, BeginRead, Ready
  <2>2. act'.from = screen
    BY <1>0, <2>1 DEF ShapeInv
  <2>3. Origin' = screen /\ Origin = screen
    BY <2>1, <2>2 DEF Origin
  <2> QED
    BY <1>0, <2>1, <2>3 DEF Met, Over
<1>6. CASE ProveLost
  <2>1. /\ pc = "prove" /\ pc' = "verify" /\ loose' = loose
        /\ act' \in {[act EXCEPT !.lost = TRUE], [act EXCEPT !.lost = TRUE, !.noexpect = TRUE]}
    BY <1>6 DEF ProveLost
  <2>2. act'.from = act.from
    BY <1>0, <2>1 DEF ShapeInv
  <2>3. Origin' = act.from /\ Origin = act.from
    BY <2>1, <2>2 DEF Origin
  <2> QED
    BY <1>0, <2>1, <2>3 DEF Met, Over
<1>7. CASE LostUnproven \/ Unproven \/ VisualUnproven
  <2>1. /\ pc \in {"verify", "prove"} /\ pc' \notin {"verify", "prove"} /\ screen' = screen
        /\ loose' = (loose \/ act.happened)
    BY <1>7 DEF LostUnproven, Unproven, VisualUnproven, AskPerson, NextTurn, End
  <2>2. pc' = "handoff" => handoff'.done = <<>>
    BY <1>7, AsksAfresh
  <2>3. Origin' = screen /\ Origin = act.from
    BY <2>1, <2>2 DEF Origin
  <2>4. ~act.happened => screen = act.from
    BY <2>1 DEF ConnectedInv, ActMeets
  <2> QED
    BY <1>0, <2>1, <2>3, <2>4 DEF Met, Over
<1>8. CASE PersonActs
  <2>1. PICK k \in {"navigate", "click", "type"}, s \in Screens, known, sound \in BOOLEAN :
          /\ pc = "handoff" /\ pc' = pc /\ loose' = loose
          /\ handoff' = [handoff EXCEPT !.done = Append(@, [kind |-> k, from |-> screen, to |-> s, good |-> known /\ sound])]
    BY <1>8 DEF PersonActs
  <2> DEFINE d == [kind |-> k, from |-> screen, to |-> s, good |-> known /\ sound]
             done == handoff.done
  <2>2. d \in Deed /\ d.from = screen
    BY <2>1 DEF Deed, ConnectedInv, TypeInv, PlaceOK
  <2>3. handoff'.done = Append(done, d)
    BY <1>0, <2>1 DEF ShapeInv
  <2> HIDE DEF d
  <2>4. /\ Len(done) \in Nat /\ Append(done, d) # <<>>
        /\ Append(done, d)[Len(done) + 1] = d
        /\ \A i \in 1..Len(done) : Append(done, d)[i] = done[i]
    BY <1>0, <2>2, AppendProperties
  <2>5. Origin' = handoff'.done[1].from
    BY <2>1, <2>3, <2>4 DEF Origin
  <2>6. Origin' = Origin
    <3>1. CASE done = <<>>
      <4>1. Len(done) + 1 = 1
        BY <3>1
      <4>2. Origin = screen
        BY <2>1, <3>1 DEF Origin
      <4> QED
        BY <2>2, <2>3, <2>4, <2>5, <4>1, <4>2
    <3>2. CASE done # <<>>
      <4>1. 1 \in 1..Len(done)
        BY <1>0, <2>4, <3>2
      <4>2. Origin = done[1].from
        BY <2>1, <3>2 DEF Origin
      <4> QED
        BY <2>3, <2>4, <2>5, <4>1, <4>2
    <3> QED
      BY <3>1, <3>2
  <2> QED
    BY <1>0, <2>1, <2>6 DEF Met, Over
<1> QED
  BY <1>1, <1>2, <1>3, <1>4, <1>5, <1>6, <1>7, <1>8 DEF RecorderRests

LEMMA PathStep ==
  ASSUME ConnectedInv, [Next]_vars, DeedsAreKept
  PROVE  RecordingConnected' /\ SeenMet' /\ Met'
<1>0. /\ TypeInv /\ nodes \in Seq(Node) /\ loose \in BOOLEAN /\ RecordingConnected /\ SeenMet /\ Met
      /\ screen \in Screens /\ EntryScreen \in Screens
  BY ContractAssumption DEF ConnectedInv, TypeInv, RecordOK, PlaceOK, ContractAssumption
<1>1. CASE UNCHANGED vars
  BY <1>0, <1>1 DEF RecordingConnected, SeenMet, Met, Origin
<1>2. CASE RecorderRests
  <2>1. nodes' = nodes
    BY <1>2, RestingRecorder
  <2> QED
    BY <1>0, <1>2, <2>1, MetRests DEF RecordingConnected, SeenMet
<1>3. CASE EnterPage
  <2>1. nodes' = <<EntryNode>> /\ pc = "entry" /\ pc' = "turn" /\ screen' = screen
    BY <1>3 DEF EnterPage
  <2>2. screen = EntryScreen
    BY <2>1 DEF ConnectedInv, ActMeets
  <2>3. Len(nodes') = 1 /\ nodes'[1].by = "entry" /\ nodes'[1].to = EntryScreen
    BY <2>1 DEF EntryNode
  <2>4. RecordingConnected' /\ SeenMet'
    BY <2>3 DEF RecordingConnected, SeenMet
  <2>5. Origin' = screen'
    BY <2>1 DEF Origin
  <2> QED
    BY <2>1, <2>2, <2>3, <2>4, <2>5 DEF Met
<1>4. CASE Verified
  <2>1. /\ pc' = "turn" /\ screen' = screen
    BY <1>4 DEF Verified, NextTurn, End
  <2>2. Origin' = screen
    BY <2>1 DEF Origin
  <2>3. nodes' \in Seq(Node) /\ pc = "verify"
    BY <1>0, <1>4, VerifiedWrites
  <2>4. CASE SameButMarks(nodes', nodes) /\ loose' = (loose \/ Page[screen] # Page[act.from])
    <3>1. /\ RecordingConnected' /\ SeenMet'
          /\ nodes' # <<>> => nodes # <<>> /\ nodes'[Len(nodes')].to = nodes[Len(nodes)].to
      BY <1>0, <2>3, <2>4, MarksKeepPath
    <3>2. nodes # <<>> => loose \/ Page[nodes[Len(nodes)].to] = Page[act.from]
      BY <1>0, <2>3 DEF Met, Origin, Over
    <3> QED
      BY <2>2, <2>4, <3>1, <3>2 DEF Met
  <2>5. CASE \E p \in {"none", "text", "url", "state"}, c \in BOOLEAN :
               SameButMarks(nodes', Append(nodes, NewNode(p, c)))
    <3>1. RecordingConnected' /\ SeenMet' /\ nodes'[Len(nodes')].to = screen
      BY <2>3, <2>5, NodeExtendsPath
    <3> QED
      BY <2>2, <3>1 DEF Met
  <2> QED
    BY <1>0, <1>4, <2>4, <2>5, VerifiedWrites
<1>5. CASE ReadRecorded
  <2>1. /\ pc' = "turn" /\ screen' = screen
    BY <1>5 DEF ReadRecorded, NextTurn, End
  <2>2. RecordingConnected' /\ SeenMet' /\ nodes'[Len(nodes')].to = screen
    BY <1>0, <1>5, ReadWrites, NodeExtendsPath
  <2>3. Origin' = screen
    BY <2>1 DEF Origin
  <2> QED
    BY <2>2, <2>3 DEF Met
<1>6. CASE ReadFailed
  <2>1. /\ pc = "verify" /\ pc' \in {"turn", "handoff"} /\ screen' = screen /\ loose' = loose /\ Kind[act.id] \in READS
    BY <1>6 DEF ReadFailed, NextTurn, End, AskPerson
  <2>2. pc' = "handoff" => handoff'.done = <<>>
    BY <1>6, AsksAfresh
  <2>3. Origin' = screen /\ Origin = act.from
    BY <2>1, <2>2 DEF Origin
  <2>4. screen = act.from
    BY <2>1 DEF ConnectedInv, ActMeets
  <2>5. /\ RecordingConnected' /\ SeenMet'
        /\ nodes' # <<>> => nodes # <<>> /\ nodes'[Len(nodes')].to = nodes[Len(nodes)].to
    BY <1>0, <1>6, ReadFailedWrites, MarksKeepPath
  <2> QED
    BY <1>0, <2>1, <2>3, <2>4, <2>5 DEF Met, Over
<1>7. CASE HandBack
  <2>1. /\ pc = "handoff" /\ screen' = screen /\ nodes' \in Seq(Node)
    BY <1>0, <1>7, HandBackWrites DEF HandBack
  <2>2. pc' \notin {"verify", "prove"}
    <3>1. PICK answer : Continue(answer)
      BY <1>7 DEF HandBack
    <3> QED
      BY <3>1 DEF Continue, NextTurn, End, AskPerson
  <2>3. pc' = "handoff" => handoff'.done = <<>>
    BY <1>7, AsksAfresh
  <2>4. Origin' = screen
    BY <2>1, <2>2, <2>3 DEF Origin
  <2>5. CASE SameButMarks(nodes', nodes) /\ loose' = loose /\ handoff.done = <<>>
    <3>1. Origin = screen
      BY <2>1, <2>5 DEF Origin
    <3>2. /\ RecordingConnected' /\ SeenMet'
          /\ nodes' # <<>> => nodes # <<>> /\ nodes'[Len(nodes')].to = nodes[Len(nodes)].to
      BY <1>0, <2>1, <2>5, MarksKeepPath
    <3> QED
      BY <1>0, <2>1, <2>4, <2>5, <3>1, <3>2 DEF Met, Over
  <2>6. CASE handoff.done # <<>> /\ SameButMarks(nodes', WithPersonNodes(handoff.done))
    <3>1. RecordingConnected' /\ SeenMet' /\ nodes'[Len(nodes')].to = screen
      BY <2>1, <2>6, PersonExtendsPath
    <3> QED
      BY <2>4, <3>1 DEF Met
  <2>7. handoff.why = "confirm" /\ "restart" \in ConfirmAnswers => handoff.done = <<>>
    BY <2>1 DEF ConnectedInv, DeedsMeet, DeedsAreKept
  <2> QED
    BY <1>0, <1>7, <2>5, <2>6, <2>7, HandBackWrites
<1>8. CASE StartAgain
  <2>1. nodes' = <<>> /\ Len(nodes') = 0
    BY <1>8 DEF StartAgain
  <2> QED
    BY <2>1 DEF RecordingConnected, SeenMet, Met
<1> QED
  BY <1>1, <1>2, <1>3, <1>4, <1>5, <1>6, <1>7, <1>8, StepsByRecorder

\* Recorder: the recording is a path, whatever was cut from it, as long as the confirmation of an action does not drop
\* what the person did on the page meanwhile.
THEOREM RecordingIsPath ==
  ASSUME DeedsAreKept
  PROVE  Spec => []RecordingConnected
<1>1. ConnectedInv => RecordingConnected
  BY DEF ConnectedInv
<1>2. ConnectedInv /\ [Next]_vars => ConnectedInv'
  <2> SUFFICES ASSUME ConnectedInv, [Next]_vars PROVE ConnectedInv'
    OBVIOUS
  <2>1. TypeInv'
    BY TypeStep DEF ConnectedInv
  <2> QED
    BY <2>1, PathStep, DeedsMeetStep, ActMeetsStep DEF ConnectedInv
<1> QED
  BY ConnectedInit, <1>1, <1>2, PTL DEF Spec
=============================================================================
