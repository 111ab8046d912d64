------------------------------ MODULE Progress ------------------------------
(***************************************************************************)
(* The life of one `ProgressTracker` inside `discover`: before an action   *)
(* runs it is checked, after a verified action it is recorded, and a       *)
(* loop handed to a person or a new output clears it.  Which step the      *)
(* planner takes next is open.                                             *)
(***************************************************************************)
EXTENDS LoopDetector

CONSTANTS
    Entries,     \* (signature, screen) pairs
    NeedsPerson, \* the entries whose action the policy wants confirmed
    MaxRun       \* bounds the model: steps between two clearances

ASSUME EntryAssumption == NeedsPerson \subseteq Entries
ASSUME RunAssumption == MaxRun \in Nat

VARIABLES
    entries, \* ProgressTracker.entries
    warned,  \* ProgressTracker.warned
    ran      \* history: every step since the tracker was last cleared, none forgotten

vars == <<entries, warned, ran>>

Init == entries = <<>> /\ warned = FALSE /\ ran = <<>>

\* `reset`.
Cleared == entries' = <<>> /\ warned' = FALSE /\ ran' = <<>>

\* A loop, or the first repeat of a step that needs a person, goes to the stuck handoff instead.
StoppedBefore(e) ==
    LET loop == LoopVerdict(entries, warned, e)
    IN  loop = "stop" \/ (loop = "warn" /\ e \in NeedsPerson)

Refuse(e) == StoppedBefore(e) /\ Cleared

\* The action ran and was verified; a new or grown output clears the window just written.
RunAndGrow(e) == ~StoppedBefore(e) /\ Cleared

Run(e) ==
    /\ ~StoppedBefore(e) /\ Len(ran) < MaxRun
    /\ entries' = Remembered(entries, e)
    /\ warned' = (warned \/ LoopVerdict(entries, warned, e) = "warn")
    /\ ran' = Append(ran, e)

Next == \E e \in Entries : Refuse(e) \/ RunAndGrow(e) \/ Run(e)

Spec == Init /\ [][Next]_vars

(***************************************************************************)
(* Properties                                                              *)
(***************************************************************************)

\* README, "Loops": the third repetition is refused before it runs.  Since the last progress no cycle of one,
\* two or three steps was carried out three times in a row, although the detector keeps only the last entries
\* and answers for the shortest suspicious period.
NoThirdRound == \A p \in LOOP_PERIODS : CyclesAtTail(ran, p) < LOOP_STOP_REPEATS

-----------------------------------------------------------------------------
(* Statements of the documentation that the code does not keep (README, 5). *)

\* README, "Loops": an action the policy would have to confirm is stopped at the first repeat: no such step
\* ever completes a second round.  The code asks this only while no warning was given yet.
ConfirmedNotRepeated ==
    ran # <<>> /\ ran[Len(ran)] \in NeedsPerson =>
        \A p \in LOOP_PERIODS : CyclesAtTail(ran, p) < LOOP_WARN_REPEATS
=============================================================================
