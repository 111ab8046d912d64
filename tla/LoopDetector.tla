---------------------------- MODULE LoopDetector ----------------------------
(***************************************************************************)
(* What `ProgressTracker` of agent.py computes: whether the step that is   *)
(* about to run would repeat a cycle of one, two or three steps.  A step   *)
(* is an entry (action signature, starting screen); entries are compared   *)
(* and never looked into, so here they are just values.                    *)
(***************************************************************************)
EXTENDS Integers, Sequences, FiniteSetsExt

LOOP_WINDOW == 12        \* entries the detector keeps
LOOP_PERIODS == 1..3     \* cycle lengths it recognises
LOOP_WARN_REPEATS == 2
LOOP_STOP_REPEATS == 3

\* The last k * period entries of s are k rounds of one cycle.
EndsInRounds(s, period, k) ==
    /\ k * period <= Len(s)
    /\ \A i \in (Len(s) - k * period + 1)..(Len(s) - period) : s[i] = s[i + period]

\* How many rounds of its last `period` entries s ends in.
CyclesAtTail(s, period) ==
    Max({0} \cup {k \in 1..(Len(s) \div period) : EndsInRounds(s, period, k)})

\* The periods at which the check returns, each with its verdict: the first of them decides.
Stops(s, period) == CyclesAtTail(s, period) >= LOOP_STOP_REPEATS
Warns(s, warned, period) == ~warned /\ CyclesAtTail(s, period) >= LOOP_WARN_REPEATS

LoopVerdict(entries, warned, entry) ==
    LET s == Append(entries, entry)
        telling == {p \in LOOP_PERIODS : Stops(s, p) \/ Warns(s, warned, p)}
    IN  IF telling = {} THEN "none" ELSE IF Stops(s, Min(telling)) THEN "stop" ELSE "warn"

\* Faulty form of Remembered: a window too small for three rounds of three steps.
RememberedInShortWindow(entries, entry) ==
    LET s == Append(entries, entry) IN SubSeq(s, Max({1, Len(s) - 6}), Len(s))

\* `record`: the entry is remembered and the oldest one beyond the window forgotten.
Remembered(entries, entry) ==
    LET s == Append(entries, entry)
    IN  SubSeq(s, Max({1, Len(s) - LOOP_WINDOW + 1}), Len(s))
=============================================================================
