--------------------------- MODULE ProgressProofs ---------------------------
(***************************************************************************)
(* The loop detector stops the third round, for any set of steps and runs  *)
(* of any length: although it keeps twelve entries, warns once and answers *)
(* for the first period that tells, no cycle of one, two or three steps is *)
(* carried out three times between two clearances.                         *)
(***************************************************************************)
EXTENDS Progress, SequenceTheorems, WellFoundedInduction, TLAPS

LEMMA Greatest ==
  ASSUME NEW bound \in Nat, NEW T \in SUBSET (0..bound), T # {}
  PROVE  Max(T) \in T /\ \A y \in T : Max(T) >= y
<1> DEFINE R == OpToRel(<, Nat)
           D == {bound - y : y \in T}
<1>1. IsWellFoundedOn(R, Nat)
  BY NatLessThanWellFounded
<1>2. \A x, y \in Nat : x < y => <<x, y>> \in R
  BY DEF OpToRel
<1> HIDE DEF R
<1>3. D \subseteq Nat /\ D # {}
  <2>1. \A y \in T : bound - y \in Nat
    OBVIOUS
  <2> QED
    BY <2>1
<1>4. PICK x \in D : \A y \in D : ~ (<<y, x>> \in R)
  BY <1>1, <1>3, WFMin
<1>5. PICK z \in T : x = bound - z
  BY <1>4
<1>6. \A y \in T : bound - y \in D /\ bound - y \in Nat /\ x \in Nat
  BY <1>3, <1>4
<1>7. \A y \in T : ~(bound - y < x)
  BY <1>2, <1>4, <1>6
<1>8. \A y \in T : z >= y
  BY <1>5, <1>7
<1> QED
  BY <1>8 DEF Max

-----------------------------------------------------------------------------
(* What the detector counts.                                               *)

LEMMA RoundsCounted ==
  ASSUME NEW s \in Seq(Entries), NEW p \in LOOP_PERIODS, NEW k \in {2, 3}
  PROVE  CyclesAtTail(s, p) >= k <=> EndsInRounds(s, p, k)
<1> DEFINE K == {0} \cup {r \in 1..(Len(s) \div p) : EndsInRounds(s, p, r)}
<1>1. Len(s) \in Nat /\ p \in {1, 2, 3} /\ Len(s) \div p \in Nat
  BY DEF LOOP_PERIODS
<1>2. K \in SUBSET (0..(Len(s) \div p)) /\ K # {}
  BY <1>1
<1>3. CyclesAtTail(s, p) \in K /\ \A r \in K : CyclesAtTail(s, p) >= r
  BY <1>1, <1>2, Greatest DEF CyclesAtTail
<1>4. CASE EndsInRounds(s, p, k)
  <2>1. k * p <= Len(s)
    BY <1>4 DEF EndsInRounds
  <2>2. k \in 1..(Len(s) \div p)
    BY <1>1, <2>1
  <2> QED
    BY <1>3, <1>4, <2>2
<1>5. ASSUME CyclesAtTail(s, p) >= k
      PROVE  EndsInRounds(s, p, k)
  <2>1. PICK m \in 1..(Len(s) \div p) : m = CyclesAtTail(s, p) /\ EndsInRounds(s, p, m)
    BY <1>3, <1>5
  <2>2. m \in Nat /\ m >= k /\ m * p <= Len(s) /\ k * p <= m * p
    BY <1>1, <1>5, <2>1 DEF EndsInRounds
  <2>3. \A i \in (Len(s) - k * p + 1)..(Len(s) - p) : i \in (Len(s) - m * p + 1)..(Len(s) - p)
    BY <1>1, <2>2
  <2> QED
    BY <1>1, <2>1, <2>2, <2>3 DEF EndsInRounds
<1> QED
  BY <1>4, <1>5

(* w is the end of s, and long enough for three rounds of three steps.     *)
TailOf(w, s) ==
  /\ Len(w) <= Len(s) /\ (Len(w) = Len(s) \/ Len(w) >= 9)
  /\ \A i \in 1..Len(w) : w[i] = s[Len(s) - Len(w) + i]

LEMMA TailTells ==
  ASSUME NEW w \in Seq(Entries), NEW s \in Seq(Entries), TailOf(w, s),
         NEW p \in LOOP_PERIODS, NEW k \in {2, 3}
  PROVE  EndsInRounds(w, p, k) <=> EndsInRounds(s, p, k)
<1> DEFINE o == Len(s) - Len(w)
<1>1. Len(w) \in Nat /\ Len(s) \in Nat /\ p \in {1, 2, 3} /\ o \in Nat /\ k * p \in 2..9
  BY DEF LOOP_PERIODS, TailOf
<1>2. k * p <= Len(w) <=> k * p <= Len(s)
  BY <1>1 DEF TailOf
<1>3. ASSUME k * p <= Len(w)
      PROVE  EndsInRounds(w, p, k) <=> EndsInRounds(s, p, k)
  <2>1. \A i \in (Len(w) - k * p + 1)..(Len(w) - p) :
          /\ i \in 1..Len(w) /\ i + p \in 1..Len(w)
          /\ o + i \in (Len(s) - k * p + 1)..(Len(s) - p)
          /\ w[i] = s[o + i] /\ w[i + p] = s[(o + i) + p]
    BY <1>1, <1>3 DEF TailOf
  <2>2. \A j \in (Len(s) - k * p + 1)..(Len(s) - p) :
          j - o \in (Len(w) - k * p + 1)..(Len(w) - p) /\ o + (j - o) = j
    BY <1>1
  <2>3. ASSUME EndsInRounds(s, p, k) PROVE EndsInRounds(w, p, k)
    BY <1>3, <2>1, <2>3 DEF EndsInRounds
  <2>4. ASSUME EndsInRounds(w, p, k) PROVE EndsInRounds(s, p, k)
    <3> SUFFICES ASSUME NEW j \in (Len(s) - k * p + 1)..(Len(s) - p)
                 PROVE  s[j] = s[j + p]
      BY <1>2, <1>3 DEF EndsInRounds
    <3>1. w[j - o] = w[(j - o) + p]
      BY <2>2, <2>4 DEF EndsInRounds
    <3>2. w[j - o] = s[o + (j - o)] /\ w[(j - o) + p] = s[(o + (j - o)) + p]
      BY <2>1, <2>2
    <3> QED
      BY <2>2, <3>1, <3>2
  <2> QED
    BY <2>3, <2>4
<1> QED
  BY <1>2, <1>3 DEF EndsInRounds

(* Adding a step to both keeps the one the end of the other.               *)
LEMMA TailAppend ==
  ASSUME NEW w \in Seq(Entries), NEW s \in Seq(Entries), TailOf(w, s), NEW e \in Entries
  PROVE  TailOf(Append(w, e), Append(s, e))
<1>1. /\ Len(w) \in Nat /\ Len(s) \in Nat
      /\ Len(Append(w, e)) = Len(w) + 1 /\ Len(Append(s, e)) = Len(s) + 1
      /\ \A i \in 1..Len(w) + 1 : Append(w, e)[i] = IF i = Len(w) + 1 THEN e ELSE w[i]
      /\ \A i \in 1..Len(s) + 1 : Append(s, e)[i] = IF i = Len(s) + 1 THEN e ELSE s[i]
  BY AppendProperties
<1>2. ASSUME NEW i \in 1..Len(w) + 1
      PROVE  Append(w, e)[i] = Append(s, e)[Len(s) - Len(w) + i]
  <2>1. Len(s) - Len(w) + i \in 1..Len(s) + 1 /\ (Len(s) - Len(w) + i = Len(s) + 1 <=> i = Len(w) + 1)
    BY <1>1 DEF TailOf
  <2> QED
    BY <1>1, <2>1 DEF TailOf
<1>3. Len(Append(s, e)) - Len(Append(w, e)) = Len(s) - Len(w)
  BY <1>1
<1>4. /\ Len(Append(w, e)) <= Len(Append(s, e))
      /\ Len(Append(w, e)) = Len(Append(s, e)) \/ Len(Append(w, e)) >= 9
  BY <1>1 DEF TailOf
<1> QED
  BY <1>1, <1>2, <1>3, <1>4 DEF TailOf

(* What is forgotten beyond the window is never needed.                    *)
LEMMA WindowIsTail ==
  ASSUME NEW w \in Seq(Entries), NEW s \in Seq(Entries), TailOf(w, s), NEW e \in Entries
  PROVE  Remembered(w, e) \in Seq(Entries) /\ TailOf(Remembered(w, e), Append(s, e))
<1> DEFINE a == Append(w, e)
           m == Max({1, Len(a) - LOOP_WINDOW + 1})
           t == Append(s, e)
<1>1. /\ a \in Seq(Entries) /\ Len(a) \in Nat /\ Len(a) >= 1 /\ Len(a) = Len(w) + 1
      /\ t \in Seq(Entries) /\ Len(t) \in Nat /\ TailOf(a, t)
  BY AppendProperties, TailAppend
<1>2. m \in Nat /\ m >= 1 /\ m <= Len(a) /\ (m = 1 \/ m = Len(a) - 11)
  <2>1. CASE Len(a) <= 12
    <3>1. \A x : x = 1 <=>
            x \in {1, Len(a) - LOOP_WINDOW + 1} /\ \A y \in {1, Len(a) - LOOP_WINDOW + 1} : x >= y
      BY <1>1, <2>1 DEF LOOP_WINDOW
    <3>2. m = 1
      BY <3>1 DEF Max
    <3> QED
      BY <1>1, <3>2
  <2>2. CASE Len(a) > 12
    <3>1. \A x : x = Len(a) - 11 <=>
            x \in {1, Len(a) - LOOP_WINDOW + 1} /\ \A y \in {1, Len(a) - LOOP_WINDOW + 1} : x >= y
      BY <1>1, <2>2 DEF LOOP_WINDOW
    <3>2. m = Len(a) - 11
      BY <3>1 DEF Max
    <3> QED
      BY <1>1, <2>2, <3>2
  <2> QED
    BY <1>1, <2>1, <2>2
<1> DEFINE r == SubSeq(a, m, Len(a))
<1> HIDE DEF m, a, t
<1>3. /\ r \in Seq(Entries) /\ Len(r) = Len(a) - m + 1
      /\ \A i \in 1..Len(r) : r[i] = a[m + i - 1]
  <2>1. m \in Int /\ Len(a) \in Int /\ \A i \in m..Len(a) : a[i] \in Entries
    BY <1>1, <1>2
  <2> QED
    BY <1>1, <1>2, <2>1, SubSeqProperties
<1> HIDE DEF r
<1>4. ASSUME NEW i \in 1..Len(r)
      PROVE  r[i] = t[Len(t) - Len(r) + i]
  <2>1. i \in Nat /\ i >= 1 /\ i <= Len(a) - m + 1
    BY <1>1, <1>2, <1>3
  <2>2. m + i - 1 \in 1..Len(a)
    BY <1>1, <1>2, <2>1
  <2>3. Len(t) - Len(a) + (m + i - 1) = Len(t) - Len(r) + i
    BY <1>1, <1>2, <1>3, <2>1
  <2> QED
    BY <1>1, <1>3, <2>2, <2>3 DEF TailOf
<1>5. Len(r) <= Len(t) /\ (Len(r) = Len(t) \/ Len(r) >= 9)
  BY <1>1, <1>2, <1>3 DEF TailOf
<1>6. r = Remembered(w, e)
  BY DEF r, m, a, Remembered
<1> QED
  BY <1>3, <1>4, <1>5, <1>6 DEF TailOf, t

-----------------------------------------------------------------------------
(***************************************************************************)
(* The run.  A third round is seen because its second one was: whichever   *)
(* step ended a second round either drew the warning or came after it.     *)
(***************************************************************************)

(* The first j steps of s end in two rounds.                               *)
TwoRoundsAt(s, j, p) == 2 * p <= j /\ \A i \in (j - 2 * p + 1)..(j - p) : s[i] = s[i + p]

Types == entries \in Seq(Entries) /\ ran \in Seq(Entries) /\ warned \in BOOLEAN
Unwarned ==
  ~warned => \A j \in 1..Len(ran), p \in LOOP_PERIODS : ~TwoRoundsAt(ran, j, p)
NeverThrice == \A p \in LOOP_PERIODS : ~EndsInRounds(ran, p, 3)
LoopInv == Types /\ TailOf(entries, ran) /\ Unwarned /\ NeverThrice

LEMMA NothingRun == \A p \in LOOP_PERIODS : ~EndsInRounds(<<>>, p, 3)
<1> SUFFICES ASSUME NEW p \in LOOP_PERIODS
             PROVE  ~EndsInRounds(<<>>, p, 3)
  OBVIOUS
<1>1. ~(3 * p <= 0) /\ Len(<<>>) = 0
  BY DEF LOOP_PERIODS
<1> QED
  BY <1>1 DEF EndsInRounds

LEMMA ClearedOK ==
  ASSUME entries = <<>>, warned = FALSE, ran = <<>>
  PROVE  LoopInv
<1>1. Types
  <2>1. <<>> \in Seq(Entries)
    OBVIOUS
  <2> QED
    BY <2>1, Zenon DEF Types
<1>2. TailOf(entries, ran)
  BY DEF TailOf
<1>3. Unwarned
  BY DEF Unwarned
<1>4. NeverThrice
  BY NothingRun DEF NeverThrice
<1> QED
  BY <1>1, <1>2, <1>3, <1>4 DEF LoopInv

(* The verdict, told from the whole run.                                   *)
LEMMA VerdictOfRun ==
  ASSUME LoopInv, NEW e \in Entries
  PROVE  /\ LoopVerdict(entries, warned, e) = "none" /\ ~warned =>
              \A p \in LOOP_PERIODS : ~EndsInRounds(Append(ran, e), p, 2)
         /\ warned /\ (\E p \in LOOP_PERIODS : EndsInRounds(Append(ran, e), p, 3)) =>
              LoopVerdict(entries, warned, e) = "stop"
<1> DEFINE s == Append(entries, e)
           t == Append(ran, e)
           telling == {p \in LOOP_PERIODS : Stops(s, p) \/ Warns(s, warned, p)}
<1>1. s \in Seq(Entries) /\ t \in Seq(Entries) /\ TailOf(s, t)
  BY AppendProperties, TailAppend DEF LoopInv, Types
<1>2. \A p \in LOOP_PERIODS : Stops(s, p) <=> EndsInRounds(t, p, 3)
  BY <1>1, RoundsCounted, TailTells DEF Stops, LOOP_STOP_REPEATS
<1>3. \A p \in LOOP_PERIODS : Warns(s, warned, p) <=> ~warned /\ EndsInRounds(t, p, 2)
  BY <1>1, RoundsCounted, TailTells DEF Warns, LOOP_WARN_REPEATS
<1>4. LoopVerdict(entries, warned, e)
        = IF telling = {} THEN "none" ELSE IF Stops(s, Min(telling)) THEN "stop" ELSE "warn"
  BY DEF LoopVerdict
<1> HIDE DEF s, t
<1>5. LoopVerdict(entries, warned, e) = "none" /\ ~warned => \A p \in LOOP_PERIODS : ~EndsInRounds(t, p, 2)
  BY <1>3, <1>4
<1>6. ASSUME warned, NEW p \in LOOP_PERIODS, EndsInRounds(t, p, 3)
      PROVE  LoopVerdict(entries, warned, e) = "stop"
  <2>1. telling # {} /\ \A q \in telling : Stops(s, q)
    BY <1>2, <1>6 DEF Warns
  <2>2. Min(telling) \in telling
    <3>1. \E x \in telling : \A y \in telling : x <= y
      BY <2>1 DEF LOOP_PERIODS
    <3> QED
      BY <3>1 DEF Min
  <2> QED
    BY <1>4, <2>1, <2>2
<1> QED
  BY <1>5, <1>6 DEF t

LEMMA RunKeeps ==
  ASSUME LoopInv, NEW e \in Entries, Run(e)
  PROVE  LoopInv'
<1>1. /\ Len(ran) \in Nat /\ ran' \in Seq(Entries) /\ Len(ran') = Len(ran) + 1
      /\ \A i \in 1..Len(ran) : ran'[i] = ran[i]
      /\ LoopVerdict(entries, warned, e) # "stop" /\ ran' = Append(ran, e)
  BY AppendProperties DEF LoopInv, Types, Run, StoppedBefore
<1>2. Types' /\ TailOf(entries, ran)'
  BY <1>1, WindowIsTail DEF LoopInv, Types, Run
<1>3. NeverThrice'
  <2> SUFFICES ASSUME NEW p \in LOOP_PERIODS, EndsInRounds(ran', p, 3)
               PROVE  FALSE
    BY DEF NeverThrice
  <2>1. p \in {1, 2, 3} /\ 3 * p <= Len(ran) + 1
    BY <1>1 DEF LOOP_PERIODS, EndsInRounds
  <2>2. Len(ran) + 1 - p \in 1..Len(ran)
    BY <1>1, <2>1
  <2>3. ASSUME NEW i \in (Len(ran) + 1 - p - 2 * p + 1)..(Len(ran) + 1 - p - p)
        PROVE  ran[i] = ran[i + p]
    <3>1. i \in (Len(ran') - 3 * p + 1)..(Len(ran') - p) /\ i \in 1..Len(ran) /\ i + p \in 1..Len(ran)
      BY <1>1, <2>1
    <3> QED
      BY <1>1, <3>1 DEF EndsInRounds
  <2>4. TwoRoundsAt(ran, Len(ran) + 1 - p, p)
    BY <1>1, <2>1, <2>3 DEF TwoRoundsAt
  <2>5. warned
    BY <2>2, <2>4 DEF LoopInv, Unwarned
  <2> QED
    BY <1>1, <2>5, VerdictOfRun
<1>4. Unwarned'
  <2> SUFFICES ASSUME ~warned', NEW j \in 1..Len(ran) + 1, NEW p \in LOOP_PERIODS, TwoRoundsAt(ran', j, p)
               PROVE  FALSE
    BY <1>1 DEF Unwarned
  <2>1. ~warned /\ LoopVerdict(entries, warned, e) # "warn"
    BY DEF Run
  <2>2. LoopVerdict(entries, warned, e) = "none"
    BY <1>1, <2>1 DEF LoopVerdict
  <2>3. p \in {1, 2, 3}
    BY DEF LOOP_PERIODS
  <2>4. CASE j = Len(ran) + 1
    <3>1. EndsInRounds(ran', p, 2)
      BY <1>1, <2>3, <2>4 DEF TwoRoundsAt, EndsInRounds
    <3> QED
      BY <1>1, <2>1, <2>2, <3>1, VerdictOfRun
  <2>5. CASE j \in 1..Len(ran)
    <3>1. \A i \in (j - 2 * p + 1)..(j - p) : i \in 1..Len(ran) /\ i + p \in 1..Len(ran)
      BY <1>1, <2>3, <2>5 DEF TwoRoundsAt
    <3>2. TwoRoundsAt(ran, j, p)
      BY <1>1, <3>1 DEF TwoRoundsAt
    <3> QED
      BY <2>1, <2>5, <3>2 DEF LoopInv, Unwarned
  <2> QED
    BY <1>1, <2>4, <2>5
<1> QED
  BY <1>2, <1>3, <1>4 DEF LoopInv

LEMMA LoopStep == LoopInv /\ [Next]_vars => LoopInv'
<1> SUFFICES ASSUME LoopInv, [Next]_vars
             PROVE  LoopInv'
  OBVIOUS
<1>1. ASSUME NEW e \in Entries, Refuse(e) \/ RunAndGrow(e)
      PROVE  LoopInv'
  <2>1. entries' = <<>> /\ warned' = FALSE /\ ran' = <<>>
    BY <1>1 DEF Refuse, RunAndGrow, Cleared
  <2>2. Types'
    <3>1. <<>> \in Seq(Entries)
      OBVIOUS
    <3> QED
      BY <2>1, <3>1, Zenon DEF Types
  <2>3. TailOf(entries, ran)'
    BY <2>1 DEF TailOf
  <2>4. NeverThrice'
    BY <2>1, NothingRun DEF NeverThrice
  <2>5. Unwarned'
    BY <2>1 DEF Unwarned
  <2> QED
    BY <2>2, <2>3, <2>4, <2>5 DEF LoopInv
<1>2. ASSUME NEW e \in Entries, Run(e)
      PROVE  LoopInv'
  BY <1>2, RunKeeps
<1>3. CASE UNCHANGED vars
  BY <1>3 DEF vars, LoopInv, Types, Unwarned, NeverThrice
<1> QED
  BY <1>1, <1>2, <1>3 DEF Next

(* Since the last progress no cycle of one, two or three steps is carried  *)
(* out three times in a row, however long the run and whatever its steps.  *)
THEOREM ThirdRoundStopped == Spec => []NoThirdRound
<1>1. Init => LoopInv
  BY ClearedOK DEF Init
<1>2. LoopInv => NoThirdRound
  <2> SUFFICES ASSUME LoopInv, NEW p \in LOOP_PERIODS
               PROVE  CyclesAtTail(ran, p) < 3
    BY DEF NoThirdRound, LOOP_STOP_REPEATS
  <2>1. ran \in Seq(Entries) /\ ~EndsInRounds(ran, p, 3)
    BY DEF LoopInv, Types, NeverThrice
  <2>2. CyclesAtTail(ran, p) \in Nat
    <3> DEFINE K == {0} \cup {r \in 1..(Len(ran) \div p) : EndsInRounds(ran, p, r)}
    <3>1. Len(ran) \div p \in Nat
      BY <2>1 DEF LOOP_PERIODS
    <3>2. K \in SUBSET (0..(Len(ran) \div p)) /\ K # {}
      BY <3>1
    <3>3. CyclesAtTail(ran, p) \in K
      BY <3>1, <3>2, Greatest DEF CyclesAtTail
    <3> QED
      BY <3>1, <3>3
  <2>3. ~(CyclesAtTail(ran, p) >= 3)
    BY <2>1, RoundsCounted
  <2> QED
    BY <2>2, <2>3
<1> QED
  BY <1>1, <1>2, LoopStep, PTL DEF Spec
=============================================================================
