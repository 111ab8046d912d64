------------------------------ MODULE Discovery ------------------------------
(***************************************************************************)
(* One discovery (`discover` of agent.py) and its restarts on a fresh      *)
(* session: turn by turn the planner looks at the screen and decides, the  *)
(* decision is judged, refused, confirmed or carried out, and what is      *)
(* proven becomes a node of the recording.  The planner, the page and the  *)
(* person are open: they answer in every way the code can receive.         *)
(*                                                                         *)
(* pc names the call `discover` makes next: a look at the screen, a        *)
(* decision, the action itself, the look that verifies it, or a request    *)
(* to a person.  Between two calls nothing else can happen.                *)
(***************************************************************************)
EXTENDS LoopDetector, FiniteSets

CONSTANTS
    Actions,     \* what the planner may ask for, as action_identity sees it
    Kind,        \* its kind
    Verdict,     \* what Policy.check says of it: allow, confirm or deny
    To,          \* the screens that may show once it took effect
    Output,      \* the output an extraction writes
    Adds,        \* the number of values it reads
    Appends,     \* the extractions with output_mode "append"
    Visual,      \* the actions only the vision fallback can propose
    Screens, EntryScreen,
    Url, Page,   \* address and stable_screen_key of a screen
    Modal,       \* the screens with a dialog up
    Outputs, IsList, MaxItems, MinItems, \* the output contract
    MAX_STEPS, MaxVision, MaxRestarts,
    Attendance,  \* whether somebody attends: a set of the possible answers
    VisionOn,
    ActsInConfirm, \* whether a person may also drive the page while asked to confirm
    ConfirmAnswers,\* what a person may answer to a confirmation
    Fleeting,      \* whether a text may be gone again when it is looked for a second time
    MaxHandoffs, MaxHuman \* bound the model: answered handoffs, actions of a person in one of them

READS == {"extract", "extract_many"}
MAX_CONSECUTIVE_DENIALS == 3
MAX_SAME_ACTION_FAILURES == 2

ASSUME ActionAssumption ==
    /\ \A a \in Actions : To[a] \subseteq Screens /\ Verdict[a] \in {"allow", "confirm", "deny"}
    /\ \A a \in Actions : Kind[a] \in READS => Output[a] \in Outputs /\ Verdict[a] = "allow"
    /\ Visual \subseteq Actions /\ Appends \subseteq Actions

\* Every read takes something, `extraction_problem`; the output contract is checked before discovery starts.
ASSUME ContractAssumption ==
    /\ \A a \in Actions : Kind[a] \in READS => Adds[a] \in Nat \ {0}
    /\ \A o \in Outputs : MinItems[o] \in Nat /\ MaxItems[o] \in Nat \ {0}
    /\ EntryScreen \in Screens /\ Attendance \subseteq BOOLEAN

ASSUME BoundAssumption == {MAX_STEPS, MaxVision, MaxRestarts, MaxHandoffs, MaxHuman} \subseteq Nat

VARIABLES
    pc, turn, screen, seen,  \* seen: the observation of this turn
    act,         \* the action of this turn and what became of it
    pending,     \* a stuck state the runtime raised itself
    denials, failures, unverified, entries, warned,
    vision,      \* Vision.attempts, Vision.last_fingerprint
    nodes, outputs, snapshot, \* the Recorder
    handoff,     \* the request in flight: what raised it and what the person did
    handoffs,
    attended,    \* somebody answers the requests
    sessions,    \* sessions opened so far, counted by discover_with_reuse
    looks,       \* history: visual proposals over all sessions
    blind,       \* history: unproven dispatches since the last new output
    unseen,      \* history: a dispatched action took effect, and neither a node nor a person knows of it yet
    loose        \* history: the page was changed by something that is not recorded

turnVars == <<turn, seen, pending>>
counters == <<denials, failures, unverified>>
window == <<entries, warned>>
recorder == <<nodes, outputs, snapshot>>
people == <<handoff, handoffs>>
run == <<attended, sessions, looks>>
history == <<blind, unseen, loose>>
vars == <<pc, screen, act, turnVars, counters, window, vision, recorder, people, run, history>>

NoAct == [id |-> "none", warn |-> FALSE, from |-> "none", happened |-> FALSE,
          lost |-> FALSE, noexpect |-> FALSE]
NoHandoff == [why |-> "none", done |-> <<>>]
EntryNode == [by |-> "entry", id |-> "entry", before |-> EntryScreen, from |-> EntryScreen,
              to |-> EntryScreen, abandoned |-> FALSE, proof |-> "none", loose |-> FALSE]
NoVision == [attempts |-> 0, last |-> "none", unproven |-> FALSE] \* unproven: history

Over == {"built", "failed", "escaped"}

-----------------------------------------------------------------------------
(* The state of one session of discovery: everything `discover` creates. *)

Init ==
    /\ pc = "entry" /\ turn = 0 /\ screen = EntryScreen /\ seen = EntryScreen
    /\ act = NoAct /\ pending = FALSE
    /\ denials = 0 /\ failures = [k \in Actions \X Screens |-> 0] /\ unverified = {}
    /\ entries = <<>> /\ warned = FALSE /\ vision = NoVision
    /\ nodes = <<>> /\ outputs = [o \in Outputs |-> 0] /\ snapshot = FALSE
    /\ handoff = NoHandoff /\ handoffs = 0
    /\ attended \in Attendance /\ sessions = 1 /\ looks = 0
    /\ blind = {} /\ unseen = FALSE /\ loose = FALSE

-----------------------------------------------------------------------------
(* Control. *)

End(how) == pc' = how /\ act' = NoAct
NextTurn == End("turn")

\* `handle_stuck`, `confirm_with_human`: the session goes to the operator.
AskPerson(why) ==
    /\ pc' = "handoff" /\ handoff' = [why |-> why, done |-> <<>>]
    /\ handoffs' = handoffs + 1 /\ unseen' = FALSE

\* The entry page is opened and observed, each with three attempts.
EnterPage ==
    /\ pc = "entry" /\ pc' = "turn" /\ nodes' = <<EntryNode>>
    /\ UNCHANGED <<screen, act, turnVars, counters, window, vision, outputs, snapshot, people, run, history>>

\* Faulty form of Look: the turn is not counted.
LookUncounted ==
    /\ pc = "turn" /\ turn < MAX_STEPS
    /\ seen' = screen /\ pc' = "decide"
    /\ UNCHANGED <<turn, screen, act, pending, counters, window, vision, recorder, people, run, history>>

Look ==
    /\ pc = "turn" /\ turn < MAX_STEPS
    /\ turn' = turn + 1 /\ seen' = screen /\ pc' = "decide"
    /\ UNCHANGED <<screen, act, pending, counters, window, vision, recorder, people, run, history>>

OutOfTurns == pc = "turn" /\ turn = MAX_STEPS /\ End("failed")

\* Three failed loads end discovery; a failed reload between them is not caught.
PageKeepsFailing == pc \in {"entry", "turn"} /\ turn < MAX_STEPS /\ (End("failed") \/ End("escaped"))

Stop ==
    /\ OutOfTurns \/ PageKeepsFailing
    /\ UNCHANGED <<screen, turnVars, counters, window, vision, recorder, people, run, history>>

-----------------------------------------------------------------------------
(* The decision. *)

\* `contract_problems`: a declared output that is absent, too short or too long.
ContractMet == \A o \in Outputs : outputs[o] \in MinItems[o]..MaxItems[o]

\* `finish`: the claim is accepted when its text is on screen and the outputs are complete.
DoneAccepted == pc = "decide" /\ ~pending /\ ContractMet /\ End("built")
DoneRejected == pc = "decide" /\ ~pending /\ NextTurn
Done ==
    /\ DoneAccepted \/ DoneRejected
    /\ UNCHANGED <<screen, turnVars, counters, window, vision, recorder, people, run, history>>

\* The entry of the loop detector for an action on the screen of this turn.
EntryOf(a) == <<a, seen>>

Denied ==
    /\ denials' = denials + 1
    /\ IF denials + 1 = MAX_CONSECUTIVE_DENIALS THEN End("failed") ELSE NextTurn
    /\ UNCHANGED <<warned, people, unseen>>

\* Policy, then the loop detector, then the person: all before the surface is touched.
Judge(a) ==
    LET loop == LoopVerdict(entries, warned, EntryOf(a))
        took == [NoAct EXCEPT !.id = a, !.warn = (loop = "warn")]
    IN  IF Verdict[a] = "deny" THEN Denied
        ELSE /\ denials' = 0
             /\ IF loop = "stop" \/ (loop = "warn" /\ Verdict[a] = "confirm")
                THEN AskPerson("loop") /\ act' = NoAct /\ UNCHANGED warned
                ELSE /\ warned' = (warned \/ loop = "warn")
                     /\ act' = took
                     /\ IF Verdict[a] = "confirm"
                        THEN AskPerson("confirm")
                        ELSE pc' = "attempt" /\ UNCHANGED <<people, unseen>>

DecideAction ==
    /\ pc = "decide" /\ ~pending
    /\ \E a \in Actions \ Visual : Judge(a)
    /\ UNCHANGED <<screen, turnVars, failures, unverified, entries, vision, recorder, run, blind, loose>>

\* `missing_data_problem`: only a declared output that is not recorded yet may be looked for.
Lacking(a) == Kind[a] \in READS /\ outputs[Output[a]] = 0

\* `Vision.propose` spends an attempt on a screen that changed since the last one.
VisionMayLook == VisionOn /\ vision.attempts < MaxVision /\ vision.last # seen
Proposes(cause) == {a \in Visual : IF cause = "missing_data" THEN Lacking(a) ELSE Kind[a] \notin READS}

StuckProposal(cause) ==
    /\ cause \in {"perception", "actionability", "missing_data"} /\ VisionMayLook
    /\ vision' = [vision EXCEPT !.attempts = @ + 1, !.last = seen] /\ looks' = looks + 1
    /\ \/ \E a \in Proposes(cause) : Judge(a)
       \/ AskPerson("stuck") /\ act' = NoAct /\ UNCHANGED <<denials, warned>>

\* No vision, no attempt left, nothing new to look at, or the capture failed.
StuckToPerson ==
    /\ AskPerson("stuck") /\ act' = NoAct
    /\ UNCHANGED <<vision, looks, denials, warned>>

DecideStuck ==
    /\ pc = "decide" /\ pending' = FALSE
    /\ \E cause \in (IF pending THEN {"actionability"} ELSE {"planner", "perception", "missing_data"}) :
         StuckProposal(cause) \/ StuckToPerson
    /\ UNCHANGED <<turn, seen, screen, failures, unverified, entries, recorder, attended, sessions, blind, loose>>

-----------------------------------------------------------------------------
(* The attempt. *)

\* `unverified_key`: the same action on the same control at the same address.
Key(a) == <<a, Url[seen]>>

RefuseRepeat ==
    /\ pc = "attempt" /\ Key(act.id) \in unverified
    /\ AskPerson("refused") /\ act' = NoAct
    /\ UNCHANGED <<screen, turnVars, counters, window, vision, recorder, run, blind, loose>>

\* `aligned_lists`: several declared lists of one size, and no other list.
Aligned ==
    LET lists == {o \in Outputs : IsList[o]}
    IN  IF Cardinality(lists) > 1 /\ Cardinality({MaxItems[o] : o \in lists}) = 1 THEN lists ELSE {}

\* Faulty form of SnapshotNeeded: off by one in the lists it counts.
SnapshotNeededFromThree(a) == Cardinality(Aligned) > 2 /\ a \in Appends /\ ~snapshot

SnapshotNeeded(a) == Aligned # {} /\ a \in Appends /\ ~snapshot

\* `output_conflict` and `capacity_conflict` under a declared contract.
OutputConflict(a) ==
    LET o == Output[a]
    IN  /\ Kind[a] \in READS
        /\ \/ SnapshotNeeded(a)
           \/ a \in Appends /\ (~IsList[o] \/ outputs[o] + Adds[a] > MaxItems[o])
           \/ a \notin Appends /\ (outputs[o] > 0 \/ IsList[o] # (Kind[a] = "extract_many"))

Ready == pc = "attempt" /\ Key(act.id) \notin unverified

\* Faulty form of CountFailure: the bound is noticed one failure too late.
CountFailureLate ==
    LET k == <<act.id, seen>>
    IN  IF failures[k] = MAX_SAME_ACTION_FAILURES
        THEN failures' = [failures EXCEPT ![k] = 0] /\ AskPerson("failing") /\ act' = NoAct
        ELSE failures' = [failures EXCEPT ![k] = @ + 1] /\ NextTurn /\ UNCHANGED <<people, unseen>>

\* A failure of the same action on the same screen, bounded; a control that takes no click may go to vision.
CountFailure ==
    LET k == <<act.id, seen>>
    IN  IF failures[k] + 1 = MAX_SAME_ACTION_FAILURES
        THEN failures' = [failures EXCEPT ![k] = 0] /\ AskPerson("failing") /\ act' = NoAct
        ELSE failures' = [failures EXCEPT ![k] = @ + 1] /\ NextTurn /\ UNCHANGED <<people, unseen>>

FailBeforeActing ==
    /\ Ready /\ CountFailure
    /\ UNCHANGED <<screen, turnVars, denials, unverified, window, vision, recorder, run, blind, loose>>

NotActionable ==
    /\ Ready /\ Kind[act.id] = "click" /\ VisionOn /\ ~OutputConflict(act.id)
    /\ failures' = [failures EXCEPT ![<<act.id, seen>>] = 0]
    /\ pending' = TRUE /\ NextTurn
    /\ UNCHANGED <<screen, turn, seen, denials, unverified, window, vision, recorder, people, run, history>>

\* Typed text is in the field, and more than one suggestion fits it.
SelectionAmbiguous ==
    /\ Ready /\ Kind[act.id] = "select" /\ CountFailure
    /\ screen' \in {s \in Screens : Url[s] = Url[screen]} /\ loose' = TRUE
    /\ UNCHANGED <<turnVars, denials, unverified, window, vision, recorder, run, blind>>

\* The surface carried the action out, or lost track of it; either way it may have done nothing.
Dispatch ==
    /\ Ready /\ Kind[act.id] \notin READS
    /\ \E worked \in BOOLEAN :
         /\ screen' \in IF worked THEN To[act.id] ELSE {screen}
         /\ act' = [act EXCEPT !.from = screen, !.happened = worked] /\ unseen' = (unseen \/ worked)
    /\ pc' \in {"verify", "prove"}
    /\ UNCHANGED <<turnVars, counters, window, vision, recorder, people, run, blind, loose>>

BeginRead ==
    /\ Ready /\ Kind[act.id] \in READS /\ ~OutputConflict(act.id)
    /\ act' = [act EXCEPT !.from = screen] /\ pc' = "verify"
    /\ UNCHANGED <<screen, turnVars, counters, window, vision, recorder, people, run, history>>

-----------------------------------------------------------------------------
(* What an action left behind. *)

UrlMoved == Url[screen] # Url[seen]

\* `proof_after_failure`: a new text, else a new address; a selection is never proven this way.
ProveLost ==
    /\ pc = "prove" /\ Kind[act.id] # "select"
    /\ \/ act.happened /\ act' = [act EXCEPT !.lost = TRUE]
       \/ UrlMoved /\ act' = [act EXCEPT !.lost = TRUE, !.noexpect = TRUE]
    /\ pc' = "verify"
    /\ UNCHANGED <<screen, turnVars, counters, window, vision, recorder, people, run, history>>

\* Faulty form of LostUnproven: the planner goes on as after a failure that did nothing.
LostForgotten ==
    /\ pc = "prove" /\ NextTurn
    /\ blind' = blind \cup {Key(act.id)} /\ loose' = (loose \/ act.happened)
    /\ UNCHANGED <<screen, turnVars, counters, window, vision, recorder, people, run, unseen>>

LostUnproven ==
    /\ pc = "prove" /\ AskPerson("lost")
    /\ blind' = blind \cup {Key(act.id)} /\ loose' = (loose \/ act.happened)
    /\ UNCHANGED <<screen, act, turnVars, counters, window, vision, recorder, run>>

\* A visual action has a verification of its own, unless the surface lost track of it.
VisualTurn == act.id \in Visual /\ ~act.lost

\* `url_checkpoint` serves only the kinds that move the page.
UrlProof == UrlMoved /\ Kind[act.id] \in {"navigate", "back", "click"}

\* `dismissal_transition`, `selection_transition`, `state_transition`, `commit_transition`: the control is gone, is
\* selected, reports another native state or has stored a value.  Only the action itself brings that about.
ControlChanged == act.happened

\* The checkpoints verification can find: the expected text, new since the turn began; else the address; else
\* a state of the control; else none.
MetProofs ==
    IF act.lost /\ ~act.noexpect /\ ~Fleeting THEN {"text"}
    ELSE (IF act.happened /\ ~act.noexpect THEN {"text"} ELSE {})
         \cup (IF UrlProof THEN {"url"} ELSE IF ControlChanged THEN {"state", "none"} ELSE {"none"})

MayBeContradicted == ~act.noexpect /\ ~(act.lost /\ ~Fleeting)

\* `independent_proof`, when the expected text never appeared.
ContraryProofs == IF UrlProof THEN {"url"} ELSE IF ControlChanged THEN {"state"} ELSE {}

NewNode(proof, contradicted) ==
    [by |-> IF act.id \in Visual THEN "vision" ELSE "planner", id |-> act.id, before |-> seen,
     from |-> act.from, to |-> screen, abandoned |-> contradicted, proof |-> proof, loose |-> loose]

MarkLast(ns) == IF ns = <<>> THEN ns ELSE [ns EXCEPT ![Len(ns)].abandoned = TRUE]

\* Faulty form of Conclude: any verified action counts as progress.
ConcludeWithProgress(ns, grown) ==
    IF act.lost
    THEN nodes' = ns /\ UNCHANGED <<window, unverified, blind>>
    ELSE /\ nodes' = ns /\ entries' = <<>> /\ warned' = FALSE /\ unverified' = {}
         /\ blind' = IF grown THEN {} ELSE blind

\* The end of a turn whose action was verified: the window, progress, and the mark of a warned loop.  An
\* action that was lost and then proven returns to the loop without any of it.
Conclude(ns, grown) ==
    IF act.lost
    THEN nodes' = ns /\ UNCHANGED <<window, unverified, blind>>
    ELSE IF grown
    THEN nodes' = ns /\ entries' = <<>> /\ warned' = FALSE /\ unverified' = {} /\ blind' = {}
    ELSE /\ nodes' = IF act.warn THEN MarkLast(ns) ELSE ns
         /\ entries' = Remembered(entries, EntryOf(act.id))
         /\ UNCHANGED <<warned, unverified, blind>>

\* A click while a dialog is up becomes the way to recover from that dialog, not a node.
Dismissal == seen \in Modal /\ Kind[act.id] = "click" /\ ~VisualTurn

Record(proof, contradicted) ==
    IF Dismissal
    THEN Conclude(nodes, FALSE) /\ loose' = (loose \/ Page[screen] # Page[act.from])
    ELSE Conclude(Append(nodes, NewNode(proof, contradicted)), FALSE) /\ loose' = FALSE

Verified ==
    /\ pc = "verify" /\ Kind[act.id] \notin READS /\ NextTurn
    /\ IF VisualTurn THEN act.happened /\ Record("text", FALSE)
       ELSE \/ \E p \in MetProofs : Record(p, FALSE)
            \/ MayBeContradicted /\ \E p \in ContraryProofs : Record(p, TRUE)
    /\ unseen' = FALSE
    /\ UNCHANGED <<screen, turnVars, denials, failures, vision, outputs, snapshot, people, run>>

\* Performed, unproven, not recorded: never again until something measurable changes, and a person looks.
Unproven ==
    /\ pc = "verify" /\ Kind[act.id] \notin READS /\ ~VisualTurn
    /\ MayBeContradicted /\ ~UrlProof
    /\ IF act.lost
       THEN NextTurn /\ UNCHANGED <<unverified, people, unseen>>
       ELSE /\ unverified' = unverified \cup {Key(act.id)}
            /\ AskPerson("unverified") /\ act' = NoAct
    /\ blind' = blind \cup {Key(act.id)} /\ loose' = (loose \/ act.happened)
    /\ UNCHANGED <<screen, turnVars, denials, failures, window, vision, recorder, run>>

\* Faulty form of VisualUnproven: the attempt is counted like any other.
VisualUnprovenCounted ==
    /\ pc = "verify" /\ Kind[act.id] \notin READS /\ VisualTurn
    /\ vision' = [vision EXCEPT !.unproven = TRUE]
    /\ AskPerson("visual") /\ blind' = blind \cup {Key(act.id)}
    /\ loose' = (loose \/ act.happened)
    /\ UNCHANGED <<screen, act, turnVars, counters, window, recorder, run>>

\* `verify_vision_action`: no further visual proposal in this session, and a person is asked, twice.
VisualUnproven ==
    /\ pc = "verify" /\ Kind[act.id] \notin READS /\ VisualTurn
    /\ vision' = [vision EXCEPT !.attempts = MaxVision, !.unproven = TRUE]
    /\ AskPerson("visual") /\ blind' = blind \cup {Key(act.id)}
    /\ loose' = (loose \/ act.happened)
    /\ UNCHANGED <<screen, act, turnVars, counters, window, recorder, run>>

\* The looks that verification takes at the page are not retried.
LookEscapes ==
    /\ pc = "verify" /\ Kind[act.id] \notin READS /\ End("escaped")
    /\ UNCHANGED <<screen, turnVars, counters, window, vision, recorder, people, run, history>>

\* `record_extraction`, `record_list_extraction`: all the values or nothing.
ReadRecorded ==
    /\ pc = "verify" /\ Kind[act.id] \in READS /\ NextTurn
    /\ outputs' = [outputs EXCEPT ![Output[act.id]] = @ + Adds[act.id]]
    /\ snapshot' = (snapshot \/ (Aligned # {} /\ Kind[act.id] = "extract_many"))
    /\ Conclude(Append(nodes, NewNode("none", FALSE)), TRUE) /\ loose' = FALSE
    /\ UNCHANGED <<screen, turnVars, denials, failures, vision, people, run, unseen>>

ReadFailed ==
    /\ pc = "verify" /\ Kind[act.id] \in READS /\ UNCHANGED loose
    /\ IF VisualTurn THEN AskPerson("unread") /\ UNCHANGED <<act, nodes, window, unverified, blind>>
       ELSE NextTurn /\ Conclude(nodes, FALSE) /\ UNCHANGED <<people, unseen>>
    /\ UNCHANGED <<screen, turnVars, denials, failures, vision, outputs, snapshot, run>>

-----------------------------------------------------------------------------
(* The person. *)

\* `perform_human_action`: performed and observed, lost, or (sound = FALSE) one that the recording must not
\* contain: denied by the policy, or a sensitive value typed into a field.
PersonActs ==
    /\ pc = "handoff" /\ attended /\ handoffs <= MaxHandoffs /\ Len(handoff.done) < MaxHuman
    /\ handoff.why = "confirm" => ActsInConfirm
    /\ \E k \in {"navigate", "click", "type"}, s \in Screens, known, sound \in BOOLEAN :
         /\ k = "type" => Url[s] = Url[screen]
         /\ screen' = s
         /\ handoff' = [handoff EXCEPT !.done =
                Append(@, [kind |-> k, from |-> screen, to |-> s, good |-> known /\ sound])]
    /\ UNCHANGED <<pc, act, turnVars, counters, window, vision, recorder, handoffs, run, history>>

\* Faulty form of Boundary: what was read may be cut away.
BoundaryPastReads(n, url) ==
    n.by \in {"entry", "person"} \/ Verdict[n.id] = "confirm" \/ Url[n.before] # url

\* Where `prune_abandoned_suffix` stops looking back.
Boundary(n, url) ==
    \/ n.by \in {"entry", "person"}
    \/ Verdict[n.id] = "confirm" \/ Kind[n.id] \in READS
    \/ Url[n.before] # url

SuffixStart(url) == Max({0} \cup {i \in DOMAIN nodes : Boundary(nodes[i], url)}) + 1
Suffix(url) == SubSeq(nodes, SuffixStart(url), Len(nodes))

\* The person left the page by navigating: were the last actions on it for nothing?
LeavesPage(done) ==
    done # <<>> /\ done[1].kind = "navigate" /\ done[1].good /\ Url[done[1].to] # Url[done[1].from]

SamePage(left, suffix) == Page[suffix[1].before] = Page[left]
Unprovable(left) ==
    LET suffix == Suffix(Url[left])
    IN  suffix # <<>> /\ ~SamePage(left, suffix) /\ \E i \in DOMAIN suffix : suffix[i].abandoned
\* Faulty form of Pruned: the steps on the page that was left are cut whatever they did to it.
PrunedByAddress(left) == SubSeq(nodes, 1, SuffixStart(Url[left]) - 1)

Pruned(left) ==
    LET suffix == Suffix(Url[left])
    IN  IF suffix # <<>> /\ SamePage(left, suffix) THEN SubSeq(nodes, 1, SuffixStart(Url[left]) - 1) ELSE nodes

\* `record_human_actions`: an action that cannot be represented fails discovery.
Recordable(done) ==
    /\ \A i \in DOMAIN done : done[i].good
    /\ LeavesPage(done) => ~Unprovable(done[1].from)

PersonNodes(done, gap) ==
    [i \in DOMAIN done |-> [by |-> "person", id |-> done[i].kind, before |-> done[i].from, from |-> done[i].from,
        to |-> done[i].to, abandoned |-> FALSE, proof |-> "none", loose |-> i = 1 /\ gap]]

\* Nodes that were pruned take the gap in front of them along.
WithPersonNodes(done) ==
    IF done = <<>> THEN nodes
    ELSE LET kept == IF LeavesPage(done) THEN Pruned(done[1].from) ELSE nodes
             gap == IF kept = nodes THEN loose ELSE nodes[Len(kept) + 1].loose \/ loose
         IN  kept \o PersonNodes(done, gap)

Answers ==
    IF handoff.why = "confirm" THEN ConfirmAnswers ELSE {"resume", "approve", "deny", "restart", "abort"}

\* NoOperator aborts; a person past the bound of the model does too.
Aborts ==
    /\ pc = "handoff" /\ End("failed") /\ handoff' = NoHandoff
    /\ UNCHANGED <<screen, turnVars, counters, window, vision, recorder, handoffs, run, history>>

\* `show_controls` observes the page without a retry.
ShowControlsFails ==
    /\ pc = "handoff" /\ attended /\ handoff.why # "confirm" /\ handoff.done = <<>>
    /\ End("escaped") /\ handoff' = NoHandoff
    /\ UNCHANGED <<screen, turnVars, counters, window, vision, recorder, handoffs, run, history>>

Restarts ==
    /\ pc = "handoff" /\ attended /\ handoffs <= MaxHandoffs /\ handoff.why # "confirm"
    /\ End("restart") /\ handoff' = NoHandoff
    /\ UNCHANGED <<screen, turnVars, counters, window, vision, recorder, handoffs, run, history>>

\* What the caller of the request does next with an answer that goes on.
Continue(answer) ==
    CASE handoff.why = "confirm" /\ answer = "approve" ->
            pc' = "attempt" /\ UNCHANGED <<act, handoffs, window, unverified, unseen>>
      [] handoff.why = "loop" ->
            NextTurn /\ entries' = <<>> /\ warned' = FALSE /\ UNCHANGED <<handoffs, unverified, unseen>>
      [] handoff.why = "visual" ->
            /\ AskPerson("unverified") /\ act' = NoAct /\ unverified' = unverified \cup {Key(act.id)}
            /\ UNCHANGED window
      [] handoff.why = "unread" ->
            NextTurn /\ entries' = Remembered(entries, EntryOf(act.id)) /\ UNCHANGED <<warned, handoffs, unverified, unseen>>
      [] OTHER -> NextTurn /\ UNCHANGED <<window, handoffs, unverified, unseen>>

\* A confirmation answered with "restart" counts as a denial and drops what the person did.
HandBack ==
    /\ pc = "handoff" /\ attended /\ handoffs <= MaxHandoffs
    /\ \E answer \in Answers \ {"abort"} :
         /\ answer = "restart" => handoff.why = "confirm"
         /\ LET done == IF answer = "restart" THEN <<>> ELSE handoff.done
            IN  /\ Recordable(done)
                /\ LET ns == WithPersonNodes(done)
                   IN  nodes' = IF handoff.why = "unread" /\ act.warn THEN MarkLast(ns) ELSE ns
                /\ loose' = (loose /\ done = <<>>)
         /\ Continue(answer)
    /\ handoff' = IF handoff.why = "visual" THEN [why |-> "unverified", done |-> <<>>] ELSE NoHandoff
    /\ blind' = IF handoff.why = "lost" THEN blind \ {Key(act.id)} ELSE blind
    /\ UNCHANGED <<screen, turnVars, denials, failures, vision, outputs, snapshot, run>>

Unrecordable ==
    /\ pc = "handoff" /\ attended /\ handoffs <= MaxHandoffs /\ ~Recordable(handoff.done)
    /\ End("failed") /\ handoff' = NoHandoff
    /\ UNCHANGED <<screen, turnVars, counters, window, vision, recorder, handoffs, run, history>>

-----------------------------------------------------------------------------
(* `discover_with_reuse`: a restart is another session, a bounded number of times. *)

StartAgain ==
    /\ pc = "restart" /\ sessions <= MaxRestarts
    /\ sessions' = sessions + 1 /\ UNCHANGED <<handoffs, attended, looks>>
    /\ pc' = "entry" /\ turn' = 0 /\ screen' = EntryScreen /\ seen' = EntryScreen
    /\ act' = NoAct /\ pending' = FALSE
    /\ denials' = 0 /\ failures' = [k \in Actions \X Screens |-> 0] /\ unverified' = {}
    /\ entries' = <<>> /\ warned' = FALSE /\ vision' = NoVision
    /\ nodes' = <<>> /\ outputs' = [o \in Outputs |-> 0] /\ snapshot' = FALSE
    /\ handoff' = NoHandoff
    /\ blind' = {} /\ unseen' = FALSE /\ loose' = FALSE

GiveUp ==
    /\ pc = "restart" /\ sessions > MaxRestarts /\ End("failed")
    /\ UNCHANGED <<screen, turnVars, counters, window, vision, recorder, people, run, history>>

Planner == DecideAction \/ DecideStuck \/ Done
Attempt ==
    \/ RefuseRepeat \/ FailBeforeActing \/ NotActionable \/ SelectionAmbiguous \/ Dispatch \/ BeginRead
Verify ==
    \/ ProveLost \/ LostUnproven \/ Verified \/ Unproven \/ VisualUnproven \/ LookEscapes
    \/ ReadRecorded \/ ReadFailed
Person == PersonActs \/ HandBack \/ Unrecordable \/ Restarts \/ ShowControlsFails

Automation == EnterPage \/ Look \/ Stop \/ Planner \/ Attempt \/ Verify \/ StartAgain \/ GiveUp
Finished == pc \in Over /\ UNCHANGED vars

Next == Automation \/ Person \/ Aborts \/ Finished

Spec == Init /\ [][Next]_vars
\* The program never waits for anything but a person: every load and every wait has a deadline, the planner
\* call is bounded, and NoOperator answers at once.
FairSpec == Spec /\ WF_vars(Automation) /\ WF_vars(Aborts /\ ~attended)

-----------------------------------------------------------------------------
(* Properties *)

TypeOK ==
    /\ pc \in {"entry", "turn", "decide", "attempt", "verify", "prove", "handoff", "restart"} \cup Over
    /\ turn \in 0..MAX_STEPS /\ screen \in Screens /\ seen \in Screens
    /\ act.id \in Actions \cup {"none"} /\ pending \in BOOLEAN
    /\ denials \in 0..MAX_CONSECUTIVE_DENIALS
    /\ failures \in [Actions \X Screens -> 0..(MAX_SAME_ACTION_FAILURES - 1)]
    /\ unverified \subseteq Actions \X {Url[s] : s \in Screens}
    /\ Len(entries) <= LOOP_WINDOW /\ warned \in BOOLEAN
    /\ vision.attempts \in 0..MaxVision
    /\ outputs \in [Outputs -> Nat]
    /\ attended \in BOOLEAN /\ sessions \in 1..(MaxRestarts + 1)

\* agent.py:39, "a performed action nothing can prove is never dispatched a second time": what was dispatched
\* at an address and left no proof is not dispatched there again before an output was recorded or, if the
\* surface lost track of it, a person looked.
NoBlindRepeat == [][Dispatch => Key(act.id) \notin blind]_vars

\* Whatever a dispatched action did is a node of the recording, the recovery of a dialog, or was shown to a person
\* before the planner decides anything else: nothing happens on the page that only the page knows.
EffectsAccounted == pc \in {"turn", "decide"} => ~unseen

\* The recording is a path: each node starts on the page its predecessor left, unless something unrecorded lies
\* in between that the planner or a person was told of.  Pruning must cut exactly what changed nothing.
RecordingConnected ==
    \A i \in 1..(Len(nodes) - 1) : nodes[i + 1].loose \/ Page[nodes[i].to] = Page[nodes[i + 1].from]

\* What the recorder holds was read by nodes that are still recorded, each value once; what is read value by
\* value never outgrows the contract, and what is built keeps it.
ReadBy(o) == {i \in DOMAIN nodes : nodes[i].by \in {"planner", "vision"} /\ Kind[nodes[i].id] \in READS /\ Output[nodes[i].id] = o}
\* The number of values of o the first i nodes read.
Tally(o) ==
    LET t[i \in 0..Len(nodes)] ==
            IF i = 0 THEN 0 ELSE t[i - 1] + (IF i \in ReadBy(o) THEN Adds[nodes[i].id] ELSE 0)
    IN  t
OutputsBacked ==
    \A o \in Outputs : /\ outputs[o] = Tally(o)[Len(nodes)]
                       /\ (\E i \in ReadBy(o) : nodes[i].id \in Appends) => outputs[o] <= MaxItems[o]
                       /\ pc = "built" => outputs[o] \in MinItems[o]..MaxItems[o]

\* Recorder.snapshot_needed: of aligned lists, nothing is read one value at a time before one whole column fixed
\* which results they are.
OrderFixedFirst ==
    Aligned # {} =>
        \A i \in UNION {ReadBy(o) : o \in Aligned} :
            nodes[i].id \in Appends => \E j \in 1..(i - 1) : \E o \in Aligned :
                j \in ReadBy(o) /\ Kind[nodes[j].id] = "extract_many"

\* verify_vision_action, "no further visual proposal": after a visual action without proof none is dispatched.
VisionStops == [][Dispatch /\ act.id \in Visual => ~vision.unproven]_vars

\* Nobody is needed for a discovery to end: it is built, or fails, in a bounded number of turns.
UnattendedEnds == ~attended => <>(pc \in Over)

-----------------------------------------------------------------------------
(* Statements of the documentation that the code does not keep (README, 5). *)

\* Vision, "at most max_attempts attempts per run".
VisionWithinBudget == looks <= MaxVision

\* ProgressTracker and mark_abandoned: only a node whose own action repeated is marked for the loop.
OnlyRepeatedIsAbandoned ==
    [][\A i \in DOMAIN nodes \cap DOMAIN nodes' :
          nodes'[i].abandoned /\ ~nodes[i].abandoned => nodes[i].id = act.id]_vars

\* url_checkpoint: a checkpoint that held before the action ran proves nothing of it.
CheckpointIsOwn ==
    \A i \in DOMAIN nodes : nodes[i].proof = "url" => Url[nodes[i].from] # Url[nodes[i].to]

\* record_human_actions: what the person did in a handoff that goes on is in the recording.
ByPerson(ns) == {i \in DOMAIN ns : ns[i].by = "person"}
PersonRecorded ==
    [][HandBack => Cardinality(ByPerson(nodes')) = Cardinality(ByPerson(nodes)) + Len(handoff.done)]_vars
=============================================================================
