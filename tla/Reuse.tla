-------------------------------- MODULE Reuse --------------------------------
(***************************************************************************)
(* Verified reuse inside discovery: `discover_with_reuse` of reuse.py owns *)
(* the browser sessions and restarts discovery on a fresh one; the Library *)
(* of library.py offers segments of approved artifacts before every        *)
(* decision of the planner, replays the one it chooses, and classifies     *)
(* what the replay left behind; agent.py imports the nodes or gives up the *)
(* session.  The turn loop of discovery appears only as ordinary steps.    *)
(* What a replay may answer is an input here; module Replay produces it.   *)
(***************************************************************************)
EXTENDS Integers, Sequences, FiniteSets

CONSTANTS
    Sources,      \* the artifact files of the directory
    Segments,     \* the action nodes of those artifacts
    SourceOf, Kind, Checkpointed,
    OutputOf,     \* the output an extraction writes; every extraction here has mode "set"
    AppliesOn,    \* the screens on which a segment's entry condition holds
    LeadsTo,      \* the screens its action may lead to
    Screens, EntryScreen, \* what the page shows, the native state of its controls included
    ScreenKey,    \* library.screen_key: address, controls and dialog; what is checked or selected is not in it
    Outcomes,     \* business outcomes a segment can end in: "declared" by this discovery, or "foreign"
    Prefix,       \* the forced prefix: no source, or one
    PrefixLeadsTo,
    MaxReuses,    \* Library.max_reuses
    MaxTurns,
    Attendance,   \* whether a person may be there to answer, or not
    PageDrifts,   \* whether the page may change by itself while the planner decides
    MaxEdits, ScanEdits \* bound the model: edits of the files, and what one that falls into the scan may write

READS == {"extract", "extract_many"}
PHYSICAL_ACTIONS == {"navigate", "click", "type"} \* the kinds `classify` counts
MAX_DISCOVERY_RESTARTS == 2
Contents == {"approved", "revised", "draft", "broken"} \* an approved artifact, another one, a draft, no artifact
Approved == {"approved", "revised"}

ASSUME SegmentAssumption ==
    /\ SourceOf \in [Segments -> Sources] /\ Checkpointed \subseteq Segments
    /\ Kind \in [Segments -> READS \cup {"navigate", "click", "type", "select", "back"}]
    /\ AppliesOn \in [Segments -> SUBSET Screens] /\ LeadsTo \in [Segments -> SUBSET Screens]
    /\ \A g \in Segments : Kind[g] \notin READS => LeadsTo[g] # {}
    /\ DOMAIN ScreenKey = Screens
ASSUME ReuseAssumption ==
    /\ MaxReuses \in Nat /\ MaxTurns \in Nat /\ MaxEdits \in Nat
    /\ EntryScreen \in Screens /\ PrefixLeadsTo \subseteq Screens /\ Prefix \subseteq Sources /\ Outcomes \subseteq {"declared", "foreign"}
    /\ Attendance \subseteq BOOLEAN /\ PageDrifts \in BOOLEAN /\ ScanEdits \subseteq Contents

VARIABLES
    pc,
    disk, edits,         \* the files, and how often one was edited
    unread, reading,     \* build_library: the files to scan, and the one it is at
    catalog,             \* Library.entries: the digest and the artifact of each source
    count, attempted, excluded, \* Library
    exclude,             \* `excluded` of discover_with_reuse
    attempt,             \* session number
    attended,            \* whether anybody is there to answer
    opened, closed,      \* surfaces
    turn, screen, seen, offered, chosen, result,
    nodes,               \* Recorder.nodes of this session
    acted,               \* what the person did in the handoff
    unsure,              \* history: sources a segment of which left the session unverified, which nobody vouched for
    ran,                 \* history: segments run, with their session
    gap                  \* history: the reuses that acted, left no node and for which nobody vouched: their class,
                         \* whether the page moved, and whether the screen key tells

files == <<disk, edits>>
scan == <<unread, reading, catalog>>
library == <<count, attempted, excluded>>
session == <<attended, exclude, attempt, opened, closed>>
page == <<turn, screen, seen, offered, chosen, result>>
recording == <<nodes, acted>>
history == <<unsure, ran, gap>>
vars == <<pc, files, scan, library, session, page, recording, history>>

NoReading == [source |-> "none", digest |-> "none"]
NoEntry == [digest |-> "none", artifact |-> "none"]
NoResult == [status |-> "none", done |-> FALSE, attempts |-> 0, crashed |-> FALSE, happened |-> FALSE]
Over == {"built", "failed", "escaped", "refused"}

Init ==
    /\ pc = "preflight"
    /\ disk \in [Sources -> {"approved", "draft"}] /\ edits = 0
    /\ unread = Sources /\ reading = NoReading /\ catalog = [s \in Sources |-> NoEntry]
    /\ count = 0 /\ attempted = {} /\ excluded = {}
    /\ attended \in Attendance /\ exclude = {} /\ attempt = 1 /\ opened = 0 /\ closed = 0
    /\ turn = 0 /\ screen = EntryScreen /\ seen = EntryScreen /\ offered = {} /\ chosen = "none" /\ result = NoResult
    /\ nodes = <<>> /\ acted = FALSE
    /\ unsure = {} /\ ran = {} /\ gap = {}

\* Anybody may write into the directory while a discovery runs.
Edit ==
    /\ edits < MaxEdits /\ edits' = edits + 1 /\ pc \notin Over \cup {"preflight"}
    /\ \E s \in Sources, c \in IF pc = "scan" THEN ScanEdits ELSE Contents :
         disk[s] # c /\ disk' = [disk EXCEPT ![s] = c]
    /\ UNCHANGED <<pc, scan, library, session, page, recording, history>>

-----------------------------------------------------------------------------
(* The catalog. *)

\* The prefix was resolved before; its file is compared with the digest taken then.
Preflight ==
    /\ pc = "preflight"
    /\ pc' = IF \A s \in Prefix : disk[s] = "approved" THEN "scan" ELSE "refused"
    /\ UNCHANGED <<files, scan, library, session, page, recording, history>>

Cataloguable(c) == c \in Approved

\* `catalog_rejection` reads the file, and the digest and the artifact of an entry are read after it.
CatalogFile ==
    /\ pc = "scan" /\ reading = NoReading
    /\ \E s \in unread :
         /\ unread' = unread \ {s}
         /\ reading' = IF Cataloguable(disk[s]) THEN [source |-> s, digest |-> "none"] ELSE NoReading
    /\ UNCHANGED <<pc, files, catalog, library, session, page, recording, history>>

CatalogDigest ==
    /\ pc = "scan" /\ reading # NoReading /\ reading.digest = "none"
    /\ reading' = [source |-> reading.source, digest |-> disk[reading.source]]
    /\ UNCHANGED <<pc, files, unread, catalog, library, session, page, recording, history>>

CatalogLoad ==
    /\ pc = "scan" /\ reading.digest # "none"
    /\ IF disk[reading.source] = "broken"
       THEN pc' = "escaped" /\ UNCHANGED catalog
       ELSE /\ catalog' = [catalog EXCEPT ![reading.source] =
                 [digest |-> reading.digest, artifact |-> disk[reading.source]]]
            /\ UNCHANGED pc
    /\ reading' = NoReading
    /\ UNCHANGED <<files, unread, library, session, page, recording, history>>

Catalogued ==
    /\ pc = "scan" /\ reading = NoReading /\ unread = {} /\ pc' = "session"
    /\ UNCHANGED <<files, scan, library, session, page, recording, history>>

-----------------------------------------------------------------------------
(* The sessions. *)

\* Faulty form of KeptBySession: a fresh session has the whole budget again.
KeptWithoutBudget == count' = 0 /\ excluded' = excluded \cup exclude

\* `Library.new_session`: only the attempts belong to one session.
KeptBySession == count' = count /\ excluded' = excluded \cup exclude

SessionsLeft == attempt <= MAX_DISCOVERY_RESTARTS + 1

NewSession ==
    /\ pc = "session" /\ SessionsLeft
    /\ pc' = "open" /\ attempted' = {} /\ KeptBySession
    /\ turn' = 0 /\ screen' = EntryScreen /\ seen' = EntryScreen /\ offered' = {} /\ chosen' = "none" /\ result' = NoResult
    /\ nodes' = <<>> /\ acted' = FALSE /\ gap' = {}
    /\ UNCHANGED <<files, scan, session, unsure, ran>>

GiveUp ==
    /\ pc = "session" /\ ~SessionsLeft /\ pc' = "failed"
    /\ UNCHANGED <<files, scan, library, session, page, recording, history>>

\* The factory may fail: then there is nothing to close.
NoSurface ==
    /\ pc \in {"open", "reopen"} /\ pc' = "escaped"
    /\ UNCHANGED <<files, scan, library, session, page, recording, history>>

OpenSession ==
    /\ pc \in {"open", "reopen"} /\ opened' = opened + 1
    /\ pc' = IF pc = "open" /\ Prefix # {} THEN "prefix" ELSE "enter"
    /\ UNCHANGED <<files, scan, library, attended, exclude, attempt, closed, page, recording, history>>

\* The session ends here, and the surface is closed whatever ended it.
Leave(how) == pc' = how /\ closed' = closed + 1

OwnNode == [by |-> "discovery", seg |-> "none"]

PrefixImported ==
    /\ pc = "prefix" /\ pc' = "turn" /\ screen' \in PrefixLeadsTo /\ nodes' = <<OwnNode>>
    /\ UNCHANGED <<files, scan, library, session, turn, seen, offered, chosen, result, acted, history>>

\* Faulty form of PrefixFails: the dirty session is left open.
PrefixFailsOpen ==
    /\ pc = "prefix" /\ pc' = "reopen"
    /\ UNCHANGED <<files, scan, library, session, page, recording, history>>

\* The prefix did not succeed or could not be imported: a dirty session is never handed on.
PrefixFails ==
    /\ pc = "prefix" /\ Leave("reopen")
    /\ UNCHANGED <<files, scan, library, attended, exclude, attempt, opened, page, recording, history>>

EnterPage ==
    /\ pc = "enter" /\ pc' = "turn" /\ screen' = EntryScreen /\ nodes' = <<OwnNode>>
    /\ UNCHANGED <<files, scan, library, session, turn, seen, offered, chosen, result, acted, history>>

-----------------------------------------------------------------------------
(* A turn. *)

\* `find_candidates` and `offer_rejection`.
Offerable(g, on) ==
    /\ catalog[SourceOf[g]] # NoEntry
    /\ on \in AppliesOn[g]
    /\ SourceOf[g] \notin excluded
    /\ <<g, ScreenKey[on]>> \notin attempted

\* Faulty form of Look: the turn is not counted.
LookUncounted ==
    /\ pc = "turn" /\ turn < MaxTurns
    /\ seen' = screen /\ chosen' = "none" /\ result' = NoResult /\ pc' = "decide"
    /\ offered' = IF count >= MaxReuses THEN {} ELSE {g \in Segments : Offerable(g, screen)}
    /\ UNCHANGED <<turn, files, scan, library, session, screen, recording, history>>

Look ==
    /\ pc = "turn" /\ turn < MaxTurns
    /\ turn' = turn + 1 /\ seen' = screen /\ chosen' = "none" /\ result' = NoResult /\ pc' = "decide"
    /\ offered' = IF count >= MaxReuses THEN {} ELSE {g \in Segments : Offerable(g, screen)}
    /\ UNCHANGED <<files, scan, library, session, screen, recording, history>>

Done ==
    /\ pc = "decide" /\ nodes # <<>> /\ Leave("built")
    /\ UNCHANGED <<files, scan, library, attended, exclude, attempt, opened, page, recording, history>>

\* The node of an ordinary step that was verified; an extraction is refused when its output is recorded already.
ReadBy(o) ==
    {i \in DOMAIN nodes : nodes[i].seg \in Segments /\ Kind[nodes[i].seg] \in READS /\ OutputOf[nodes[i].seg] = o}
OutputFree(g) == Kind[g] \in READS => ReadBy(OutputOf[g]) = {}

OwnStep ==
    /\ pc = "decide" /\ pc' = "turn"
    /\ \/ screen' \in Screens /\ nodes' = Append(nodes, OwnNode)
       \/ /\ UNCHANGED screen
          /\ \E g \in Segments : /\ Kind[g] \in READS /\ OutputFree(g)
                                 /\ nodes' = Append(nodes, [by |-> "discovery", seg |-> g])
    /\ UNCHANGED <<files, scan, library, session, turn, seen, offered, chosen, result, acted, history>>

\* A candidate that was not offered this turn is an answer like any other useless one.
WastedTurn ==
    /\ pc = "decide" /\ pc' = "turn"
    /\ UNCHANGED <<files, scan, library, session, page, recording, history>>

\* `handle_stuck` answered with "restart" excludes nothing.
RestartByPerson ==
    /\ pc = "decide" /\ attended /\ Leave("restart")
    /\ UNCHANGED <<files, scan, library, attended, exclude, attempt, opened, page, recording, history>>

RestartDiscovery ==
    /\ pc = "restart" /\ pc' = "session" /\ attempt' = attempt + 1
    /\ UNCHANGED <<files, scan, library, attended, exclude, opened, closed, page, recording, history>>

-----------------------------------------------------------------------------
(* Reusing a segment. *)

Choose ==
    /\ pc = "decide" /\ pc' = "recheck" /\ chosen' \in offered
    /\ attempted' = attempted \cup {<<chosen', ScreenKey[seen]>>}
    /\ screen' \in IF PageDrifts THEN Screens ELSE {screen}
    /\ UNCHANGED <<files, scan, count, excluded, session, turn, seen, offered, result, recording, history>>

\* Faulty form of Unchanged: the name in the catalog is enough.
UnchangedByName == catalog[SourceOf[chosen]] # NoEntry

\* `execute_candidate` looks again at the file and at the screen before anything runs.
Unchanged == catalog[SourceOf[chosen]].digest = disk[SourceOf[chosen]]
StillApplies == screen \in AppliesOn[chosen]

Rejected ==
    /\ pc = "recheck" /\ pc' = "turn" \* also when the screen cannot be observed
    /\ UNCHANGED <<files, scan, library, session, page, recording, history>>

Execute ==
    /\ pc = "recheck" /\ Unchanged /\ StillApplies
    /\ pc' = "replay" /\ count' = count + 1
    /\ ran' = ran \cup {<<chosen, attempt, Cardinality(ran)>>}
    /\ UNCHANGED <<files, scan, attempted, excluded, session, page, recording, unsure, gap>>

\* What `replay` may answer for one node and a success terminal, without an operator: see module Replay.
Answers ==
    [status : {"success", "failure"} \cup Outcomes, done : BOOLEAN, attempts : 0..2, crashed : BOOLEAN, happened : BOOLEAN]
Results(g) ==
    LET read == Kind[g] \in READS IN
    {r \in Answers :
        /\ read => r.attempts = 0 /\ ~r.happened /\ (r.done => r.status \notin Outcomes)
        /\ ~read /\ r.done => r.attempts > 0
        /\ ~read /\ r.attempts > 0 /\ (r.done \/ r.status \in Outcomes) => r.happened
        /\ r.attempts = 0 /\ ~r.crashed => ~r.happened
        /\ r.status = "success" => r.done
        /\ r.crashed => r.status = "failure" /\ ~r.done /\ r.attempts = 0}

Replay ==
    /\ pc = "replay" /\ pc' = "classify"
    /\ result' \in Results(chosen)
    /\ screen' \in IF result'.happened THEN LeadsTo[chosen] ELSE {screen}
    /\ UNCHANGED <<files, scan, library, session, turn, seen, offered, chosen, recording, history>>

\* `classify`.  Every physical attempt belongs to a completed node, and that node has a checkpoint.
AllCompleted == result.attempts = (IF result.done /\ Kind[chosen] \in PHYSICAL_ACTIONS THEN 1 ELSE 0)

\* Faulty form of Class: what was completed decides, not what was attempted.
ClassByCompletion ==
    CASE result.status \in {"success", "declared", "foreign"} -> result.status
      [] result.crashed -> "uncertain"
      [] ~result.crashed /\ result.status = "failure" /\ ~result.done -> "before_acting"
      [] OTHER -> IF chosen \in Checkpointed THEN "partial_verified" ELSE "uncertain"

Class ==
    CASE result.status \in {"success", "declared", "foreign"} -> result.status
      [] result.crashed -> "uncertain"
      [] ~result.crashed /\ result.status = "failure" /\ result.attempts = 0 -> "before_acting"
      [] OTHER -> IF AllCompleted /\ result.done /\ chosen \in Checkpointed THEN "partial_verified" ELSE "uncertain"

\* `verified_entries` and `importable_nodes`: after anything but success only a node with a checkpoint is kept,
\* and an extraction may always be left out (no value, or another contract).
Imports(complete) ==
    (IF result.done /\ (complete \/ chosen \in Checkpointed)
     THEN {<<[by |-> "reuse", seg |-> chosen]>>} ELSE {<<>>})
    \cup (IF Kind[chosen] \in READS THEN {<<>>} ELSE {})

KeyChanged == ScreenKey[screen] # ScreenKey[seen]

\* A judged segment that left the key of the screen as it was and read nothing is no progress.
NoProgress(imported) ==
    /\ chosen \in Checkpointed \/ Kind[chosen] \in READS
    /\ ~KeyChanged /\ (Kind[chosen] \in READS => imported = <<>>)

\* The session goes on with these nodes.
Import(imported) ==
    /\ pc' = "turn" /\ nodes' = nodes \o imported
    /\ gap' = gap \cup (IF result.happened /\ imported = <<>>
                        THEN {[after |-> Class, moved |-> screen # seen, keyed |-> KeyChanged]} ELSE {})
    /\ UNCHANGED <<files, scan, library, session, page, acted, unsure, ran>>

ImportSuccess ==
    /\ pc = "classify" /\ Class = "success"
    /\ \E imported \in Imports(TRUE) : Import(IF NoProgress(imported) THEN <<>> ELSE imported)

ContinueUntouched == pc = "classify" /\ Class = "before_acting" /\ Import(<<>>)

ImportVerified ==
    /\ pc = "classify" /\ Class \in {"partial_verified", "declared"}
    /\ \E imported \in Imports(FALSE) : Import(imported)

\* Any failure of discovery: no turn left, three denials, a person who aborts, a page that does not load, the look
\* at what a reuse left behind included.
DiscoveryFails ==
    /\ pc \in {"enter", "turn", "decide"} \/ (pc = "classify" /\ Class = "success")
    /\ Leave("failed")
    /\ UNCHANGED <<files, scan, library, attended, exclude, attempt, opened, page, recording, history>>

\* Faulty form of Exclusion: only what a person was asked about is excluded.
ExclusionOfAttended == IF attended THEN {SourceOf[chosen]} ELSE {}

\* The whole source: any of its segments could repeat the act.
Exclusion == {SourceOf[chosen]}

LeaveUnverified ==
    /\ pc = "classify" /\ (Class = "foreign" \/ (Class = "uncertain" /\ ~attended))
    /\ Leave("restart")
    /\ exclude' = exclude \cup Exclusion /\ unsure' = unsure \cup {SourceOf[chosen]}
    /\ UNCHANGED <<files, scan, library, attended, attempt, opened, page, recording, ran, gap>>

AskPerson ==
    /\ pc = "classify" /\ Class = "uncertain" /\ attended
    /\ pc' = "person" /\ acted' = FALSE
    /\ UNCHANGED <<files, scan, library, session, page, nodes, history>>

PersonActs ==
    /\ pc = "person" /\ ~acted /\ acted' = TRUE /\ screen' \in Screens
    /\ UNCHANGED <<pc, files, scan, library, session, turn, seen, offered, chosen, result, nodes, history>>

\* The person vouches for the screen: what was proven is kept and the session goes on.
Resume ==
    /\ pc = "person" /\ pc' = "turn"
    /\ \E imported \in Imports(FALSE) : nodes' = nodes \o imported
    /\ UNCHANGED <<files, scan, library, session, page, acted, history>>

RestartAsked ==
    /\ pc = "person" /\ Leave("restart")
    /\ exclude' = exclude \cup Exclusion /\ unsure' = unsure \cup {SourceOf[chosen]}
    /\ UNCHANGED <<files, scan, library, attended, attempt, opened, page, recording, ran, gap>>

Abort ==
    /\ pc = "person" /\ Leave("failed")
    /\ UNCHANGED <<files, scan, library, attended, exclude, attempt, opened, page, recording, history>>

-----------------------------------------------------------------------------

Catalog == Preflight \/ CatalogFile \/ CatalogDigest \/ CatalogLoad \/ Catalogued
Sessions ==
    \/ NewSession \/ GiveUp \/ NoSurface \/ OpenSession \/ PrefixImported \/ PrefixFails \/ EnterPage
    \/ RestartDiscovery
Turn == Look \/ DiscoveryFails \/ Done \/ OwnStep \/ WastedTurn
Reuse ==
    \/ Choose \/ Rejected \/ Execute \/ Replay
    \/ ImportSuccess \/ ContinueUntouched \/ ImportVerified \/ LeaveUnverified \/ AskPerson
Person == RestartByPerson \/ PersonActs \/ Resume \/ RestartAsked \/ Abort
Finished == pc \in Over /\ UNCHANGED vars

Automation == Catalog \/ Sessions \/ Turn \/ Reuse
Next == Automation \/ Person \/ Edit \/ Finished

Spec == Init /\ [][Next]_vars
\* Without a person every call has a deadline or a bounded number of retries.
FairSpec == Spec /\ WF_vars(Automation)

-----------------------------------------------------------------------------
(* Properties *)

Calls ==
    {"preflight", "scan", "session", "open", "reopen", "prefix", "enter", "turn", "decide", "recheck", "replay",
     "classify", "person", "restart"}
TypeOK ==
    /\ pc \in Calls \cup Over
    /\ disk \in [Sources -> Contents] /\ unread \subseteq Sources
    /\ reading.source \in Sources \cup {"none"}
    /\ count \in 0..MaxReuses /\ attempted \subseteq Segments \X {ScreenKey[s] : s \in Screens}
    /\ excluded \subseteq Sources /\ exclude \subseteq Sources
    /\ attempt \in 1..(MAX_DISCOVERY_RESTARTS + 2) /\ turn \in 0..MaxTurns
    /\ {screen, seen} \subseteq Screens /\ offered \subseteq Segments

\* discover_with_reuse, "Owns every surface it opens and closes each exactly once": one session at a time, the
\* dirty one is closed before the next is opened, and none is left when discovery is over.
SessionsClosed ==
    /\ closed <= opened /\ opened <= closed + 1
    /\ pc \in Over \cup {"session", "reopen", "restart"} => opened = closed

\* Library: the budget, the exclusions and the sessions bound the automatic reuses of one discovery together,
\* although a restart clears what was attempted.
ReusesBounded == Cardinality(ran) <= MaxReuses

\* Library.excluded, "source digests that failed uncertainly: never run again", in this session or any later one,
\* unless a person looked at the page and resumed.
UnsureNeverRuns == [][Execute => SourceOf[chosen] \notin unsure]_vars

\* reuse_segment: "An unverified physical action does not" leave the session in a known state: when discovery goes
\* on, every act of a segment is a node or a person vouched for it.  The code does not keep that in
\* two cases: after a business outcome this discovery declares (KnownAfterOutcome), and after a success of which
\* the screen key tells nothing (KnownAfterSuccess).
KnownState == pc \in {"turn", "decide", "built"} =>
    \A g \in gap : g.after = "declared" \/ (g.after = "success" /\ ~g.keyed)

\* execute_candidate rechecks the digest: the segment that runs is cut from the artifact that is on disk now.
RunsWhatIsOnDisk == [][Execute => catalog[SourceOf[chosen]].artifact = disk[SourceOf[chosen]]]_vars

\* Nobody is needed for a discovery to end, however often segments fail.
DiscoveryEnds == ~attended => <>(pc \in Over)

-----------------------------------------------------------------------------
(* Statements of the documentation that the code does not keep (README, 5). *)

\* library.py, "catalog: approved, valid": only what is approved runs with nobody watching.
OnlyApprovedRuns == [][Execute => catalog[SourceOf[chosen]].artifact \in Approved]_vars

\* output_conflict, "`set` assigns an output exactly once".
OutputsSetOnce == \A g \in Segments : Kind[g] \in READS => Cardinality(ReadBy(OutputOf[g])) <= 1

\* KnownState, without its first exception.
KnownAfterOutcome == pc \in {"turn", "decide", "built"} => \A g \in gap : g.after # "declared"

\* KnownState, without its second: reuse_segment, "its effect is observable", and stable_screen_key, "Native control
\* state counts as page state": a selection that was replayed and verified is a node.
KnownAfterSuccess == pc \in {"turn", "decide", "built"} => \A g \in gap : g.after = "success" => ~g.moved

\* classify: a failure whose every attempt belongs to a completed node with a checkpoint is partial_verified.
CompletedIsVerified ==
    pc = "classify" /\ result.status = "failure" /\ result.done /\ result.attempts = 1 /\ chosen \in Checkpointed
        => Class = "partial_verified"

\* README, "What a person does during a discovery handoff": what was performed before "resume" becomes nodes.
PersonRecorded == [][Resume /\ acted => \E i \in DOMAIN nodes' : nodes'[i].by = "person"]_vars
=============================================================================
