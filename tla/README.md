# Pathloom in TLA+

Pathloom (`src/src/cua`) discovers how to operate a web application with a language model once, records
the verified path as a *capability graph* (an artifact), and from then on replays that graph without a
model. This directory holds TLA+ specifications of that program, the TLC configurations that check them on
small instances, and TLAPS proofs of what must hold for every graph. Every definition is translated from
the Python source; `PROJECT.json` names the lines each one stands for.

## 1. The system

| Component | State it keeps | Operations | Talks to |
|---|---|---|---|
| Replay engine (`replay.py`) | `ReplayContext` (outputs, appended, executed_path, restarts, recoveries, performed_attempts, acted), `run_action`'s `attempts` and `performed`, the counters of each wait | enter a node, settle, attempt, check policy, act, await the checkpoint, read, select an edge, judge a terminal, restart, stop | surface (calls), policy (verdicts), escalator (blocking request) |
| Human handoff (`escalation.py`) | `SessionControl.owner`, the interventions | request, act on the live session, resume / restart / approve / abort, hand back | replay and discovery (callers), surface (shared session) |
| Artifact lifecycle (`lifecycle.py`, `stability.py`, `approval.py`) | files: `artifacts/NAME.vN.json`, `evidence/*/report.json`, `manifest.json` | the unattended gate, a stability report of N replays, approval of a draft, a bundle per run | replay; the artifact directory shared by every process |
| Artifact schema (`artifact.py`) | the immutable files | build, validate, save (never overwrite), load, `next_version` | every other component |
| Reuse (`reuse.py`, `library.py`) | the catalog with digests, the reuse budget, excluded sources, the attempts of this session | catalog, offer, recheck, replay one segment, classify, import, restart on a fresh session | replay (purpose `discovery_reuse`), discovery |
| Discovery loop (`agent.py`) | recorder (nodes, outputs), failure and unverified counters, progress window, denials | decide, check, confirm, refuse a blind repeat, act, verify and record, hand off, finish | planner, policy, surface, handoff, library |
| Campaign and merge (`campaign.py`, `merge.py`) | scenario records, traces, the prefix tree | discover each scenario, merge, save one draft | discovery, artifact schema |
| Policy (`policy.py`) | none | verdict on a control, redaction | replay, discovery |
| Surface (`surface.py`), planners (`planner.py`), run log (`evidence.py`), CLI (`__main__.py`) | browser pages; provider calls; log files; none | I/O | everything |

A replay is one thread, but it shares its session with two parties it does not control: the page, which may
fail to load, raise a dialog or lose an action at any call, and a person, who takes the session over in a
handoff, acts on it for as long as they like, and answers with a disposition that becomes control flow
(`RetryStep`, `RestartFlow`, `StopReplay`). What makes the engine hard is that these interleave with three
nested budgets (attempts, dialog recoveries, failed loads) and with two memories of "this may already have
happened" (`ctx.acted`, `performed`). Across processes, artifacts and reports are files that other processes
read by path and by digest.

What must be right, by component:

* **Replay**: an action whose repetition is unsafe is never sent twice unasked; nothing risky happens
  without a person's approval of that very attempt; `executed_path` is the walk, and everything on it was
  done by somebody; a restart mixes nothing of two flows; pages are collected once each; every wait ends.
* **Handoff**: exactly one party holds the session, and it comes back however the handoff ends.
* **Lifecycle**: what is approved is what the reports tested; saved artifacts never change; the bundle
  holds what ran.
* **Discovery**: an action nothing proved is not sent again blindly; every effect becomes a node or is shown to
  a person; the recording stays a path although steps are pruned from its end; what it reads was read by a
  recorded node, in the order the first column fixed; a loop is cut before its third round; the turns end.
* **Reuse**: the budget and the exclusions hold across sessions; what runs is what is on disk; discovery goes
  on only from a known state; every surface is closed.
* **Merge and campaign**: all scenarios or nothing; called as a recorded scenario was, the merged graph does what
  that scenario recorded, and an undeclared combination does nothing; what a reviewer declared stands.
* **Validation**: what is accepted can be replayed: it ends, and at most one edge can be taken.

## 2. Modules

| Module | What it is |
|---|---|
| `Replay` | The engine and the handoff, one action per branch of a handler between two calls. |
| `FlowContract` | What a replay promises its caller: a walk, what was carried out on it, one answer. No retries, waits, dialogs or handoffs. |
| `Lifecycle` | The processes around replay (discover, stability, approve, replay) over one artifact directory, with a person who edits drafts. |
| `Promotion` | What the lifecycle promises: tested, then approved, then run unattended. No files or digests. |
| `LoopDetector` | What `ProgressTracker` computes, as operators; used by the next two. |
| `Progress` | One tracker over a long run of steps, checked against the whole history it forgets. |
| `Discovery` | The turn loop of `discover` and its restarts: decide, judge, act, verify, record, prune, hand off. |
| `Reuse` | `discover_with_reuse` and the library: sessions, catalog, offer, recheck, segment, classification, import. |
| `GraphRules` | The rules `validate` checks and the edge `choose_edge` takes, as operators on a graph. |
| `Validation` | `validate` as a program: the rules, then its two searches step by step. |
| `Merge` | The prefix tree, the graph it emits (judged by `GraphRules`) and a caller who walks it. |
| `DeclaredPaths` | What a merged capability promises. No tree, no guards. |
| `Campaign` | `run_campaign` over a disk that may fail, a process that may die, other recorders at work on the same paths, a second run. |
| `MC...` | The small instances. |
| `ReplayProofs`, `LifecycleProofs`, `ProgressProofs`, `DiscoveryProofs`, `ReuseProofs`, `ValidationProofs`, `MergeProofs`, `CampaignProofs` | TLAPS proofs about the module each is named for, the refinements included. |

How they meet. `Lifecycle!Replay` and `Reuse!Replay` are whole runs of the engine as one step, with the outcomes
`Replay` can give: a process reads no shared file while its engine runs. What `Validation` accepts is what `Replay`
assumes of a graph (`GraphAssumption`, `Rank` included): this is proved (`AcceptedIsReplayable`). `Discovery` and `Reuse` are the
two halves of one loop: in `Reuse` an ordinary turn is a single step, in `Discovery` no segment is offered; they
share the recording and the restarts. `Merge` takes what `Discovery` records, `Campaign` takes a merge as the union
of what its traces say.

### How `Replay` corresponds to the code

`pc` names the call the engine is about to make on the surface or the operator: `settle` (observe and clear
a dialog), `attempt` (decide on the observed screen, resolve the control), `effect` (`check_effect_policy`),
`act` (the physical action or the read), `observe` and `verify` (`settle_after_action`), `edge`
(`select_edge`), `terminal` (`terminal_result`), `handoff` (inside `Escalator.request`). A failure of the
surface or a move of a person can fall between any two of them and nowhere else, since the engine is one
thread.

| Variables | Code |
|---|---|
| `attempts`, `performed` | the locals of `run_action`; `attempts` saturates at the budget because only `attempts < MAX_TRANSIENT_ATTEMPTS` is ever asked (a human resume counts an attempt too) |
| `acted` | `ReplayContext.acted`, set just before `act`, reset at the start of each attempt |
| `waiting` | `recoveries` of `settle` / `select_edge`, `attempts` of `observe_with_recovery`, and how many polls the current deadline still allows |
| `handoff` | the request in flight: which call raised it (so where its exceptions are caught), its code, and whether the person touched the session |
| `owner`, `interventions` | `SessionControl`, `len(Escalator.interventions)` |
| `outputs`, `appended`, `executed_path`, `restarts`, `performed_attempts` | the fields of `ReplayContext`; a collected value is the list of nodes it was read from |
| `dispatched`, `handled`, `verdict`, `consent` | history the properties need and the code does not keep: dispatches of each node in this flow, nodes a person acted on and resumed, the last verdict and whether this attempt was approved |

Exceptions are modelled by where they are caught. `RetryStep` from `run_action` is `ResumeStep`, from
`uncertain_result` it is `ResumeUncertain`, from `select_edge`'s own request `ResumeEdges`, and from
`recover` inside `select_edge`, where nobody catches it, `ResumeEdgeRecovery` ends the run in pc `escaped`.
Time is a choice: a deadline may strike at any poll and has struck after `MaxPolls`. Validation of the graph
is not run but assumed (`GraphAssumption`, `OutputAssumption`): those are the guarantees of
`artifact.validate`, which every loaded artifact has passed; acyclicity is the existence of `Rank`.

Left out of `Replay`: what is on the screen beyond what a branch tests, coercion and patterns of the values
read, log wording, screenshots, and `reload`, whose failure the engine swallows.

### How `Lifecycle` corresponds to the code

Each operation is a process of its own (a CLI command), and what processes share are files: `files` (the
artifact directory, by revision) and `reports`. Nothing locks them. A step lies between two accesses of one
process to a shared file, because there and only there can another process be seen:

| Code | Steps |
|---|---|
| `save_artifact`, after `next_version` | `Record` or `NumberApproved` (the directory is listed), `PathIsFree` / `RefuseOverwrite` (`path.exists()`), `OpenFile` (truncates), `WriteFile` |
| `run_stability`, `one_run`, `build_report` | `StartStability` (the load for the report's identity), then for each run `LoadRun` / `LoadRunFails`, `HashRun`, `Replay`, `CopyArtifact`, `WriteManifest`, `FinishRun`; at the end `WriteReport` hashes the path once more |
| `approve` | `StartApproval` (load, status test), `HashDraft`, `Review` (`load_report` and `check_coverage`), `NumberApproved`, save |
| `cmd_replay`, `replay_segment` | `StartReplay`, `Replay` (the gate first), the bundle unless it is a reused segment, `FinishReplay` |

A digest is the contents it was computed from, which makes equal digests mean equal files. A torn file is one
that does not parse: truncated and not written, or written over by two savers. `Edit` is the person who
edits a draft and is not part of the program. A crash needs no action: the specification has no fairness, so
any process may stop for good after any step, and its half-written file stays.

`ran` in a run record and `params` in a report are history for the properties; the code stores neither.
Left out: other capability names (no operation relates two), JSON shapes, the counters and timings of a report
that no verdict uses, torn reports (each report has a path of its own and is written once), and a report
listed twice on the command line, which the code counts and the model's set of reports does not.

### How `Discovery` corresponds to the code

`pc` names the call `discover` makes next: `entry`, `turn` (observe), `decide` (the planner), `attempt` (resolve
and perform), `verify` (observe again), `prove` (the look after a lost action), `handoff`, `restart`. The planner may
answer anything; the page may lose an action, refuse it, change or stay; the person may act and answer anything.

| Variables | Code |
|---|---|
| `turn`, `seen`, `pending` | the locals of the turn loop |
| `act` | the action of the turn, whether the detector warned of it, where it was dispatched |
| `denials`, `failures`, `unverified` | the three counters; a key is (action, screen) for failures and (action, address) for unproven attempts, as in `action_failures` and `unverified_key` |
| `entries`, `warned` | `ProgressTracker` |
| `vision` | `Vision.attempts`, `last_fingerprint` |
| `nodes`, `outputs`, `snapshot` | `Recorder`: of a node what pruning and the outputs need (who did it, the page before and after, `abandoned`, how it was proved) |
| `handoff`, `handoffs` | the request in flight: what raised it and what the person did meanwhile |
| `looks`, `blind`, `unseen`, `loose` | history: visual proposals over all sessions; unproven dispatches; an effect nobody recorded or was shown; a gap in the recording |

A screen is a value with an address (`Url`) and a page that pruning compares (`Page`, the code's
`stable_screen_key`, which ignores dialogs). What `checkpoint_for` and its relatives infer from two observations is
abstracted to which proofs an effect may yield; matching of texts, locators and parameterisation to their verdict.
Offering segments is left to `Reuse`.

### How `Reuse` corresponds to the code

The catalog scan is three reads of each file (`CatalogFile`, `CatalogDigest`, `CatalogLoad`), because the code
validates, hashes and loads separately and an editor may come between (`Edit`). `attempted` belongs to a session,
`count` and `excluded` to the discovery; `exclude` is the set `discover_with_reuse` collects. `Results(g)` are the
answers `Replay` can give for a graph of one action and a success terminal. A screen includes the native state of its
controls; what the library compares is `ScreenKey` of it (`screen_key`, `library.py:135-141`), which does not: in the
instance the screen `marked` differs from `entry` only by a box that is checked, and they have one key. `unsure`,
`ran` and `gap` are history: `gap` has one entry for each reuse that acted, left no node and had nobody vouch for it.
Which segments of an artifact exist, and which conditions their entry states have, is a function of the instance
(`AppliesOn`).

### How `Validation`, `Merge` and `Campaign` correspond to the code

`Validation` follows the recursion of `visit` with an explicit path (`on_path`, `untried`); the order in which
nodes and successors are tried is open. `Merge` names a tree node by the sequence of keys that leads to it; the
graph it emits has one `Action` per tree node, a `Decision` where branches part or at the gate, one edge per
scenario, and the inputs of `merge_inputs`. The walk is `missing_inputs`, then `choose_edge` at every node. `Campaign`
has one action per stage of `run_campaign` and `discover_scenario`; a save is `MergeTraces` (which lists the directory),
`PathIsFree` (`path.exists()`), `OpenFile` (truncates) and `WriteFile`, as in `Lifecycle`; `Dies` and `WriteFails` may
come between, and so may every step of the other recorders, whose saves are cut at the same places (`OtherRecords`,
`OtherFindsFree`, `OtherOpens`, `OtherWrites`, `OtherStops`). A text written over another may leave a tail of it: a torn file. `found`
is history: the versions of which another recorder found the path free.

## 3. What TLC checks

| Run | Question | Properties |
|---|---|---|
| `commit` | The engine on a graph with one node of each retry safety and each terminal kind, all policies, with and without an operator | `TypeOK`, `RepeatsBounded`, `OwnershipReturned`, `PathFollowsGraph`, `NoBlindRepeat`, `ConsentBeforeRisk`, `ImplementsContract` |
| `collect` | Pagination: two appends to one list, a scalar, an optional list, a page turn that must not be repeated, a checkpointed commit | `OutputsOfThisFlow`, `CollectedExactlyOnce`, `ExecutedIsBacked`, `UnattendedTerminates` |
| `append_lost` | Disagreement 1 of section 5 | `CollectedKept`, violated |
| `promote` | A flow with two declared assignments and one with none: two stability processes, two approvals, a discovery that reuses, an edit | `TypeOK`, `ApprovedWasTested`, `ImplementsPromotion` |
| `loops` | Up to thirteen steps in a row against a window of twelve | `NoThirdRound` |
| `record` | Discovery with clicks that stay, move or raise a dialog, a risky one, a selection, a forbidden step, and a person | `TypeOK`, `EffectsAccounted`, `RecordingConnected`, `NoBlindRepeat` |
| `lists` | Discovery of two aligned lists, one column longer than the contract allows, with vision, a page turn and a restart | `OutputsBacked`, `OrderFixedFirst`, `VisionStops`, `UnattendedEnds` |
| `library` | A forced prefix and a library of two artifacts, over up to three sessions and an edit | `SessionsClosed`, `ReusesBounded`, `KnownState`, `UnsureNeverRuns`, `RunsWhatIsOnDisk`, `DiscoveryEnds` |
| `classify` | Disagreement 2 of section 5 | `CompletedIsVerified`, violated |
| `validation` | Graphs of four nodes for the searches, of three nodes and any three edges for the rules | `AcceptedIsSound`, `RefusedForCause`, `ChoicesAreSound`, `VerdictComes` |
| `merge` | Three scenarios over two selectors, every caller | `GateIsDeclared`, `AgreementIsEnough`, `ImplementsDeclaredPaths` |
| `campaign` | Three scenarios, failures, contradictions, a dying process, a racing recorder, a second run | `AllOrNothing`, `SummaryTells`, `ReviewerWins`, `DeclaredNeverConflict` |

Replay and lifecycle:

* `NoBlindRepeat` (`Replay`): a `never_retry` action that the engine or a person may have carried out in this flow
  is not dispatched again. A violation needs a lost action, a forgotten flag and a later attempt.
* `ConsentBeforeRisk`: a dispatch of an unsafe or flagged action lies in an attempt that a person approved;
  under `deny` there is none. It fails if an approval outlives its attempt or if one of the two sources of
  risk silences the other.
* `ImplementsContract`: the engine refines `FlowContract` (`at`, `carried`, `executed`, `answer`, ... are
  functions of its variables), so nothing the retries and handoffs do is visible outside.
* `ExecutedIsBacked`: what the path lists was dispatched in this flow or a person acted while it was stuck.
* `RepeatsBounded`: dispatches are bounded by the budget plus what a person granted. `PathFollowsGraph`: the path
  is a walk from the entry to where the engine is. `OwnershipReturned`: a person holds the session exactly
  while a handoff is open.
* `OutputsOfThisFlow`, `CollectedExactlyOnce`: nothing survives a restart; each page once and in order.
* `ApprovedWasTested`: what `approve` turns into an approved artifact is what every run of every cited report
  had in memory. It relates three processes' reads of one file; an edit that falls between two of them must
  be caught by one of three digests or by the version.
* `ImplementsPromotion`: the lifecycle refines `Promotion`. A body is tested when some published report has at
  least `MinRuns` runs, all successful and all of that body, under that assignment; approved when an approval
  has saved it; executed when an unattended or reused run got past the gate.

Discovery and reuse:

* `NoThirdRound`: against the whole history, not the window: no cycle of one, two or three steps was carried out
  three times since the last progress.
* `NoBlindRepeat` (`Discovery`): what was dispatched at an address and left no proof is not dispatched there again
  before an output was recorded or, when the surface lost track of it, a person looked. It spans two turns and
  every way of reaching the second.
* `EffectsAccounted`: when the planner decides again, every effect is a node, a cleared dialog, or was shown to a
  person. `RecordingConnected`: each node starts on the page where its predecessor ended, unless a gap was
  told; pruning must cut exactly the steps that changed nothing.
* `OutputsBacked`: what the recorder holds was read by nodes that are still recorded, each value once (pruning must
  not cut a read). What is added value by value never outgrows the contract; a whole column may, and is
  then refused at the end (`list_problem`), so that what is built keeps it. `OrderFixedFirst`: of aligned lists nothing is read value by value
  before a whole column fixed which results they are.
* `VisionStops`: after a visual action without proof no other visual action is dispatched in the session.
* `KnownState`: while a session goes on, every act of a segment is in the recording, or a person vouched for it, with
  two exceptions the code makes: the segment ended in an outcome this discovery declares, or it succeeded and the screen
  key stayed as it was, which takes it for no progress (section 5 has both).
* `UnsureNeverRuns`: a source that left a session unverified does not run again, on a later session either.
  `ReusesBounded`: the budget holds over all sessions together. `RunsWhatIsOnDisk`: the digest compared before
  a segment runs is that of the artifact in memory. `SessionsClosed`: one surface at a time, and none is left.

Graphs:

* `AcceptedIsSound`, `RefusedForCause`: the verdicts of the two searches against set-theoretic definitions
  of "acyclic" and "reachable". `ChoicesAreSound`: on an accepted graph replay has at most one edge to take for
  any parameters, and a fallback never hides a guarded edge.
* `ImplementsDeclaredPaths`: the merged graph and its caller refine `DeclaredPaths`. `AgreementIsEnough`: traces that
  agree never make a graph `validate` refuses, after all discoveries were paid for. `GateIsDeclared`: the
  entry gate, from which approval takes the assignments to test, has one edge for each of them.
* `AllOrNothing`: a graph on disk, from whatever campaign, holds all traces and they agree. `ReviewerWins`,
  `DeclaredNeverConflict`: a declared code means what the reviewer said, and never fails a merge. `SummaryTells`:
  the summary says how far a campaign came, and the graph it names is there unless another recorder had found the same
  path free, in which case it may have been overwritten (section 5).

Every property is paired with a mutant: an operator beside the one it replaces, described there as a faulty form
(a forgotten flag, a counter not kept, a reset that misses one of three fields), with which TLC finds the
property violated in the same run.

**Bounds.** `commit`, `collect`: three attempts per node and one restart, as in the code. `commit` has one dialog
recovery and one poll per wait, because more only repeat a round of the same wait; `collect` has the code's three
recoveries and two polls. Three handoffs (two approvals and a stuck step, or a stuck step, a restart and an
approval); after that a person only aborts. The commit graph has two action nodes before the commit so that a
path can be left over from before a restart; the collect graph two pages so that their order and a lost first
page are visible.

`promote`: one run per report where the code asks for three (the count is one comparison), two revisions (a draft and
one approved copy, for which both approvals race), one edit, one recorder, no edit between a load and the
hash of it (`EditsAnytime = FALSE`; section 5 shows what happens otherwise; several runs and edits, an undone one
included, are left to the theorems); the runner is a reusing discovery,
since a supervised replay changes nothing the properties tell apart and the stability processes replay ungated.
Testers and approvers are symmetric.

`loops`: three kinds of step and thirteen steps, one more than the window keeps. `record`, `lists`: three turns, two
answered handoffs with one action of the person in each; three dispatches are enough for an unproven action, a
refusal and a progress in between, and for two columns and a page turn. The two lists have two values; one column reads three. A person does
not act during a confirmation (`ActsInConfirm = FALSE`) nor answer it with a restart, and a text seen once is
found again (`Fleeting = FALSE`). `library`: two sources, three segments, a budget of two, two turns per session, up to
three sessions (as in the code), one edit, which during the scan may only break a file (`ScanEdits`). The values
excluded here are the ones section 5 is about.

`validation`: all graphs of four nodes in which only `d` may lead back to the entry, and all graphs of three nodes
with up to three edges of any guard and priority. A cycle of four nodes, a diamond (a node met twice that is no
cycle) and an unreachable cycle are among them. `merge`: traces of one to three actions over two inputs, three
of the four assignments of two selectors declared. `campaign`: a failure of the first, a middle or the last
scenario, two outcomes per planner, two contracts (symmetric), two campaigns, two versions and one other recorder, which
saves as often as there is a version: enough for two savers to find one path free, and for a second campaign behind
what the first left.

Deadlock is checked in every run but `promote`, whose processes all end; a run that is over stutters explicitly
(`Over`, `Finished`, `Answered`).

**Fairness.** `Replay`, `Discovery` and `Reuse` assume weak fairness of `Automation` only, the program's own steps,
and of the abort by which `NoOperator` answers at once. The program blocks on nothing else: loads, waits and
planner calls have deadlines. A person owes no answer, so termination is claimed for unattended runs only.
`Validation` is fair to `Step`: a function runs to its end. The other specifications have no fairness: any
process may stop for good, which is how a crash appears.

## 4. What is proved

Proofs hold for every graph, site, catalog, budget, policy, planner and person, without the bounds TLC needs.

| Module | Theorem | Statement | Argument |
|---|---|---|---|
| `ReplayProofs` | `TypeCorrect` | `Spec => []TypeOK` | one lemma per control operator and per group of actions |
| | `SessionReturned` | `Spec => []OwnershipReturned` | inductive: only `Escalate` enters a handoff and each exit returns the session |
| | `NeverRepeatedBlindly` | `Spec => NoBlindRepeat` | `RepeatInv` |
| | `RiskNeedsConsent` | `Spec => ConsentBeforeRisk` | `ConsentInv` |
| | `PathIsBacked` | `Spec => []ExecutedIsBacked` | `BackedInv` |
| | `ReplayKeepsContract` | `Spec => ImplementsContract` | `WayInv` |
| | `PathIsWalked` | `Spec => []PathFollowsGraph` | `WalkInv` |
| | `RepeatsAreBounded` | `Spec => []RepeatsBounded` | `BudgetInv` |
| | `OutputsAreOfThisFlow` | `Spec => []OutputsOfThisFlow` | `CollectInv` |
| | `EachReadCollectedOnce` | `AppendsStand` gives `Spec => []CollectedExactlyOnce` | `CollectInv`, `PathReaches` |
| `LifecycleProofs` | `LifecycleTypes` | `Spec => []TypeOK` | one lemma per action |
| | `ApprovedWereTested` | `Undisturbed` gives `Spec => []ApprovedWasTested` | `TestedInv` |
| | `LifecyclePromotes` | `Undisturbed` gives `Spec => ImplementsPromotion` | `PromotionInv` |
| `ProgressProofs` | `ThirdRoundStopped` | `Spec => []NoThirdRound` | `LoopInv` |
| `DiscoveryProofs` | `NothingBlind` | `~Fleeting` gives `Spec => NoBlindRepeat` | `BlindInv` |
| | `UnprovenVisionStops` | `Spec => VisionStops` | `VisionInv` |
| | `NothingUnseen` | `~Fleeting` gives `Spec => []EffectsAccounted` | `EffectInv` |
| | `TypesKept` | `Spec => []TypeOK` | `TypeInv` |
| | `OutputsAreRead` | `Spec => []OutputsBacked` | `TallyInv` |
| | `ColumnComesFirst` | `Spec => []OrderFixedFirst` | `OrderInv` |
| | `RecordingIsPath` | `DeedsAreKept` gives `Spec => []RecordingConnected` | `ConnectedInv` |
| `ReuseProofs` | `TypeCorrect` | `Spec => []TypeOK` | `TypeInv` |
| | `BudgetHolds` | `Spec => []ReusesBounded` | `BudgetInv` |
| | `SurfacesClosed` | `Spec => []SessionsClosed` | `OwnershipInv` |
| | `UnsureStaysOut` | `Spec => UnsureNeverRuns` | `ExclusionInv` |
| | `KnownHolds` | `Spec => []KnownState` | `KnownInv` |
| | `RunsDisk` | `ScanEdits \subseteq {"broken"}` gives `Spec => RunsWhatIsOnDisk` | `CatalogInv` |
| `ValidationProofs` | `AcceptedHasNoCycle` | `Spec => []AcceptedIsSound` | `ReachInv`, `CycleInv` |
| | `RefusalsAreJust` | `Spec => []RefusedForCause` | the same |
| | `ChoiceIsDetermined` | `Spec => []ChoicesAreSound` | `ReachInv`: what is searched keeps the rules |
| | `AcceptedIsReplayable` | `Spec => [](pc = "accepted" => Replayable(graph))` | `RanksExist` |
| `CampaignProofs` | `SavedIsWhole` | `Spec => []AllOrNothing` | `CampaignInv` |
| | `ReviewerStands` | `Spec => []ReviewerWins` | `CampaignInv` |
| | `DeclaredAgree` | `Spec => []DeclaredNeverConflict` | `CampaignInv` |
| | `SummaryIsTrue` | `Spec => []SummaryTells` | `SummaryInv` |
| `MergeProofs` | `MergeKeepsPaths` | `Spec => ImplementsDeclaredPaths` | `WalkInv` |
| | `GateDeclared` | `Spec => []GateIsDeclared` | the branches of a tree node part its scenarios |
| | `AgreementSuffices` | `Spec => []AgreementIsEnough` | `Depth`, `ConnectedWhen` |
| | `ConnectedIsSearched` | `Connected(g) <=> Acyclic(g) /\ AllReachable(g)` for finite `g` | a count of the rounds |

The invariants, and why the properties are not inductive without them:

* `RepeatInv` adds what the engine remembers: if a node may have been carried out, then while the engine is on it
  `performed`, `acted` or the person's `acted` says so and it is past the point of dispatch, or it is done with
  the node for good (by `Rank`, the graph has no way back). `ConsentInv`: in front of a dispatch the verdict and the
  consent are those of this attempt. `BackedInv` ties `performed` and `acted` to `dispatched` and `handled`, so that
  a node completed as "already satisfied" or "assumed done" is backed.
* `WalkInv` (`ReplayProofs`): in front of an edge the walk has come as far as the current node, which is listed last or is
  a decision node behind it. `BudgetInv`: a step that has not acted yet has left room for one more dispatch,
  which its attempts and the answers of a person account for. `CollectInv`: every output was written by a read that the
  path lists, the lists in the order of the graph. `PathReaches`: whatever is listed, the walk came from. What
  follows an append may overwrite it (`append_lost`, section 5), so `EachReadCollectedOnce` has the premise
  `AppendsStand`: a read of the same output ahead of an append is an append too, and not of an optional single value.
  `validate` does not rule the other graphs out.
* `TestedInv`: `ApprovedWasTested` compares a report, written long ago, with what an approver holds now, so it
  needs the chain between them. `DraftInv`: the one draft is revision 1 and no saver touches it again. `HashInv`:
  hence the digest a run computed is of what it loaded, and so says every successful record. `ReviewInv`: the
  same for the approver's digest. Equal digests then mean equal graphs. The version test of `load_report`
  takes no part in the argument. `Undisturbed` (one recorder, no edit between a load and its hash) is needed.
* `WayInv`: what the path lists lies behind the current node by `Rank`, or is the node the engine is about to
  leave. Every step of the engine has one of a few shapes (waits, carries out, hands over, lists, moves, restarts,
  answers); `RepeatInv` and `BackedInv` show that a listed step was carried out and a guarded one only once.
* `PromotionInv`: reports are published once and not changed, so evidence seen at the review still stands at the save;
  an approved file, and an approved flow in a runner's memory, come from an approver that has saved them. `TestedInv`
  says that the reports are about the body that is saved.
* `LoopInv`: the window is the tail of the whole run since the last progress, a warning was given before any cycle was
  complete twice, and so the third round is noticed when it ends. This is where the window of twelve is
  shown to be long enough: three rounds of the longest period fit, and the shortest suspicious period is answered.
* `BlindInv`: a key in `blind` is in `unverified`, or it is that of the action in flight or before a person.
  `EffectInv`: an effect nobody knows of is being verified right now. Both need the premise `~Fleeting`: that the
  text by which a lost action was proven is found again by the verification that follows at once.
  `VisionInv`: an unproven visual action has spent the budget of the session.
* `TallyInv`: an output holds what a count along the recording gives, and holds nothing only if no node reads it; a step
  appends one read, or leaves the reads as they are, because pruning stops in front of a read. The count is
  `Tally`, a recursive function: that it is the only one is shown by the least position at which two
  counts differ. `OrderInv`: while `snapshot` is set a recorded node read a whole column, and in front of an append of
  a list it is set.
* `ConnectedInv` follows the page: what is not recorded yet started where the recording ends, or a gap is told
  (`Met`); what a person did is one walk to the screen; an action nobody confirms starts on the screen the
  planner saw, which is why the comparison of a pruned suffix with the page the person left is one of the
  page the run had come to. The premise `DeedsAreKept` excludes that a person drives the page in a
  confirmation and then answers `restart`: the deeds are dropped (section 5), and TLC finds the recording torn.
* `BudgetInv` ties the history `ran` to `count`, and to the offers of this turn, which were made before the count.
  `OwnershipInv` counts the open surface by `pc`. `ExclusionInv` follows a source from `exclude` (this session)
  through `new_session` into `excluded`, into the offers. `KnownInv` says that an answer in front of `classify` is one
  the engine can give, so that whatever acted without being a success has a node to import. `CatalogInv`: of
  every entry the digest is that of the artifact, though they were read apart; this is what an edit during the scan
  would break.
* `ReachInv` and `CycleInv` are the invariants of the two searches: `seen` is least among the closed sets; what is
  finished is closed and has no cycle; the path is a walk, its nodes are not finished, and each has tried
  exactly what is finished or next on the path. `AcceptedIsReplayable` discharges, for graphs of any size, what
  `Replay` assumes: a node from which no edge stays in a set is ranked behind the rest of it (`RanksExist`).
* `CampaignInv`: each trace that was kept is told as the reviewer declared, there are as many as scenarios done,
  and what is on disk was sound when it was written. `SummaryInv`: the status of each scenario says whether it is
  behind, at or ahead of the one at hand, and a success is named before the next scenario begins. `FoundFirst`: another
  recorder opens and writes only what it has found free, so a version it has not found is the campaign's own.
* `WalkInv`: where a caller is in the graph, some scenario with its selector values goes on from there and has had
  exactly the actions done so far; only in front of the gate may there be none. The argument is that the branches
  behind a tree node are taken by all scenarios through it, that the guards of an edge hold for one assignment only,
  and that a caller who passed `missing_inputs` supplied all its scenario was given. It needs no rule of `validate`.
* `AgreementSuffices` shows each rule of the emitted graph. A decision exists only where scenarios part, so there is a
  selector to guard it; two edges of a node with one priority are of one scenario and hence of one branch; every edge
  goes down by `Depth`, and whatever holds the entry and is closed holds every node, by the length of its path.
  `Connected` is defined by two recursive functions: that they exist, grow or shrink in every round, and so are done
  after as many rounds as there are nodes, is `ConnectedWhen`; the converse completes `ConnectedIsSearched`, by which
  `Merge` and `Validation` mean the same searches.
* `ChoiceIsDetermined` needs that among the edges that hold one has the least priority, for any integers, which is
  why the edges must be finite (`GraphsAssumption`: they are a list), and the rules of `_validate_edges` for the rest.

Assumptions are the named `ASSUME`s of the modules (`GraphAssumption`, `BoundAssumption`, `SegmentAssumption`,
...); TLC evaluates each for its instance.

Every safety and action property of the passing runs is stated by a theorem, some under the premise the table names.
Only model-checked: liveness, which is out of the prover's reach: `UnattendedTerminates`, `UnattendedEnds`,
`DiscoveryEnds`, `VerdictComes`.

## 5. Disagreements found

Two have a run. Each of the others is a definition at the end of its module; checking it instead of the
properties of the run, with the constants given, makes TLC show the behaviour.

1. **An optional append wipes earlier pages** (`append_lost`). `record_missing_output` (`replay.py:897-901`)
   assigns `None` whatever the node's mode. `docs/design-notes.md:576` says an optional append "leaves what is
   already collected alone". `optional_list_absent` does; the scalar path does not.
2. **A verified selection counts as uncertain** (`classify`). `classify` (`library.py:414`) counts completed
   `navigate`, `click` and `type` nodes, while replay counts an attempt of every kind that is no read; one
   completed `select` with a checkpoint makes the numbers differ. `library.py:404` promises `partial_verified`.

| Statement of a comment or document | Code | Definition, and when it fails |
|---|---|---|
| `RetryStep` re-runs the current node (`replay.py:64`) | `select_edge` calls `recover` (`replay.py:936`) and nobody there catches it: the exception leaves `replay` | `Replay!ResumeIsHonoured`, in `commit` |
| a hard failure is a result (`replay.py:13`) | the click that clears a dialog in `select_edge` (`replay.py:936`) may raise `TransientError`, which leaves `replay` | `Replay!FailedLoadIsReported`, in `commit` |
| evidence is for exactly this file (`approval.py:3-4`) | a file is loaded and then hashed by path (`stability.py:92-93`, `approval.py:51`) | `ApprovedWasTested`, with `EditsAnytime = TRUE` |
| saving never overwrites (`artifact.py:867`) | `path.exists()` and the write are two steps (`artifact.py:877-881`) | `Lifecycle!NeverOverwritten`, with two recorders |
| the bundle has a byte-exact copy of what ran (`lifecycle.py:19`) | the path is copied after the run (`lifecycle.py:104`) | `Lifecycle!BundleIsWhatRan`, in `promote` with a supervised runner |
| a confirmed action is stopped at its first repeat (`README.md:628`) | only while no warning was given yet (`agent.py:106`) | `Progress!ConfirmedNotRepeated`, in `loops` |
| an unproven action is never dispatched again (`agent.py:40`) | a lost action that was proven is verified once more (`agent.py:888`); when its text is gone by then, nothing is recorded or counted | `Discovery!NoBlindRepeat`, with `Fleeting = TRUE` |
| at most `max_attempts` visual attempts per run (`agent.py:1725`) | each session has its own counter (`agent.py:526`) | `Discovery!VisionWithinBudget`, in `lists` |
| the detector marks the step it warned on (`design-notes.md:201-202`) | the last node is marked, which may be another step (`agent.py:688`) | `Discovery!OnlyRepeatedIsAbandoned`, in `record` |
| a checkpoint that held before proves nothing (`agent.py:1405`) | the observation before a confirmation is compared (`agent.py:660`), though the person may have moved the page | `Discovery!CheckpointIsOwn`, with `ActsInConfirm = TRUE` |
| `restart` discards, everything else records what the person did (`design-notes.md:188`) | `confirm_with_human` takes `restart` for a denial and records nothing (`agent.py:1713`) | `Discovery!PersonRecorded`, with `ActsInConfirm = TRUE` and `"restart"` in `ConfirmAnswers` |
| what a person performed before `resume` becomes nodes (`README.md:531-532`) | the handoff over an uncertain segment records nothing (`agent.py:804`) | `Reuse!PersonRecorded`, in `library` |
| `set` assigns an output once (`agent.py:288`) | an import updates the outputs unasked (`agent.py:448`) | `Reuse!OutputsSetOnce`, in `library` |
| an unverified action does not leave a known state (`agent.py:729`) | after a declared business outcome the session goes on whatever was attempted (`agent.py:763`) | `Reuse!KnownAfterOutcome`, in `library` |
| the catalog holds what is approved (`library.py:3`) | status, digest and artifact are three reads (`library.py:98-102`) | `Reuse!OnlyApprovedRuns`, with `ScanEdits = {"draft"}` |
| a verified effect is observable, and control state is page state (`agent.py:749`, `123`) | what is checked or selected is not in `screen_key` (`library.py:135-141`), by which `agent.py:750` decides that nothing changed: the step is dropped | `Reuse!KnownAfterSuccess`, in `library` |
| artifacts are immutable once saved (`artifact.py:866-867`) | `path.exists()` and the write are two steps (`artifact.py:877-881`): the graph a summary names is overwritten | `Campaign!SavedStays`, in `campaign` |
| previously saved artifacts are never touched (`campaign.py:286`) | the same race, with the campaign as the one that overwrites | `Campaign!SavedUntouched`, in `campaign` |
| a failed campaign saved nothing (`campaign.py:49`) | a failing write leaves a truncated file (`artifact.py:881`) | `Campaign!NothingSaved`, in `campaign` |
| the summary maps every scenario to its evidence (`campaign.py:389`) | evidence that was copied is named only after the trace is written (`campaign.py:383-384`) | `Campaign!EvidenceNamed`, in `campaign` |

## 6. Not modelled, and the plan

Not modelled for good: perception and Playwright (`surface.py`), provider calls (`planner.py`), the label
classification by regular expressions (`policy.py`), redaction and the format of events (`evidence.py`), argument
parsing (`__main__.py`), JSON shapes, parsing of campaign specifications, messages of the validator, the
matching of texts and locators from which `agent.py` infers a checkpoint. They are I/O or text processing; the
models take their results as choices.

Planned, most important first:

1. The composition of `Campaign` and `Lifecycle`: a merged draft is a draft like any other, but two campaigns and an
   approval over one directory have not been checked together (each has been checked against another recorder).
2. The locator ladders of `surface.py`: which of several candidates an action resolves to decides whether a checkpoint
   proves it, and that is a choice in `Discovery` today.
