------------------------------- MODULE Replay -------------------------------
(***************************************************************************)
(* The deterministic replay engine of Pathloom (src/src/cua/replay.py)     *)
(* together with the human handoff it uses (escalation.py).                *)
(*                                                                         *)
(* One replay walks a validated, acyclic capability graph from its entry   *)
(* node.  An action node is attempted under a bounded transient budget and *)
(* its retry safety; a decision node waits for one of its guarded edges; a *)
(* terminal node ends the run.  Whenever the engine is stuck it hands the  *)
(* live session to a person, whose disposition becomes control flow.       *)
(*                                                                         *)
(* A step of the model lies between two calls on the surface (the browser) *)
(* or the operator, so every failure the surface can report and every move *)
(* a person can make falls between two steps.  What the screen shows is    *)
(* abstracted to what the engine distinguishes: a failed load, a dialog    *)
(* (known, unknown, none), whether a checkpoint or a guard holds.          *)
(***************************************************************************)
EXTENDS Naturals, Sequences

CONSTANTS
  Nodes,             (* node ids of the capability graph                   *)
  EntryNode,
  Kind,              (* node -> "action" | "decision" | "terminal"         *)
  Action,            (* node -> the action an action node carries, or NoAction *)
  Effect,            (* node -> "none" | "reversible" | "irreversible" | "unknown" *)
  RetrySafety,       (* node -> "safe" | "verify_before_retry" | "never_retry" *)
  Checkpointed,      (* the action nodes that carry a checkpoint           *)
  TerminalStatus,    (* node -> "success" | "business_outcome" | "failure" *)
  Guarded,           (* node -> targets of its guarded edges               *)
  Fallback,          (* node -> target of its "always" edge, if any        *)
  Rank,              (* node -> its place in a topological order           *)
  Outputs,           (* declared output names                              *)
  OutputOf,          (* extraction node -> the output it writes            *)
  AppendNodes,       (* the extraction nodes whose mode is "append"        *)
  OptionalOutputs,   (* the outputs a run may finish without               *)
  MaxTransientAttempts, MaxRestarts, MaxDialogRecoveries,
  MaxPolls,          (* bound: polls that fit into one wait                *)
  MaxInterventions,  (* bound: handoffs after which a person gives up      *)
  Policies,          (* the --irreversible-policy values a run may be given *)
  Operators          (* "none" (NoOperator) and/or "console"               *)

NoAction == "no_action"
Reads    == {"extract", "extract_many"}
Pathless == {"navigate", "back"}              \* actions that resolve no control
Clicks   == {"click", "type", "select"}
Unsafe   == {"irreversible", "unknown"}       \* artifact.NO_AUTOMATIC_RETRY

ActionNodes == {n \in Nodes : Kind[n] = "action"}
ReadNodes   == {n \in ActionNodes : Action[n] \in Reads}
Successors(n) == Guarded[n] \cup Fallback[n]

(***************************************************************************)
(* What artifact.validate guarantees of every graph that reaches replay:   *)
(* _validate_nodes, _validate_edges and _validate_acyclic.  Rank exists    *)
(* exactly for the graphs whose depth-first search finds no back edge.     *)
(***************************************************************************)
ASSUME GraphAssumption ==
  /\ EntryNode \in Nodes
  /\ Kind \in [Nodes -> {"action", "decision", "terminal"}]
  /\ Action \in [Nodes -> Reads \cup Pathless \cup Clicks \cup {NoAction}]
  /\ \A n \in Nodes : Kind[n] = "action" <=> Action[n] # NoAction
  /\ Effect \in [Nodes -> {"none", "reversible", "irreversible", "unknown"}]
  /\ RetrySafety \in [Nodes -> {"safe", "verify_before_retry", "never_retry"}]
  /\ \A n \in ActionNodes : Effect[n] \in Unsafe => RetrySafety[n] = "never_retry"
  /\ Checkpointed \subseteq ActionNodes
  /\ TerminalStatus \in [Nodes -> {"success", "business_outcome", "failure"}]
  /\ Guarded \in [Nodes -> SUBSET Nodes]
  /\ Fallback \in [Nodes -> SUBSET Nodes]
  /\ Rank \in [Nodes -> Nat]
  /\ \A n \in Nodes : \A m \in Successors(n) : Rank[n] < Rank[m]
  /\ \A n \in Nodes : Kind[n] = "terminal" <=> Successors(n) = {}

ASSUME OutputAssumption ==
  /\ OutputOf \in [ReadNodes -> Outputs]
  /\ AppendNodes \subseteq ReadNodes
  /\ OptionalOutputs \subseteq Outputs

ASSUME BoundAssumption ==
  /\ MaxTransientAttempts \in Nat \ {0}
  /\ MaxRestarts \in Nat
  /\ MaxDialogRecoveries \in Nat
  /\ MaxPolls \in Nat
  /\ MaxInterventions \in Nat
  /\ Policies \subseteq {"deny", "confirm", "allow"}
  /\ Operators \subseteq {"none", "console"}

VARIABLES
  (* what the run was given *)
  irreversible_policy,
  operator,
  (* where the engine is *)
  pc,                 \* the call it is about to make
  node,               \* the node it is on
  attempts,           \* run_action: attempts of this node (saturates at the budget)
  performed,          \* run_action: the action may have been carried out before
  acted,              \* ReplayContext.acted, for the attempt in progress
  waiting,            \* the counters of the waiting loop in progress
  handoff,            \* the intervention in progress, or NoHandoff
  (* ReplayContext, SessionControl, Escalator *)
  owner,
  interventions,      \* len(Escalator.interventions)
  restarts,
  outputs,
  appended,
  executed_path,
  performed_attempts,
  result,
  (* history: what the properties need and the code does not keep *)
  dispatched,         \* per node, dispatches in this flow that may have happened
  handled,            \* nodes a person may have carried out in this flow, then resumed
  verdict,            \* the policy's last word on the control in this attempt
  consent             \* a person approved this attempt of the action

given   == <<irreversible_policy, operator>>
place   == <<node, attempts, performed, acted, waiting>>
session == <<owner, interventions, handoff>>
flow    == <<outputs, appended, executed_path>>
ghosts  == <<dispatched, handled, verdict, consent>>
vars == <<given, pc, place, session, restarts, flow, performed_attempts, result, ghosts>>

-----------------------------------------------------------------------------
NotWaiting == [dialogs |-> 0, loads |-> 0, polls |-> 0]
NoHandoff  == [site |-> "none", code |-> "none", acted |-> FALSE]
NoResult   == [status |-> "none", code |-> "none"]

Absent == [state |-> "absent", items |-> <<>>]     \* the name is not in ctx.outputs
Null   == [state |-> "null", items |-> <<>>]       \* ctx.outputs[name] is None
Value(items) == [state |-> "value", items |-> items]

NothingDispatched == [n \in Nodes |-> 0]
NothingCollected  == [o \in Outputs |-> Absent]

Init ==
  /\ irreversible_policy \in Policies
  /\ operator \in Operators
  /\ pc = "replay"
  /\ node = EntryNode
  /\ attempts = 0 /\ performed = FALSE /\ acted = FALSE
  /\ waiting = NotWaiting
  /\ handoff = NoHandoff
  /\ owner = "automation"
  /\ interventions = 0
  /\ restarts = 0
  /\ outputs = NothingCollected
  /\ appended = {}
  /\ executed_path = <<>>
  /\ performed_attempts = 0
  /\ result = NoResult
  /\ dispatched = NothingDispatched
  /\ handled = {}
  /\ verdict = "unchecked"
  /\ consent = FALSE

-----------------------------------------------------------------------------
(***************************************************************************)
(* How a call ends.  Each operator below fixes pc, place and result; the   *)
(* action that uses it fixes the rest.                                     *)
(***************************************************************************)
Goto(call) == pc' = call /\ UNCHANGED <<place, result>>

Finish(status, code) ==
  /\ pc' = "done"
  /\ result' = [status |-> status, code |-> code]
  /\ UNCHANGED place

Fail(code) == Finish("failure", code)

(* An exception no frame of replay() handles: the caller gets no result.   *)
Escape(exception) ==
  /\ pc' = "escaped"
  /\ result' = [status |-> "raised", code |-> exception]
  /\ UNCHANGED place

BeginAttempt(count, carriedOut) ==
  /\ pc' = "settle"
  /\ attempts' = count /\ performed' = carriedOut /\ acted' = FALSE
  /\ waiting' = NotWaiting
  /\ UNCHANGED <<node, result>>

(* run_action's locals are dead once the node is left.                     *)
GoToEdges ==
  /\ pc' = "edge"
  /\ attempts' = 0 /\ performed' = FALSE /\ acted' = FALSE
  /\ waiting' = NotWaiting
  /\ UNCHANGED <<node, result>>

EnterNode(n) ==
  /\ pc' = "enter"
  /\ node' = n
  /\ attempts' = 0 /\ performed' = FALSE /\ acted' = FALSE
  /\ waiting' = NotWaiting
  /\ UNCHANGED result

(* A faulty form of CarriedOut: every repeated attempt is taken for one    *)
(* that was carried out.                                                   *)
CarriedOutAssumed(actedNow) == TRUE

(* `performed = performed or ctx.acted` in run_action's handlers.          *)
CarriedOut(actedNow) == performed \/ actedNow

(* Faulty forms of RetryTransient: an attempt too many, and a counter that *)
(* does not survive the retry.                                             *)
RetryOnceMore(actedNow) ==
  \/ /\ attempts > MaxTransientAttempts
     /\ Fail("transient_retries_exhausted")
  \/ /\ attempts <= MaxTransientAttempts
     /\ BeginAttempt(attempts + 1, CarriedOut(actedNow))
RetryUncounted(actedNow) ==
  \/ /\ attempts >= MaxTransientAttempts
     /\ Fail("transient_retries_exhausted")
  \/ /\ attempts < MaxTransientAttempts
     /\ BeginAttempt(attempts, CarriedOut(actedNow))

(* run_action's handler of TransientError (and of its subclass ActionError): *)
(* the third failure ends the run, an earlier one reloads and attempts again. *)
RetryTransient(actedNow) ==
  \/ /\ attempts >= MaxTransientAttempts
     /\ Fail("transient_retries_exhausted")
  \/ /\ attempts < MaxTransientAttempts
     /\ BeginAttempt(attempts + 1, CarriedOut(actedNow))

(* Escalator.request, first half: the session is ceded to the person.      *)
Escalate(code, site) ==
  /\ owner = "automation"
  /\ pc' = "handoff"
  /\ owner' = "human"
  /\ handoff' = [site |-> site, code |-> code, acted |-> FALSE]
  /\ UNCHANGED <<place, interventions, result>>

(* Everything a control step leaves alone.                                 *)
ledger == <<given, restarts, flow, performed_attempts, ghosts>>

-----------------------------------------------------------------------------
(* replay, run_with_restarts, run_graph *)

(* replay() refuses a run whose required inputs are missing.               *)
StartReplay ==
  /\ pc = "replay"
  /\ Fail("missing_inputs") \/ Goto("run")
  /\ UNCHANGED <<session, ledger>>

(* control.require(AUTOMATION) is the first thing a flow does.             *)
RunGraph ==
  /\ pc = "run"
  /\ owner = "automation"
  /\ EnterNode(EntryNode)
  /\ UNCHANGED <<session, ledger>>

EnterAction ==
  /\ pc = "enter" /\ Kind[node] = "action"
  /\ BeginAttempt(1, FALSE)
  /\ UNCHANGED <<session, ledger>>

EnterDecision ==
  /\ pc = "enter" /\ Kind[node] = "decision"
  /\ GoToEdges
  /\ UNCHANGED <<session, ledger>>

EnterTerminal ==
  /\ pc = "enter" /\ Kind[node] = "terminal"
  /\ Goto("terminal")
  /\ UNCHANGED <<session, ledger>>

-----------------------------------------------------------------------------
(* settle: observe, clearing any dialog the artifact knows how to clear.   *)
(* It runs before an attempt decides (acted = FALSE) and on every poll of  *)
(* settle_after_action (acted = TRUE).                                     *)

SettleLoadFails ==
  /\ pc = "settle"
  /\ RetryTransient(acted)
  /\ UNCHANGED <<session, ledger>>

SettleClear ==
  /\ pc = "settle"
  /\ Goto(IF acted THEN "verify" ELSE "attempt")
  /\ UNCHANGED <<session, ledger>>

SettleRecoversDialog ==
  /\ pc = "settle"
  /\ waiting.dialogs < MaxDialogRecoveries
  /\ waiting' = [waiting EXCEPT !.dialogs = @ + 1]
  /\ UNCHANGED <<pc, node, attempts, performed, acted, result, session, ledger>>

(* The control that clears the dialog is not on screen.                    *)
SettleRecoveryFails ==
  /\ pc = "settle"
  /\ waiting.dialogs < MaxDialogRecoveries
  /\ Escalate("recovery_failed", "step")
  /\ UNCHANGED ledger

(* No declared outcome matches the dialog, or the recoveries are used up.  *)
SettleUnknownDialog ==
  /\ pc = "settle"
  /\ Escalate("unknown_dialog", "step")
  /\ UNCHANGED ledger

-----------------------------------------------------------------------------
(* attempt_action, up to the resolved control *)

(* A faulty form: the missing checkpoint is asked of the wrong nodes.      *)
MayRepeatUnlessUnproven(n) ==
  RetrySafety[n] # "verify_before_retry" \/ n \in Checkpointed
MayRepeat(n) ==
  \/ RetrySafety[n] = "safe"
  \/ RetrySafety[n] = "verify_before_retry" /\ n \in Checkpointed

(* A faulty form: a repeated node is not listed when it completes.         *)
CompleteUnlisted ==
  /\ executed_path' = IF performed THEN executed_path ELSE Append(executed_path, node)
  /\ GoToEdges
(* attempt_action returns None: run_graph lists the node and asks its edges. *)
Complete ==
  /\ executed_path' = Append(executed_path, node)
  /\ GoToEdges

StepAlreadySatisfied ==
  /\ pc = "attempt" /\ performed
  /\ node \in Checkpointed
  /\ Complete
  /\ UNCHANGED <<session, given, restarts, outputs, appended, performed_attempts, ghosts>>

ResultUncertain ==
  /\ pc = "attempt" /\ performed
  /\ ~MayRepeat(node)
  /\ Escalate("action_result_uncertain", "uncertain")
  /\ UNCHANGED ledger

Proceeds == pc = "attempt" /\ (performed => MayRepeat(node))

ReachDenied ==
  /\ Proceeds
  /\ Fail("policy_denied")
  /\ UNCHANGED <<session, ledger>>

(* The control resolves, or the action needs none (navigate, back) or      *)
(* resolves its own (extract_many).                                        *)
ResolveTarget ==
  /\ Proceeds
  /\ Goto("effect")
  /\ verdict' = "unchecked" /\ consent' = FALSE
  /\ UNCHANGED <<session, given, restarts, flow, performed_attempts, dispatched, handled>>

ResolvesControl == Action[node] \in Clicks \cup {"extract"}
OptionalRead    == node \in ReadNodes /\ OutputOf[node] \in OptionalOutputs

TargetAmbiguous ==
  /\ Proceeds /\ ResolvesControl
  /\ Fail("ambiguous_target")
  /\ UNCHANGED <<session, ledger>>

(* A declared business outcome explains the missing control.               *)
TargetMissingByOutcome ==
  /\ Proceeds /\ ResolvesControl
  /\ Finish("business_outcome", "declared")
  /\ UNCHANGED <<session, ledger>>

TargetMissing ==
  /\ Proceeds /\ ResolvesControl /\ ~OptionalRead
  /\ Escalate("target_not_found", "step")
  /\ UNCHANGED ledger

(* An optional output that is absent is a null in the result.              *)
RecordMissingOutput ==
  /\ outputs' = [outputs EXCEPT ![OutputOf[node]] = Null]
  /\ UNCHANGED appended

OptionalControlMissing ==
  /\ Proceeds /\ Action[node] = "extract" /\ OptionalRead
  /\ RecordMissingOutput
  /\ Complete
  /\ UNCHANGED <<session, given, restarts, performed_attempts, ghosts>>

-----------------------------------------------------------------------------
(* check_effect_policy: the live verdict, then the declared effect *)

Contested(n, v) == v = "confirm" /\ Effect[n] \in {"none", "reversible"}

(* A faulty form of NeedsHuman: the live verdict is ignored.               *)
NeedsHumanIgnoringVerdict(n, v) ==
  Effect[n] = "unknown" \/ (Effect[n] = "irreversible" /\ irreversible_policy # "allow")
NeedsHuman(n, v) ==
  \/ Contested(n, v)
  \/ Effect[n] = "unknown"
  \/ Effect[n] = "irreversible" /\ irreversible_policy # "allow"

DeniedCode(n) ==
  IF Effect[n] = "unknown" THEN "unknown_effect_denied" ELSE "irreversible_denied"
NotConfirmedCode(n) ==
  IF Effect[n] = "unknown" THEN "unknown_effect_not_confirmed" ELSE "irreversible_not_confirmed"

Judge(v) ==
  /\ pc = "effect"
  /\ verdict' = v
  /\ UNCHANGED <<given, restarts, flow, performed_attempts, dispatched, handled, consent>>

VerdictDenies ==
  /\ Judge("deny")
  /\ Fail("policy_denied")
  /\ UNCHANGED session

EffectDenied(v) ==
  /\ Judge(v) /\ NeedsHuman(node, v) /\ irreversible_policy = "deny"
  /\ Fail(DeniedCode(node))
  /\ UNCHANGED session

RequireApproval(v) ==
  /\ Judge(v) /\ NeedsHuman(node, v) /\ irreversible_policy # "deny"
  /\ Escalate(NotConfirmedCode(node), "confirm")

EffectAllowed(v) ==
  /\ Judge(v) /\ ~NeedsHuman(node, v)
  /\ Goto("act")
  /\ UNCHANGED session

-----------------------------------------------------------------------------
(* act: the physical action, and what the surface can say about it *)

Physical == pc = "act" /\ node \in ActionNodes \ ReadNodes

MayHaveHappened ==
  /\ performed_attempts' = performed_attempts + 1
  /\ dispatched' = [dispatched EXCEPT ![node] = @ + 1]

NothingHappened == UNCHANGED <<performed_attempts, dispatched>>

beside == <<session, given, restarts, flow, handled, verdict, consent>>

ActCompletes ==
  /\ Physical
  /\ MayHaveHappened
  /\ acted' = TRUE
  /\ pc' = IF node \in Checkpointed THEN "settle" ELSE "observe"
  /\ waiting' = NotWaiting
  /\ UNCHANGED <<node, attempts, performed, result, beside>>

(* A load failure during the action, or an ActionError with performed      *)
(* "yes" or "unknown": it may have happened.                               *)
ActLost ==
  /\ Physical
  /\ MayHaveHappened
  /\ RetryTransient(TRUE)
  /\ UNCHANGED beside

(* ActionError with performed "no": the surface proved nothing happened.   *)
ActNotDispatched ==
  /\ Physical
  /\ NothingHappened
  /\ RetryTransient(FALSE)
  /\ UNCHANGED beside

(* Several options, or several new pages, fit: before or after dispatch.   *)
ActAmbiguous ==
  /\ Physical /\ Action[node] \in {"click", "select"}
  /\ Fail("ambiguous_selection")
  /\ MayHaveHappened \/ (Action[node] = "select" /\ NothingHappened)
  /\ UNCHANGED beside

ActStale ==
  /\ Physical /\ Action[node] \in Clicks
  /\ Fail("stale_target")
  /\ NothingHappened
  /\ UNCHANGED beside

(* A node without a checkpoint passes once the screen can be read again.   *)
ObservedAfterAct ==
  /\ pc = "observe"
  /\ Complete
  /\ UNCHANGED <<session, given, restarts, outputs, appended, performed_attempts, ghosts>>

LoadFailsAfterAct ==
  /\ pc = "observe"
  /\ RetryTransient(acted)
  /\ UNCHANGED <<session, ledger>>

CheckpointPassed ==
  /\ pc = "verify"
  /\ Complete
  /\ UNCHANGED <<session, given, restarts, outputs, appended, performed_attempts, ghosts>>

(* A declared outcome shows on a screen that changed since the action.     *)
OutcomeAfterAct ==
  /\ pc = "verify"
  /\ Finish("business_outcome", "declared")
  /\ UNCHANGED <<session, ledger>>

(* The deadline may strike at any poll, and has struck after MaxPolls.     *)
CheckpointTimeout ==
  /\ pc = "verify"
  /\ Escalate("checkpoint_not_met", "step")
  /\ UNCHANGED ledger

PollCheckpoint ==
  /\ pc = "verify"
  /\ waiting.polls < MaxPolls
  /\ pc' = "settle"
  /\ waiting' = [NotWaiting EXCEPT !.polls = waiting.polls + 1]
  /\ UNCHANGED <<node, attempts, performed, acted, result, session, ledger>>

-----------------------------------------------------------------------------
(* extract and extract_many: reading, which performs nothing *)

Reading == pc = "act" /\ node \in ReadNodes

outside == <<session, given, restarts, performed_attempts, ghosts>>

(* store_items: a set node assigns, an append node adds once per flow.     *)
StoreItems ==
  LET o == OutputOf[node] IN
  \/ /\ node \notin AppendNodes
     /\ outputs' = [outputs EXCEPT ![o] = Value(<<node>>)]
     /\ UNCHANGED appended
  \/ /\ node \in AppendNodes \ appended
     /\ outputs' = [outputs EXCEPT ![o] = Value(Append(@.items, node))]
     /\ appended' = appended \cup {node}
  \/ /\ node \in AppendNodes \cap appended
     /\ UNCHANGED <<outputs, appended>>

ReadStored ==
  /\ Reading
  /\ StoreItems
  /\ Complete
  /\ UNCHANGED outside

(* The pattern of an optional scalar read does not match.                  *)
ScalarUnmatched ==
  /\ Reading /\ Action[node] = "extract" /\ OptionalRead
  /\ RecordMissingOutput
  /\ Complete
  /\ UNCHANGED outside

(* optional_list_absent: one unusable position makes the list absent; an   *)
(* append node adds nothing and leaves the items already collected alone.  *)
OptionalListAbsent ==
  /\ Reading /\ Action[node] = "extract_many" /\ OptionalRead
  /\ outputs' = IF node \in AppendNodes THEN outputs
                ELSE [outputs EXCEPT ![OutputOf[node]] = Absent]
  /\ Complete
  /\ UNCHANGED <<outside, appended>>

ReadRefused ==
  /\ Reading
  /\ \/ Fail("output_not_found") /\ ~OptionalRead
     \/ Fail("ambiguous_target") /\ Action[node] = "extract_many"
     \/ /\ Finish("business_outcome", "declared")
        /\ Action[node] = "extract_many" /\ ~OptionalRead
  /\ UNCHANGED <<session, ledger>>

ItemMissing ==
  /\ Reading /\ Action[node] = "extract_many" /\ ~OptionalRead
  /\ Escalate("target_not_found", "step")
  /\ UNCHANGED ledger

-----------------------------------------------------------------------------
(* select_edge and the terminals; observe_with_recovery in both *)

LoadFails ==
  /\ pc \in {"edge", "terminal"}
  /\ \/ /\ waiting.loads + 1 >= MaxTransientAttempts
        /\ Fail("transient_retries_exhausted")
     \/ /\ waiting.loads + 1 < MaxTransientAttempts
        /\ waiting' = [waiting EXCEPT !.loads = @ + 1]
        /\ UNCHANGED <<pc, node, attempts, performed, acted, result>>
  /\ UNCHANGED <<session, ledger>>

TakeEdge(m) ==
  /\ pc = "edge" /\ m \in Guarded[node]
  /\ EnterNode(m)
  /\ UNCHANGED <<session, ledger>>

(* The "always" edge: at once when it is the only one, else at the deadline. *)
TakeFallback(m) ==
  /\ pc = "edge" /\ m \in Fallback[node]
  /\ EnterNode(m)
  /\ UNCHANGED <<session, ledger>>

EdgeRecoversDialog ==
  /\ pc = "edge"
  /\ waiting.dialogs < MaxDialogRecoveries
  /\ waiting' = [waiting EXCEPT !.dialogs = @ + 1, !.loads = 0]
  /\ UNCHANGED <<pc, node, attempts, performed, acted, result, session, ledger>>

EdgeRecoveryFails ==
  /\ pc = "edge"
  /\ waiting.dialogs < MaxDialogRecoveries
  /\ Escalate("recovery_failed", "edge_recover")
  /\ UNCHANGED ledger

(* The click that clears the dialog raises; select_edge has no handler.    *)
EdgeRecoveryRaises ==
  /\ pc = "edge"
  /\ waiting.dialogs < MaxDialogRecoveries
  /\ Escape("TransientError")
  /\ UNCHANGED <<session, ledger>>

NoMatchingEdge ==
  /\ pc = "edge" /\ Fallback[node] = {}
  /\ Escalate("no_matching_edge", "edge_stuck")
  /\ UNCHANGED ledger

(* A faulty form: the wait for an edge has no deadline.                    *)
PollEdgesForever ==
  /\ pc = "edge" /\ Guarded[node] # {}
  /\ waiting' = [waiting EXCEPT !.loads = 0]
  /\ UNCHANGED <<pc, node, attempts, performed, acted, result, session, ledger>>

PollEdges ==
  /\ pc = "edge" /\ Guarded[node] # {}
  /\ waiting.polls < MaxPolls
  /\ waiting' = [waiting EXCEPT !.polls = @ + 1, !.loads = 0]
  /\ UNCHANGED <<pc, node, attempts, performed, acted, result, session, ledger>>

MissingOutputs == {o \in Outputs \ OptionalOutputs : outputs[o].state # "value"}

SuccessTerminal == pc = "terminal" /\ TerminalStatus[node] = "success"

SuccessVerified ==
  /\ SuccessTerminal /\ MissingOutputs = {}
  /\ Finish("success", "none")
  /\ UNCHANGED <<session, ledger>>

(* A required output is missing, or a collected value breaks its contract. *)
OutputsIncomplete ==
  /\ SuccessTerminal
  /\ MissingOutputs # {} \/ \E o \in Outputs : outputs[o].state = "value"
  /\ Fail("outputs_incomplete")
  /\ UNCHANGED <<session, ledger>>

SuccessNotMet ==
  /\ SuccessTerminal
  /\ Fail("success_condition_not_met") \/ Finish("business_outcome", "declared")
  /\ UNCHANGED <<session, ledger>>

OtherTerminal ==
  /\ pc = "terminal" /\ TerminalStatus[node] # "success"
  /\ Finish(TerminalStatus[node], "declared")
  /\ UNCHANGED <<session, ledger>>

-----------------------------------------------------------------------------
(***************************************************************************)
(* The handoff (escalation.py).  NoOperator aborts at once.  At a console  *)
(* a person acts on the same session for as long as they like, then picks  *)
(* a disposition; any disposition may answer any request.                  *)
(***************************************************************************)
Stuck  == handoff.site \in {"step", "uncertain", "edge_recover", "edge_stuck"}
AtStep == handoff.site \in {"step", "uncertain"}

(* Escalator.request, second half: the finally clause returns the session, *)
(* and an answered request is recorded.                                    *)
HandBack ==
  /\ pc = "handoff"
  /\ owner' = "automation"
  /\ interventions' = interventions + 1
  /\ handoff' = NoHandoff

Attended == operator = "console" /\ interventions < MaxInterventions

PersonActs ==
  /\ pc = "handoff" /\ operator = "console"
  /\ handoff' = [handoff EXCEPT !.acted = TRUE]
  /\ UNCHANGED <<pc, place, owner, interventions, result, ledger>>

(* A faulty form: the session is returned with the answer only.            *)
ShowControlsFailsHeld ==
  /\ pc = "handoff" /\ operator = "console"
  /\ Stuck /\ ~handoff.acted
  /\ handoff' = NoHandoff
  /\ \/ AtStep /\ RetryTransient(acted)
     \/ ~AtStep /\ Escape("TransientError")
  /\ UNCHANGED <<owner, interventions, ledger>>

(* Showing the controls of a stuck session reads the page, which may fail: *)
(* the session is returned, nothing is recorded and the error is raised.   *)
ShowControlsFails ==
  /\ pc = "handoff" /\ operator = "console"
  /\ Stuck /\ ~handoff.acted
  /\ owner' = "automation"
  /\ handoff' = NoHandoff
  /\ \/ AtStep /\ RetryTransient(acted)
     \/ ~AtStep /\ Escape("TransientError")
  /\ UNCHANGED <<interventions, ledger>>

(* RetryStep in run_action: what a person did may have been this very step. *)
NextAttempt == IF attempts < MaxTransientAttempts THEN attempts + 1 ELSE attempts

ResumeStep ==
  /\ Attended /\ handoff.site = "step"
  /\ HandBack
  /\ BeginAttempt(NextAttempt, CarriedOut(acted \/ handoff.acted))
  /\ handled' = IF handoff.acted THEN handled \cup {node} ELSE handled
  /\ UNCHANGED <<given, restarts, flow, performed_attempts, dispatched, verdict, consent>>

(* RetryStep in uncertain_result: the action is assumed done.              *)
ResumeUncertain ==
  /\ Attended /\ handoff.site = "uncertain"
  /\ HandBack
  /\ Complete
  /\ UNCHANGED <<given, restarts, outputs, appended, performed_attempts, ghosts>>

(* RetryStep in select_edge: a new deadline, the same recovery budget.     *)
ResumeEdges ==
  /\ Attended /\ handoff.site = "edge_stuck"
  /\ HandBack
  /\ pc' = "edge"
  /\ waiting' = [waiting EXCEPT !.polls = 0, !.loads = 0]
  /\ UNCHANGED <<node, attempts, performed, acted, result, ledger>>

(* RetryStep raised by recover() while select_edge cleared a dialog.       *)
ResumeEdgeRecovery ==
  /\ Attended /\ handoff.site = "edge_recover"
  /\ HandBack
  /\ Escape("RetryStep")
  /\ UNCHANGED ledger

(* Faulty forms of ClearFlow, each forgetting one of the three.            *)
ClearAllButAppended ==
  /\ outputs' = NothingCollected
  /\ executed_path' = <<>>
  /\ UNCHANGED appended
ClearAllButOutputs ==
  /\ appended' = {}
  /\ executed_path' = <<>>
  /\ UNCHANGED outputs
ClearAllButPath ==
  /\ outputs' = NothingCollected
  /\ appended' = {}
  /\ UNCHANGED executed_path

(* RestartFlow in run_with_restarts: the outputs, what was appended and    *)
(* the path start over; performed_attempts keeps counting.                 *)
ClearFlow ==
  /\ outputs' = NothingCollected
  /\ appended' = {}
  /\ executed_path' = <<>>

RestartFlow ==
  /\ Attended /\ Stuck
  /\ HandBack
  /\ restarts < MaxRestarts
  /\ restarts' = restarts + 1
  /\ Goto("run")
  /\ ClearFlow
  /\ dispatched' = NothingDispatched
  /\ handled' = {}
  /\ UNCHANGED <<given, performed_attempts, verdict, consent>>

RestartRefused ==
  /\ Attended /\ Stuck
  /\ HandBack
  /\ restarts >= MaxRestarts
  /\ restarts' = restarts + 1
  /\ Fail("restart_limit_reached")
  /\ UNCHANGED <<given, flow, performed_attempts, ghosts>>

(* abort, a closed stdin, no operator, or an answer that does not fit.     *)
StopReplay ==
  /\ HandBack
  /\ Fail(handoff.code)
  /\ UNCHANGED ledger

Approve ==
  /\ Attended /\ handoff.site = "confirm"
  /\ HandBack
  /\ Goto("act")
  /\ consent' = TRUE
  /\ UNCHANGED <<given, restarts, flow, performed_attempts, dispatched, handled, verdict>>

-----------------------------------------------------------------------------
Start == StartReplay \/ RunGraph \/ EnterAction \/ EnterDecision \/ EnterTerminal

Settle ==
  \/ SettleLoadFails \/ SettleClear \/ SettleRecoversDialog
  \/ SettleRecoveryFails \/ SettleUnknownDialog

Attempt ==
  \/ StepAlreadySatisfied \/ ResultUncertain \/ ReachDenied \/ ResolveTarget
  \/ TargetAmbiguous \/ TargetMissingByOutcome \/ TargetMissing
  \/ OptionalControlMissing

CheckEffect ==
  \/ VerdictDenies
  \/ \E v \in {"allow", "confirm"} :
       EffectDenied(v) \/ RequireApproval(v) \/ EffectAllowed(v)

Act == ActCompletes \/ ActLost \/ ActNotDispatched \/ ActAmbiguous \/ ActStale

AwaitCheckpoint ==
  \/ ObservedAfterAct \/ LoadFailsAfterAct
  \/ CheckpointPassed \/ OutcomeAfterAct \/ CheckpointTimeout \/ PollCheckpoint

Read ==
  ReadStored \/ ScalarUnmatched \/ OptionalListAbsent \/ ReadRefused \/ ItemMissing

Step == Start \/ Settle \/ Attempt \/ CheckEffect \/ Act \/ AwaitCheckpoint \/ Read

Route ==
  \/ LoadFails
  \/ \E m \in Nodes : TakeEdge(m) \/ TakeFallback(m)
  \/ EdgeRecoversDialog \/ EdgeRecoveryFails \/ EdgeRecoveryRaises
  \/ NoMatchingEdge \/ PollEdges
  \/ SuccessVerified \/ OutputsIncomplete \/ SuccessNotMet \/ OtherTerminal

Person ==
  \/ PersonActs \/ ShowControlsFails
  \/ ResumeStep \/ ResumeUncertain \/ ResumeEdges \/ ResumeEdgeRecovery
  \/ RestartFlow \/ RestartRefused \/ StopReplay \/ Approve

(* The run is over: the process returns the result, or raises.             *)
Over == pc \in {"done", "escaped"} /\ UNCHANGED vars

Next == Step \/ Route \/ Person \/ Over

Spec == Init /\ [][Next]_vars

(* The engine never stops between two calls, and NoOperator answers at     *)
(* once; a person at a console owes no answer.                             *)
Automation == Step \/ Route \/ (StopReplay /\ operator = "none")
FairSpec == Spec /\ WF_vars(Automation)

-----------------------------------------------------------------------------
(* What the engine implements: FlowContract, with every retry, wait and    *)
(* handoff hidden.  Between a restart and the next flow's first step the   *)
(* walk already stands at the entry node.                                  *)
Contract == INSTANCE FlowContract WITH
  PhysicalNodes <- ActionNodes \ ReadNodes,
  OnceNodes     <- {n \in Nodes : RetrySafety[n] = "never_retry"},
  SuccessNodes  <- {n \in Nodes : TerminalStatus[n] = "success"} \ ActionNodes,
  Edges         <- [n \in Nodes |-> Successors(n)],
  at            <- IF pc \in {"replay", "run"} THEN EntryNode ELSE node,
  carried       <- dispatched,
  by_hand       <- handled,
  executed      <- executed_path,
  answer        <- result.status

-----------------------------------------------------------------------------
(* Properties *)

Codes ==
  {"none", "declared", "missing_inputs", "policy_denied", "transient_retries_exhausted",
   "recovery_failed", "unknown_dialog", "action_result_uncertain", "ambiguous_target",
   "target_not_found", "irreversible_denied", "unknown_effect_denied",
   "irreversible_not_confirmed", "unknown_effect_not_confirmed", "ambiguous_selection",
   "stale_target", "checkpoint_not_met", "output_not_found", "no_matching_edge",
   "outputs_incomplete", "success_condition_not_met", "restart_limit_reached",
   "RetryStep", "TransientError"}
Calls == {"replay", "run", "enter", "settle", "attempt", "effect", "act",
          "observe", "verify", "edge", "terminal", "handoff", "done", "escaped"}
Sites == {"none", "step", "uncertain", "edge_recover", "edge_stuck", "confirm"}

Statuses == {"none", "success", "business_outcome", "failure", "raised"}

ControlOK ==
  /\ pc \in Calls
  /\ node \in Nodes
  /\ attempts \in 0..MaxTransientAttempts
  /\ performed \in BOOLEAN /\ acted \in BOOLEAN
  /\ waiting \in [dialogs : Nat, loads : Nat, polls : Nat]
  /\ result \in [status : Statuses, code : Codes]
SessionOK ==
  /\ owner \in {"automation", "human"}
  /\ interventions \in Nat
  /\ handoff \in [site : Sites, code : Codes, acted : BOOLEAN]
GivenOK ==
  /\ irreversible_policy \in Policies /\ operator \in Operators
FlowOK ==
  /\ outputs \in [Outputs -> [state : {"absent", "null", "value"}, items : Seq(Nodes)]]
  /\ appended \subseteq Nodes
  /\ executed_path \in Seq(Nodes)
GhostsOK ==
  /\ dispatched \in [Nodes -> Nat]
  /\ handled \subseteq Nodes
  /\ verdict \in {"unchecked", "allow", "confirm", "deny"}
  /\ consent \in BOOLEAN
LedgerOK ==
  /\ GivenOK /\ FlowOK /\ GhostsOK
  /\ restarts \in Nat /\ performed_attempts \in Nat

(* Every variable of a replay keeps its type: the locals of run_action and *)
(* of the waiting loops, the fields of ReplayContext, and the handoff.     *)
TypeOK == ControlOK /\ SessionOK /\ LedgerOK

(* A never_retry action that may already have been carried out in this     *)
(* flow, by the engine (performed "yes" or "unknown", or a load failure)   *)
(* or by a person who acted and resumed, is never dispatched again:        *)
(* "never_retry: skip if the checkpoint already holds, else a human        *)
(* decides" (replay.py:31), whatever dialogs, failures and handoffs fell   *)
(* between.  Only a restart, which a person chose, may carry it out anew.  *)
NotRepeatedBlindly ==
  \A n \in Nodes :
    RetrySafety[n] = "never_retry" /\ (dispatched[n] > 0 \/ n \in handled)
      => dispatched'[n] <= dispatched[n]
NoBlindRepeat == [][NotRepeatedBlindly]_vars

(* The replay implements its contract: however attempts, failed loads,     *)
(* dialogs, handoffs and restarts interleave, the caller sees a walk of    *)
(* the graph, each action on it performed before it is listed, an unsafe   *)
(* one at most once per flow, and a single answer (replay.py:9-17).        *)
ImplementsContract == Contract!Spec

(* No irreversible or unknown action, and no action the policy flags on    *)
(* the live control, is dispatched unless a person approved this very      *)
(* attempt; "allow" exempts declared irreversible actions only, and under  *)
(* "deny" none is dispatched at all (check_effect_policy).  An approval    *)
(* never outlives its attempt: a repeat asks again.                        *)
Risky(n) == Effect[n] \in Unsafe \/ verdict = "confirm"
Exempt(n) == Effect[n] = "irreversible" /\ irreversible_policy = "allow"
DispatchedWithConsent ==
  \A n \in Nodes :
    dispatched'[n] > dispatched[n] /\ Risky(n) /\ ~Exempt(n)
      => consent /\ irreversible_policy # "deny"
ConsentBeforeRisk == [][DispatchedWithConsent]_vars

OnPath(n) == \E i \in 1..Len(executed_path) : executed_path[i] = n

(* executed_path never claims an action nobody performed: every physical   *)
(* node on it was dispatched in this flow, or a person acted while it was  *)
(* stuck.  "Already satisfied" and "assumed done" are no way around it.    *)
ExecutedIsBacked ==
  \A n \in Nodes \ ReadNodes :
    OnPath(n) => dispatched[n] > 0 \/ n \in handled

(* However the transient retries, the human resumes and the restarts       *)
(* interleave, an action is dispatched at most once per attempt the budget *)
(* or a person granted (run_action counts both).                           *)
RepeatsBounded ==
  \A n \in Nodes : dispatched[n] <= MaxTransientAttempts + interventions

(* Everything in the outputs was read in the current flow, by a node that  *)
(* is on executed_path: nothing survives a restart (run_with_restarts).    *)
OutputsOfThisFlow ==
  \A o \in Outputs :
    /\ outputs[o].state # "absent" =>
         \E n \in ReadNodes : OutputOf[n] = o /\ OnPath(n)
    /\ \A i \in 1..Len(outputs[o].items) : OnPath(outputs[o].items[i])

(* store_items: a list holds the items of each append node whose read      *)
(* landed, once each and in the order of the graph, however many times a   *)
(* node was attempted and the flow restarted.                              *)
CollectedInOrder ==
  \A o \in Outputs : \A i, j \in 1..Len(outputs[o].items) :
    i < j => Rank[outputs[o].items[i]] < Rank[outputs[o].items[j]]
CollectedKept ==
  \A n \in appended :
    \E i \in 1..Len(outputs[OutputOf[n]].items) : outputs[OutputOf[n]].items[i] = n
ReadsAreAppended ==
  \A n \in AppendNodes \cap appended : OnPath(n)
CollectedExactlyOnce == CollectedInOrder /\ CollectedKept /\ ReadsAreAppended

(* The nodes a walk can meet after x before its next action node: the      *)
(* targets of its edges, and of the edges of every decision among them.    *)
Ahead ==
  [x \in Nodes |->
     {y \in Nodes :
        \A S \in SUBSET Nodes :
          /\ Successors(x) \subseteq S
          /\ \A d \in S : Kind[d] = "decision" => Successors(d) \subseteq S
          => y \in S}]
Follows(x, y) == y \in Ahead[x]

LastListed ==
  IF executed_path = <<>> THEN EntryNode ELSE executed_path[Len(executed_path)]

(* executed_path is the sequence of action nodes of one walk of the graph  *)
(* from its entry to the node the engine is on: no node is skipped, listed *)
(* twice or left over from before a restart (run_graph, run_with_restarts). *)
PathFollowsGraph ==
  pc # "run" =>
    /\ executed_path # <<>> =>
         executed_path[1] = EntryNode \/ Follows(EntryNode, executed_path[1])
    /\ \A i \in 1..Len(executed_path) - 1 : Follows(executed_path[i], executed_path[i + 1])
    /\ node = LastListed \/ Follows(LastListed, node)
    /\ result.status = "success" => Kind[node] = "terminal"

(* SessionControl: whatever ended a handoff (an answer, a failing read, no *)
(* operator), the session is back with automation before the engine's next *)
(* call, and nobody holds it after the run.                                *)
OwnershipReturned == owner = "human" <=> pc = "handoff"

(* An unattended replay terminates: every wait has a deadline, every retry *)
(* a budget, the graph no cycle, and NoOperator answers each handoff.      *)
UnattendedTerminates ==
  (operator = "none") ~> (pc \in {"done", "escaped"})

-----------------------------------------------------------------------------
(* Statements of the documentation that the code does not keep (README, 5).*)

(* RetryStep: "The human resolved the situation; re-check and re-run the   *)
(* current node" (replay.py:64).  A resume is never lost as an exception.  *)
ResumeIsHonoured == result # [status |-> "raised", code |-> "RetryStep"]

(* "failure: a hard failure; step_id / expected / observed say where and   *)
(* why" (replay.py:13).  A failed load ends in a result, not an exception. *)
FailedLoadIsReported == result # [status |-> "raised", code |-> "TransientError"]
=============================================================================
