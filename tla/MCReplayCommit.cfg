SPECIFICATION Spec
CONSTANTS
  Nodes <- CommitNodes
  EntryNode = "open"
  Kind <- CommitKind
  Action <- CommitAction
  Effect <- CommitEffect
  RetrySafety <- CommitSafety
  Checkpointed = {"fill"}
  TerminalStatus <- CommitStatus
  Guarded <- CommitGuarded
  Fallback <- CommitFallback
  Rank <- CommitRank
  Outputs = {}
  OutputOf <- NoOutputOf
  AppendNodes = {}
  OptionalOutputs = {}
  MaxTransientAttempts = 3
  MaxRestarts = 1
  MaxDialogRecoveries = 1
  MaxPolls = 1
  MaxInterventions = 3
  Policies = {"deny", "confirm", "allow"}
  Operators = {"none", "console"}
INVARIANTS
  TypeOK
  RepeatsBounded
  OwnershipReturned
  PathFollowsGraph
PROPERTIES
  NoBlindRepeat
  ConsentBeforeRisk
  ImplementsContract
