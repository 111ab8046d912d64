SPECIFICATION Spec
CONSTANTS
  Nodes <- CollectNodes
  EntryNode = "first"
  Kind <- CollectKind
  Action <- CollectAction
  Effect <- CollectEffect
  RetrySafety <- CollectSafety
  Checkpointed = {}
  TerminalStatus <- CollectStatus
  Guarded <- CollectGuarded
  Fallback <- CollectFallback
  Rank <- CollectRank
  Outputs <- CollectOutputs
  OutputOf <- CollectOutputOf
  AppendNodes = {"first", "second"}
  OptionalOutputs = {"scores", "nickname", "remarks"}
  MaxTransientAttempts = 3
  MaxRestarts = 1
  MaxDialogRecoveries = 1
  MaxPolls = 1
  MaxInterventions = 3
  Policies = {"confirm"}
  Operators = {"none"}
INVARIANTS
  CollectedKept
