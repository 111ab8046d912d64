SPECIFICATION FairSpec
CONSTANTS
  Nodes <- CollectNodes
  EntryNode = "first"
  Kind <- CollectKind
  Action <- CollectAction
  Effect <- CollectEffect
  RetrySafety <- CollectSafety
  Checkpointed = {"pay"}
  TerminalStatus <- CollectStatus
  Guarded <- CollectGuarded
  Fallback <- CollectFallback
  Rank <- CollectRank
  Outputs <- CollectOutputs
  OutputOf <- CollectOutputOf
  AppendNodes = {"first", "second"}
  OptionalOutputs = {"nickname", "remarks"}
  MaxTransientAttempts = 3
  MaxRestarts = 1
  MaxDialogRecoveries = 3
  MaxPolls = 2
  MaxInterventions = 3
  Policies = {"confirm"}
  Operators = {"none", "console"}
INVARIANTS
  OutputsOfThisFlow
  CollectedExactlyOnce
  ExecutedIsBacked
PROPERTIES
  UnattendedTerminates
