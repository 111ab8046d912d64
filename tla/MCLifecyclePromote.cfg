SPECIFICATION Spec
CONSTANTS
  Bodies = {"gated", "plain"}
  Assignments = {"card", "cash"}
  Declared <- GatedDeclared
  Recorders = {"record"}
  Testers = {test1, test2}
  Approvers = {approve1, approve2}
  Runners = {"run"}
  Purposes = {"discovery_reuse"}
  MinRuns = 1
  RunCounts = {1}
  MaxVersion = 2
  MaxEdits = 1
  EditsAnytime = FALSE
SYMMETRY Symmetric
INVARIANTS
  TypeOK
  ApprovedWasTested
PROPERTIES
  ImplementsPromotion
CHECK_DEADLOCK FALSE
