CONSTANTS
    N = 3
    Codes = {"lost", "busy"}
    Meanings = {"gone", "locked"}
    Declared <- ReviewerKnows
    Contracts = {one, two}
    DiskFails = TRUE
    Interrupted = TRUE
    Recorders = {"rival"}
    MaxVersion = 2
    MaxRuns = 2
    MaxPlanned = 2
SPECIFICATION Spec
INVARIANTS AllOrNothing SummaryTells ReviewerWins DeclaredNeverConflict
SYMMETRY ContractsAlike
