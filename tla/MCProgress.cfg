SPECIFICATION Spec
CONSTANTS
    Entries = {"go", "pick", "buy"}
    NeedsPerson = {"buy"}
    MaxRun = 13
INVARIANT NoThirdRound
