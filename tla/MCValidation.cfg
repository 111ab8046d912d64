SPECIFICATION FairSpec
CONSTANTS
    Graphs <- SmallGraphs
    Params <- OneInput
INVARIANTS AcceptedIsSound RefusedForCause ChoicesAreSound
PROPERTY VerdictComes
