SPECIFICATION Spec
CONSTANTS
    Scenarios <- Three
    Selectors <- Pair
    Values <- Two
    Assigned <- ThreeAssigned
    Inputs <- Names
    Needs <- Uses
    Recorded <- AllTraces
INVARIANTS GateIsDeclared AgreementIsEnough
PROPERTY ImplementsDeclaredPaths
