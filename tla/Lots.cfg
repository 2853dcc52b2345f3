CONSTANTS
    MaxBags = 2
    MaxEdits = 1
    MaxCrashes = 1
    Dashboard = {"put", "delete", "skip", "protect"}
SPECIFICATION FairSpec
INVARIANTS
    LotTypeOK
    NoInheritedBasis
    NoInheritedPeak
    RuleDiesWithBag
PROPERTIES
    OperatorRuleKept
    HeldGetsRule
