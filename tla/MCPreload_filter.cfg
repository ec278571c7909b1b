CONSTANTS
    p1 = p1
    p2 = p2
    ch1 = ch1
    ch2 = ch2
    ch3 = ch3
    id1 = id1
    id2 = id2
    x1 = x1
    x2 = x2
    NoChild = NoChild
    Parents <- MCParents
    PIds <- MCPIds
    Children <- MCChildren
    Vals <- MCVals
    MaxCalls = 3
SYMMETRY MCSymmetry
SPECIFICATION Spec
CHECK_DEADLOCK FALSE
INVARIANT FiltersHonoured
