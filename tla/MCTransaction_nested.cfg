CONSTANTS
    k1 = k1
    k2 = k2
    v1 = v1
    NoVal = NoVal
    Keys <- MCKeys
    Vals <- MCVals
    MaxDepth = 3
SYMMETRY MCSymmetry
SPECIFICATION Spec
INVARIANT NoNestedScope
