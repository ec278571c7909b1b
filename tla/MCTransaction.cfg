CONSTANTS
    k1 = k1
    k2 = k2
    v1 = v1
    NoVal = NoVal
    Keys <- MCKeys
    Vals <- MCVals
    MaxDepth = 3
SPECIFICATION Spec
INVARIANTS
    TypeOK
    ScopesMatchFrames
    Atomicity
    PanicNotSwallowed
PROPERTY
    ImplementsAtomic
