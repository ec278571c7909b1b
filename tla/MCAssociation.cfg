CONSTANTS
    i1 = i1
    i2 = i2
    i3 = i3
    Owner = Owner
    Other = Other
    Zero = Zero
    Keep = Keep
    None = None
    Unset = Unset
    Absent = Absent
    Ids <- MCIds
    MaxNew = 2
    MaxCalls = 3
SYMMETRY MCSymmetry
CHECK_DEADLOCK FALSE
SPECIFICATION Spec
INVARIANTS TypeOK OwnerReferencesBuyer ReplaceDropsLoaded
