CONSTANTS
    c1 = c1
    c2 = c2
    i1 = i1
    i2 = i2
    n1 = n1
    n2 = n2
    Absent = Absent
    Zero = Zero
    Keep = Keep
    Clients <- MCClient
    Ids <- MCIds
    Names <- MCNames
SPECIFICATION Spec
INVARIANT UpdateWriteNotMissing
