\* One request at a time; computed fields over one row, the reader declared first.
SPECIFICATION Spec
CONSTANTS
    r1 = r1
    r2 = r2
    r3 = r3
    v1 = v1
    v2 = v2
    s1 = s1
    None = None
    Absent = Absent
    Link = "parent"
    Recs <- TwoRecs
    Vals <- MCVals
    Sessions <- OneSession
    Base <- Amount
    Decl <- LateDecl
    Stored <- LateStored
    Lazy <- NoFields
    Depends <- LateDepends
    WriteVals <- DownWrites
    CreateVals <- DownCreates
    Reads <- NoFields
    Unlinks = FALSE
    OnDelete = "RESTRICT"
    MaxOps = 1
SYMMETRY MCSymmetry
INVARIANTS
    StoredUpToDate
