\* One request at a time; computed fields over One2many paths; children do not move.
SPECIFICATION Spec
CONSTANTS
    r1 = r1
    r2 = r2
    r3 = r3
    v1 = v1
    v2 = v2
    s1 = s1
    None = None
    Absent = Absent
    Link = "parent"
    Recs <- ThreeRecs
    Vals <- MCVals
    Sessions <- OneSession
    Base <- Amount
    Decl <- DownDecl
    Stored <- DownStored
    Lazy <- DownLazy
    Depends <- DownDepends
    WriteVals <- DownWrites
    CreateVals <- DownCreates
    Reads <- DownReads
    Unlinks = FALSE
    OnDelete = "RESTRICT"
    MaxOps = 1
SYMMETRY MCSymmetry
INVARIANTS
    TypeOK
    StoredUpToDate
    LazyUpToDate
    StaleIsPending
