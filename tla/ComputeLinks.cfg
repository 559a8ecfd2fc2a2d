\* One request at a time; computed fields over Many2one paths.
SPECIFICATION Spec
CONSTANTS
    r1 = r1
    r2 = r2
    r3 = r3
    v1 = v1
    v2 = v2
    s1 = s1
    None = None
    Absent = Absent
    Link = "parent"
    Recs <- TwoRecs
    Vals <- MCVals
    Sessions <- OneSession
    Base <- Name
    Decl <- UpDecl
    Stored <- UpStored
    Lazy <- UpLazy
    Depends <- UpDepends
    WriteVals <- UpWrites
    CreateVals <- UpCreates
    Reads <- UpReads
    Unlinks = TRUE
    OnDelete = "RESTRICT"
    MaxOps = 2
SYMMETRY MCSymmetry
INVARIANTS
    StoredUpToDate
    CacheMirrorsRows
    LazyUpToDate
    StaleIsPending
