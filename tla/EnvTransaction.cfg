\* Two environments of one connection, both opening blocks, three deep.
SPECIFICATION Spec
CONSTANTS
    k1 = k1
    k2 = k2
    old = old
    new = new
    request = request
    scoped = scoped
    Absent = Absent
    Keys <- MCKeys
    Vals <- MCVals
    Envs <- MCEnvs
    TxEnvs <- MCEnvs
    MaxNest = 3
    MaxSaves = 3
SYMMETRY MCSymmetry
INVARIANTS
    TypeOK
    CleanHandover
PROPERTIES
    AtomicWhileRegular
    CacheLostOnlyByUndo
