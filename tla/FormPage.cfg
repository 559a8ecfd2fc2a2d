\* One user at one form, answers late, in any order or lost.
SPECIFICATION Spec
CONSTANTS
    empty = empty
    good = good
    bad = bad
    day = day
    night = night
    noon = noon
    braces = braces
    word = word
    Midnight = Midnight
    Empty = Empty
    Nobody = Nobody
    None = None
    Blank = empty
    Vals <- MCVals
    Rejected <- MCRejected
    Dates <- MCDates
    Times <- MCTimes
    Tokens <- MCTokens
    Rich <- MCRich
    Records <- MCRecords
    Language = "json"
    Cols = 2
    MaxRows = 4
    MaxLost = 1
    MaxActs = 6
INVARIANTS
    FormTypeOK
    KeysDistinct
    CreatedOnce
    PanelInOrder
    ShownIsPosted
PROPERTIES
    StoredAsShown
    RedrawKeepsEdits
    TabWalks
\* A user who has used up MaxActs events stops.
CHECK_DEADLOCK FALSE
