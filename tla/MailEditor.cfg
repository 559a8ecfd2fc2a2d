\* One user with the template form open, answers in any order.
SPECIFICATION Spec
CONSTANTS
    word = word
    table = table
    partner = partner
    order = order
    None = None
    Tokens <- MCTokens
    Rich <- MCRich
    Models <- MCModels
    Bodies <- MCBodies
    MaxMounts = 2
    MaxSearches = 2
    MaxCalls = 2
    MaxActs = 4
INVARIANTS
    TypeOK
    EditorsInOrder
    NewestSearchWins
    PreviewOfModel
PROPERTIES
    EditsStay
    TabsMount
    SpinnersStop
\* A user who has used up MaxActs events stops, and a destroyed form is gone.
CHECK_DEADLOCK FALSE
