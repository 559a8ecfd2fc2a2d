\* Two approvers in turn, one request at a time.
SPECIFICATION Spec
CONSTANTS
    root = root
    ann = ann
    bob = bob
    s1 = s1
    s2 = s2
    None = None
    Root = root
    Users <- MCUsers
    Slots <- OneSlot
    States <- TwoStepStates
    Start = "draft"
    Transitions <- InTurnKeys
    Tr <- InTurn
    MaxApprovals = 5
PROPERTIES
    SequentialAsksEverybody
\* The instance is at rest in a state no transition leaves.
CHECK_DEADLOCK FALSE
