\* Two requests at a time over a two-step approval.
SPECIFICATION Spec
CONSTANTS
    root = root
    ann = ann
    bob = bob
    s1 = s1
    s2 = s2
    None = None
    Root = root
    Users <- MCUsers
    Slots <- TwoSlots
    States <- TwoStepStates
    Start = "draft"
    Transitions <- TwoStepKeys
    Tr <- TwoStep
    MaxApprovals = 5
SYMMETRY SlotsAlike
CONSTRAINT Bound
INVARIANTS
    TypeOK
    NeverStuck
    TaskWhileWaiting
PROPERTIES
    CompletedWhenSigned
    DecisionsStand
    MovesAlongDefinition
\* The instance is at rest in a state no transition leaves.
CHECK_DEADLOCK FALSE
