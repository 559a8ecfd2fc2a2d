\* The seeded partner workflow, one request at a time.
SPECIFICATION Spec
CONSTANTS
    root = root
    ann = ann
    bob = bob
    s1 = s1
    s2 = s2
    None = None
    Root = root
    Users <- MCUsers
    Slots <- OneSlot
    States <- TwoStepStates
    Start = "draft"
    Transitions <- PartnerKeys
    Tr <- PartnerOnboarding
    MaxApprovals = 5
INVARIANTS
    OneApproverIsEnough
