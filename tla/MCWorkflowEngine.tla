-------------------------- MODULE MCWorkflowEngine --------------------------
(***************************************************************************)
(* Instances of WorkflowEngine for TLC.                                    *)
(***************************************************************************)
EXTENDS WorkflowEngine, TLC

CONSTANTS root, ann, bob, s1, s2

MCUsers == {root, ann, bob}
OneSlot == {s1}
TwoSlots == {s1, s2}
SlotsAlike == Permutations(TwoSlots)

Rule(from, to, reject, kind, strategy, group, escalate) ==
    [from |-> from, to |-> to, reject_to |-> reject, kind |-> kind,
     strategy |-> strategy, assignee_type |-> "group", group |-> group,
     deadline |-> escalate /= {}, escalate |-> escalate]
UserMove(from, to) == Rule(from, to, to, "user", "any", <<>>, {})

(* A review by either of two, escalated to one of them, then a signature   *)
(* of both; or the two in turn, and that is all. A rejected document stays *)
(* rejected.                                                               *)
TwoStepStates == {"draft", "review", "approved", "rejected", "filed"}
TwoStepKeys == {"submit", "sign", "reset", "file"}
TwoStep ==
    [submit |-> Rule({"draft"}, "review", "rejected", "approval", "any", <<ann, bob>>, {bob}),
     sign |-> Rule({"review"}, "approved", "rejected", "approval", "all", <<ann, bob>>, {}),
     reset |-> Rule({"approved"}, "draft", "draft", "automatic", "any", <<>>, {}),
     file |-> Rule({"draft"}, "filed", "rejected", "approval", "sequential", <<ann, bob>>, {})]

(* It is as the properties of the run ask.                                 *)
ASSUME TwoStepIsRegular ==
    Tr = TwoStep => /\ OneWayIn /\ RejectionEnds /\ JointRejectionEnds
                    /\ JointNotEscalated /\ JointWithoutRoot

(* Bound: once a transition or the cron has met another request, no        *)
(* approval is followed beyond the third.                                  *)
Bound == crossed => Len(approvals) <= 3

(* The definition that pyvelm/modules/workflow/hooks.py seeds.             *)
PartnerKeys == {"submit", "approve_direct", "reset"}
PartnerOnboarding ==
    [submit |-> Rule({"draft"}, "approved", "rejected", "approval", "any", <<ann>>, {}),
     approve_direct |-> UserMove({"review"}, "approved"),
     reset |-> UserMove({"review", "approved", "rejected"}, "draft")]

(* Two approvers in turn.                                                  *)
InTurnKeys == {"sign"}
InTurn == [sign |-> Rule({"draft"}, "approved", "rejected", "approval", "sequential", <<ann, bob>>, {})]
=============================================================================
