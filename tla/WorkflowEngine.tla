--------------------------- MODULE WorkflowEngine ---------------------------
(***************************************************************************)
(* One running workflow (pyvelm/workflow/engine.py): apply_transition,     *)
(* approve, and the escalation cron (pyvelm/workflow/escalation.py), run   *)
(* by requests that overlap. Every search and every write of a request     *)
(* commits by itself and is a step of its own: no transaction holds them   *)
(* together and no row is locked in between. Form values are left out: of  *)
(* stage_data only the queue of a sequential approval matters.             *)
(***************************************************************************)
EXTENDS Naturals, SequencesExt

CONSTANTS
    Users, Root,   \* res.users, and the superuser (uid 1) among them
    States, Start, \* of the definition; Start is the initial one
    Transitions,   \* keys
    Tr,            \* Transitions -> what the definition says of each
    Slots,         \* requests and cron ticks being served
    None,
    MaxApprovals   \* bound: rows of workflow.approval

Strategies == {"any", "all", "sequential"}

(* `group` is the sequence of members, as User.search lists them (each     *)
(* once), or the one approver of type "user" (without one the transition   *)
(* is refused);                                                            *)
(* `escalate` the members of escalate_to_group_id, {} when not configured. *)
TransitionDef ==
    [from : SUBSET States, to : States, reject_to : States,
     kind : {"user", "automatic", "approval"}, strategy : Strategies,
     assignee_type : {"user", "group", "field"}, group : Seq(Users),
     deadline : BOOLEAN, escalate : SUBSET Users]

ASSUME WorkflowAssumption ==
    /\ Root \in Users /\ Start \in States /\ None \notin Users \cup Transitions
    /\ Tr \in [Transitions -> TransitionDef]
    /\ \A t \in Transitions :
         /\ IsInjective(Tr[t].group)
         /\ Tr[t].assignee_type = "user" => Tr[t].group /= <<>>
    /\ MaxApprovals \in Nat

VARIABLES
    state,       \* workflow.instance.state
    pending,     \* workflow.instance.pending_transition
    wf_queue,    \* stage_data["_wf_queue"]
    approvals,   \* workflow.approval, in the order of creation
    task,        \* the users with an open workflow.task for the instance
    req,         \* what each slot is doing
    round,       \* history: approval rounds submitted so far
    overlapped,  \* history: two requests have been served at once
    crossed      \* history: two that were not both of approvers

vars == <<state, pending, wf_queue, approvals, task, req, round, overlapped, crossed>>

Assignee == [who : SUBSET Users, user : Users \cup {None}]
Approval ==
    [tr : Transitions, status : {"pending", "approved", "rejected", "cancelled"},
     who : SUBSET Users, user : Users \cup {None},
     round : Nat, signed : BOOLEAN]   \* histories: of which round; ever approved

(* How far a request is, with what it has read. Approval rows are created  *)
(* one after another; `then` is what the request does after the last one.  *)
Idle == [pc |-> "idle"]
Submitting ==
    [pc : {"enqueue", "submit"}, tr : Transitions, queue : Seq(Assignee), later : Seq(Assignee)]
Escalating == [pc : {"escalate"}, batch : SUBSET (1 .. MaxApprovals)]
Creating ==
    [pc : {"create", "assign"}, tr : Transitions, round : Nat, todo : Seq(Assignee) \ {<<>>},
     then : {Idle} \cup Submitting \cup Escalating]
Acting == [pc : {"act", "close"}, user : Users, appr : 1 .. MaxApprovals, ok : BOOLEAN]
Approving == {"act", "close", "settle", "queue", "waiting", "count", "move"}
Request ==
    {Idle} \cup Submitting \cup Escalating \cup Creating \cup Acting
      \cup [pc : {"transition"}, tr : Transitions, queue : Seq(Assignee)]
      \cup [pc : {"settle"}, appr : 1 .. MaxApprovals, ok : BOOLEAN]
      \cup [pc : {"queue", "waiting", "count", "move"}, appr : 1 .. MaxApprovals]
      \cup [pc : {"advance"}, appr : 1 .. MaxApprovals, queue : Seq(Assignee) \ {<<>>}]

TypeOK ==
    /\ state \in States /\ pending \in Transitions \cup {None}
    /\ wf_queue \in Seq(Assignee)
    /\ approvals \in Seq(Approval) /\ Len(approvals) <= MaxApprovals
    /\ task \in SUBSET Users
    /\ \A s \in Slots : req[s] \in Request
    /\ round \in Nat /\ overlapped \in BOOLEAN /\ crossed \in BOOLEAN

(* WorkflowEngine.start has just created the instance.                     *)
Init ==
    /\ state = Start /\ pending = None /\ wf_queue = <<>>
    /\ approvals = <<>> /\ task = {}
    /\ req = [s \in Slots |-> Idle]
    /\ round = 0 /\ overlapped = FALSE /\ crossed = FALSE

Open(s, r) ==
    /\ req[s] = Idle
    /\ req' = [req EXCEPT ![s] = r]
    /\ overlapped' = (overlapped \/ \E o \in Slots : req[o] /= Idle)
    /\ crossed' = (crossed \/ \E o \in Slots :
                      req[o] /= Idle /\ ~(r.pc = "act" /\ req[o].pc \in Approving))
    /\ UNCHANGED <<state, pending, wf_queue, approvals, task, round>>

Goto(s, r) == req' = [req EXCEPT ![s] = r] /\ UNCHANGED <<overlapped, crossed>>
-----------------------------------------------------------------------------
(* apply_transition.                                                       *)

UserMayTrigger(t, u) == u = Root \/ Tr[t].kind /= "automatic"

(* _resolve_assignees: one approver, each member of a group, or the group. *)
OneUser(u) == [who |-> {u}, user |-> u]
Group(us) == [who |-> us, user |-> None]
Resolve(t) ==
    LET g == Tr[t].group
    IN  CASE Tr[t].assignee_type = "user" -> {<<OneUser(Head(g))>>}
          [] Tr[t].assignee_type = "field" -> {<<OneUser(u)>> : u \in Users}
          [] Tr[t].strategy \in {"all", "sequential"} /\ g /= <<>> ->
                {[i \in DOMAIN g |-> OneUser(g[i])]}
          [] OTHER -> {<<Group(ToSet(g))>>}

(* _create_approval: a row for the next assignee on the list, and then a   *)
(* task, if that is one user.                                              *)
NewApproval(t, spec, n) ==
    [tr |-> t, status |-> "pending", who |-> spec.who, user |-> spec.user,
     round |-> n, signed |-> FALSE]
Created(r) == IF Len(r.todo) = 1 THEN r.then ELSE [r EXCEPT !.pc = "create", !.todo = Tail(@)]

(* Mutant: a task is made for the whole group too, that is for nobody.     *)
OfOneUserOrNobody(spec) == TRUE
OfOneUser(spec) == spec.user /= None

Create(s) ==
    /\ req[s].pc = "create" /\ Len(approvals) < MaxApprovals
    /\ LET r == req[s]
           spec == Head(r.todo)
       IN  /\ approvals' = Append(approvals, NewApproval(r.tr, spec, r.round))
           /\ Goto(s, IF OfOneUser(spec) THEN [r EXCEPT !.pc = "assign"] ELSE Created(r))
    /\ UNCHANGED <<state, pending, wf_queue, task, round>>

Assign(s) ==
    /\ req[s].pc = "assign"
    /\ task' = task \cup {Head(req[s].todo).user}
    /\ Goto(s, Created(req[s]))
    /\ UNCHANGED <<state, pending, wf_queue, approvals, round>>

(* Mutant: the state the instance is in is not looked at.                  *)
TransitionOpenAnywhere(s, u, t) ==
    /\ pending = None
    /\ UserMayTrigger(t, u)
    /\ Open(s, [pc |-> "transition", tr |-> t, queue |-> wf_queue])

(* Mutant: the instance moves on and goes on waiting.                      *)
MoveToStillWaiting(to) == state' = to /\ UNCHANGED pending

(* The instance is read; a transition that is not allowed ends here.       *)
TransitionOpen(s, u, t) ==
    /\ pending = None
    /\ state \in Tr[t].from
    /\ UserMayTrigger(t, u)
    /\ Open(s, [pc |-> "transition", tr |-> t, queue |-> wf_queue])

MoveTo(to) == state' = to /\ pending' = None

TransitionMove(s) ==
    /\ req[s].pc = "transition" /\ Tr[req[s].tr].kind /= "approval"
    /\ MoveTo(Tr[req[s].tr].to)
    /\ wf_queue' = req[s].queue
    /\ Goto(s, Idle)
    /\ UNCHANGED <<approvals, task, round>>

(* _start_approval: the approvers are resolved and their rows come next;   *)
(* of a sequential approval only the first one's.                          *)
TransitionSubmit(s) ==
    /\ req[s].pc = "transition" /\ Tr[req[s].tr].kind = "approval"
    /\ round' = round + 1
    /\ LET t == req[s].tr
           write(pc, later) == [pc |-> pc, tr |-> t, queue |-> req[s].queue, later |-> later]
           rows(specs, then) ==
             [pc |-> "create", tr |-> t, round |-> round + 1, todo |-> specs, then |-> then]
       IN  \E specs \in Resolve(t) :
             Goto(s, IF Tr[t].strategy = "sequential"
                     THEN rows(<<Head(specs)>>, write("enqueue", Tail(specs)))
                     ELSE rows(specs, write("submit", <<>>)))
    /\ UNCHANGED <<state, pending, wf_queue, approvals, task>>

(* _start_approval stores the queue of the later approvers, in a copy of   *)
(* stage_data.                                                             *)
Enqueue(s) ==
    /\ req[s].pc = "enqueue"
    /\ wf_queue' = req[s].later
    /\ Goto(s, [req[s] EXCEPT !.pc = "submit"])
    /\ UNCHANGED <<state, pending, approvals, task, round>>

(* The write of apply_transition that follows stores the original, with    *)
(* the queue read at the start.                                            *)
Submit(s) ==
    /\ req[s].pc = "submit"
    /\ pending' = req[s].tr /\ wf_queue' = req[s].queue
    /\ Goto(s, Idle)
    /\ UNCHANGED <<state, approvals, task, round>>
-----------------------------------------------------------------------------
(* approve.                                                                *)

UserMayActOnApproval(i, u) == u = Root \/ u \in approvals[i].who

(* Mutant: a decision may be taken over again.                             *)
ApproveOpenAgain(s, u, i, ok) ==
    /\ UserMayActOnApproval(i, u)
    /\ Open(s, [pc |-> "act", user |-> u, appr |-> i, ok |-> ok])

(* Mutant: every task of the instance is closed with the first decision.   *)
ApproveCloseAll(s) ==
    /\ req[s].pc = "close"
    /\ task' = {}
    /\ Goto(s, [pc |-> "settle", appr |-> req[s].appr, ok |-> req[s].ok])
    /\ UNCHANGED <<state, pending, wf_queue, approvals, round>>

ApproveOpen(s, u, i, ok) ==
    /\ approvals[i].status = "pending"
    /\ UserMayActOnApproval(i, u)
    /\ Open(s, [pc |-> "act", user |-> u, appr |-> i, ok |-> ok])

(* The decision is recorded, whatever the row says by now.                 *)
Decided(a, ok) ==
    [a EXCEPT !.status = IF ok THEN "approved" ELSE "rejected", !.signed = a.signed \/ ok]
ApproveAct(s) ==
    /\ req[s].pc = "act"
    /\ approvals' = [approvals EXCEPT ![req[s].appr] = Decided(@, req[s].ok)]
    /\ Goto(s, [req[s] EXCEPT !.pc = "close"])
    /\ UNCHANGED <<state, pending, wf_queue, task, round>>

(* The open tasks of whoever took it are closed.                           *)
ApproveClose(s) ==
    /\ req[s].pc = "close"
    /\ task' = task \ {req[s].user}
    /\ Goto(s, [pc |-> "settle", appr |-> req[s].appr, ok |-> req[s].ok])
    /\ UNCHANGED <<state, pending, wf_queue, approvals, round>>

Rows(t, status) == {i \in DOMAIN approvals : approvals[i].tr = t /\ approvals[i].status = status}
Deciding(s) == approvals[req[s].appr].tr

SettleReject(s) ==
    /\ req[s].pc = "settle" /\ ~req[s].ok
    /\ MoveTo(Tr[Deciding(s)].reject_to)
    /\ Goto(s, Idle)
    /\ UNCHANGED <<wf_queue, approvals, task, round>>

(* Mutant: rows still pending do not count against it.                     *)
NobodyElseLooks(t) == FALSE

(* _approvals_complete, over all the rows of the transition: a search for  *)
(* pending ones,                                                           *)
SomebodyElse(t) == Rows(t, "pending") /= {}
SettleSearch(s) ==
    /\ req[s].pc = "settle" /\ req[s].ok
    /\ LET t == Deciding(s)
           look(pc) == [pc |-> pc, appr |-> req[s].appr]
       IN  Goto(s, IF ~SomebodyElse(t) THEN look("queue")
                   ELSE IF Tr[t].strategy = "sequential" THEN look("waiting") ELSE Idle)
    /\ UNCHANGED <<state, pending, wf_queue, approvals, task, round>>

(* then the queue, which _maybe_advance_sequential reads if this does not, *)
SettleQueue(s) ==
    /\ req[s].pc \in {"queue", "waiting"}
    /\ Goto(s, IF wf_queue = <<>>
               THEN IF req[s].pc = "queue" THEN [req[s] EXCEPT !.pc = "count"] ELSE Idle
               ELSE IF Tr[Deciding(s)].strategy = "sequential"
                    THEN [pc |-> "advance", appr |-> req[s].appr, queue |-> wf_queue]
                    ELSE Idle)
    /\ UNCHANGED <<state, pending, wf_queue, approvals, task, round>>

(* then a search for the others. The row just decided is in the cache of   *)
(* the request as it has written it.                                       *)
Counted(s, t) ==
    LET is(status) == Rows(t, status) \ {req[s].appr}
    IN  is("rejected") = {} /\ (Tr[t].strategy = "all" => is("cancelled") = {})
SettleCount(s) ==
    /\ req[s].pc = "count"
    /\ Goto(s, IF Counted(s, Deciding(s)) THEN [req[s] EXCEPT !.pc = "move"] ELSE Idle)
    /\ UNCHANGED <<state, pending, wf_queue, approvals, task, round>>

(* The move, whatever has been decided or submitted since.                 *)
SettleMove(s) ==
    /\ req[s].pc = "move"
    /\ MoveTo(Tr[Deciding(s)].to)
    /\ Goto(s, Idle)
    /\ UNCHANGED <<wf_queue, approvals, task, round>>

(* _maybe_advance_sequential asks the next approver.                       *)
Advance(s) ==
    /\ req[s].pc = "advance"
    /\ LET a == approvals[req[s].appr]
           q == req[s].queue
       IN  /\ wf_queue' = Tail(q)
           /\ Goto(s, [pc |-> "create", tr |-> a.tr, round |-> a.round,
                       todo |-> <<Head(q)>>, then |-> Idle])
    /\ UNCHANGED <<state, pending, approvals, task, round>>
-----------------------------------------------------------------------------
(* process_overdue_approvals: one search, then one approval at a time. An  *)
(* approval with a deadline may be overdue whenever the cron looks.        *)

EscalateOpen(s, batch) ==
    /\ batch /= {} /\ batch \subseteq DOMAIN approvals
    /\ \A i \in batch : approvals[i].status = "pending" /\ Tr[approvals[i].tr].deadline
    /\ Open(s, [pc |-> "escalate", batch |-> batch])

(* _escalate_one cancels the row, and then a row of the group is created;  *)
(* without a group to escalate to, only a chatter line.                    *)
EscalateOne(s, i) ==
    /\ req[s].pc = "escalate" /\ i \in req[s].batch
    /\ LET a == approvals[i]
           group == Tr[a.tr].escalate
           rest == IF req[s].batch = {i} THEN Idle ELSE [req[s] EXCEPT !.batch = @ \ {i}]
       IN  IF group = {} THEN Goto(s, rest) /\ UNCHANGED approvals
           ELSE /\ approvals' = [approvals EXCEPT ![i].status = "cancelled"]
                /\ Goto(s, [pc |-> "create", tr |-> a.tr, round |-> a.round,
                            todo |-> <<Group(group)>>, then |-> rest])
    /\ UNCHANGED <<state, pending, wf_queue, task, round>>

Next == \E s \in Slots :
    \/ \E u \in Users, t \in Transitions : TransitionOpen(s, u, t)
    \/ TransitionMove(s) \/ TransitionSubmit(s)
    \/ Create(s) \/ Assign(s) \/ Enqueue(s) \/ Submit(s)
    \/ \E u \in Users, i \in DOMAIN approvals, ok \in BOOLEAN : ApproveOpen(s, u, i, ok)
    \/ ApproveAct(s) \/ ApproveClose(s)
    \/ SettleReject(s) \/ SettleSearch(s) \/ SettleQueue(s)
    \/ SettleCount(s) \/ SettleMove(s) \/ Advance(s)
    \/ \E batch \in SUBSET DOMAIN approvals : EscalateOpen(s, batch)
    \/ \E i \in DOMAIN approvals : EscalateOne(s, i)

Spec == Init /\ [][Next]_vars
-----------------------------------------------------------------------------
(* What some properties ask of a definition. The engine does not.          *)

Approved(t) == Tr[t].kind = "approval"
Joint(t) == Approved(t) /\ Tr[t].strategy = "all"

(* Nothing else leads where an approval leads.                             *)
OneWayIn ==
    \A t, u \in Transitions :
        (Approved(t) /\ t /= u) => Tr[t].to \notin {Tr[u].to, Tr[u].reject_to}

(* No transition leaves the state of a rejection, if others still sign; if *)
(* anybody does.                                                           *)
JointRejectionEnds ==
    \A t, u \in Transitions : Joint(t) => Tr[t].reject_to \notin Tr[u].from
RejectionEnds ==
    \A t, u \in Transitions : Approved(t) => Tr[t].reject_to \notin Tr[u].from

(* What all must sign is not escalated; nor is the superuser among them,   *)
(* who may sign for each.                                                  *)
JointNotEscalated == \A t \in Transitions : Joint(t) => Tr[t].escalate = {}
JointWithoutRoot == \A t \in Transitions : Joint(t) => Root \notin ToSet(Tr[t].group)
-----------------------------------------------------------------------------
(* Properties.                                                             *)

AtRest == \A s \in Slots : req[s] = Idle
OfRound(t) == {i \in DOMAIN approvals : approvals[i].tr = t /\ approvals[i].round = round}

(* However approvers overlap, an approval completes a transition only with *)
(* the signatures its strategy asks for, all given since the transition    *)
(* was last submitted: one for "any", for "all" one of every approver      *)
(* (docs/workflow.md:22). A submission or an escalation served at the same *)
(* time can break it: a move that stalls completes what has been submitted *)
(* again since, and rows are seen before the last of them is there.        *)
SignedOff(t) ==
    LET ok == {i \in OfRound(t) : approvals[i].signed}
    IN  CASE Tr[t].strategy = "all" ->
               \E specs \in Resolve(t) : \A k \in DOMAIN specs :
                 \E i \in ok : approvals[i].who = specs[k].who
          [] OTHER -> ok /= {}
CompletedWhenSigned ==
    [][\A t \in Transitions :
         (/\ ~crossed /\ pending = t /\ pending' = None
          /\ state' = Tr[t].to /\ state' /= Tr[t].reject_to)
           => SignedOff(t)]_vars

(* An instance that waits for an approval has one somebody can still give. *)
(* Without it no transition is offered (available_transitions) and nothing *)
(* in the inbox can end the wait.                                          *)
NeverStuck ==
    (AtRest /\ ~overlapped /\ pending /= None) => Rows(pending, "pending") /= {}

(* One request at a time, a decision once taken is not taken again or      *)
(* overwritten, by another approver or by the cron.                        *)
DecisionsStand ==
    [][~overlapped' =>
         \A i \in DOMAIN approvals :
           approvals[i].status /= "pending" => approvals'[i] = approvals[i]]_vars

(* One request at a time, the instance moves along the definition only.    *)
MovesAlongDefinition ==
    [][(~overlapped' /\ state' /= state) =>
         \E t \in Transitions : state \in Tr[t].from /\ state' \in {Tr[t].to, Tr[t].reject_to}]_vars

(* An approver who still has to sign finds a task ("Assigned approvers     *)
(* also get a workflow.task row", docs/workflow.md:34).                    *)
TaskWhileWaiting ==
    (AtRest /\ ~overlapped) => \A i \in DOMAIN approvals :
        (approvals[i].status = "pending" /\ approvals[i].user /= None) =>
            approvals[i].user \in task

(* "Approvers act one after another" (docs/workflow.md:24): the instance   *)
(* moves on when each of them has.                                         *)
SequentialAsksEverybody ==
    [][\A t \in Transitions :
         (Tr[t].strategy = "sequential" /\ pending = t /\ pending' = None /\ state' = Tr[t].to)
           => \A specs \in Resolve(t) : \A k \in DOMAIN specs :
                \E i \in OfRound(t) : approvals[i].user = specs[k].user]_vars

(* "One approver from the group is enough" (docs/workflow.md:22): once one *)
(* has approved, the instance no longer waits for that round.              *)
OneApproverIsEnough ==
    (AtRest /\ ~overlapped /\ pending /= None /\ Tr[pending].strategy = "any") =>
        \A i \in OfRound(pending) : approvals[i].status /= "approved"
=============================================================================
