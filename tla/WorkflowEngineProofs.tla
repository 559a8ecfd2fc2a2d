------------------------ MODULE WorkflowEngineProofs ------------------------
(***************************************************************************)
(* Proofs about WorkflowEngine: for any definition, users and requests,    *)
(* and then, under what each theorem asks of the definition, how approvals *)
(* come to an end.                                                         *)
(***************************************************************************)
EXTENDS WorkflowEngine, SequenceTheorems, TLAPS

(* What a request does once its rows are created.                          *)
Making == {"create", "assign"}
After(r) == IF r.pc \in Making THEN r.then ELSE r
Submits(r) == After(r).pc \in {"enqueue", "submit"}

(* Requests are about rows there are.                                      *)
Fits(r, rows) ==
    /\ r.pc \in Approving \cup {"advance"} => r.appr \in DOMAIN rows
    /\ After(r).pc = "escalate" => After(r).batch \subseteq DOMAIN rows
    /\ r.pc = "assign" => Head(r.todo).user # None
RowsExist == \A s \in Slots : Fits(req[s], approvals)

(* One request at a time.                                                  *)
Alone ==
    /\ ~overlapped => \A s, o \in Slots : req[s] # Idle /\ req[o] # Idle => s = o
    /\ ~overlapped => ~crossed

(* What is about to be decided, or cancelled, still waits for a decision.  *)
Waits(r, rows) ==
    /\ r.pc = "act" => rows[r.appr].status = "pending"
    /\ After(r).pc = "escalate" => \A i \in After(r).batch : rows[i].status = "pending"
Undecided == ~overlapped => \A s \in Slots : Waits(req[s], approvals)

Served == req = [s \in Slots |-> req[s]]

IInv == TypeOK /\ Served /\ RowsExist /\ Alone /\ Undecided
-----------------------------------------------------------------------------
(* Requests.                                                               *)

LEMMA IdleIs == Idle.pc = "idle" /\ Idle \in Request /\ After(Idle) = Idle
BY DEF Idle, Request, After, Making

(* What a request holds goes with how far it is.                           *)
LEMMA RequestKinds ==
    ASSUME NEW r \in Request
    PROVE  /\ r.pc = "idle" => r = Idle
           /\ r.pc = "transition" =>
                r \in [pc : {"transition"}, tr : Transitions, queue : Seq(Assignee)]
           /\ r.pc \in Making => r \in Creating
           /\ r.pc \in {"enqueue", "submit"} => r \in Submitting
           /\ r.pc \in {"act", "close"} => r \in Acting
           /\ r.pc = "settle" => r \in [pc : {"settle"}, appr : 1 .. MaxApprovals, ok : BOOLEAN]
           /\ r.pc \in {"queue", "waiting", "count", "move"} =>
                r \in [pc : {"queue", "waiting", "count", "move"}, appr : 1 .. MaxApprovals]
           /\ r.pc = "advance" => r \in [pc : {"advance"}, appr : 1 .. MaxApprovals,
                                         queue : Seq(Assignee) \ {<<>>}]
           /\ r.pc = "escalate" => r \in Escalating
           /\ r.pc # "idle" => r # Idle
BY IdleIs DEF Request, Making, Creating, Submitting, Escalating, Acting

(* A step of one request leaves the others alone.                          *)
Frame(s) ==
    /\ \A q \in Slots : q # s => req'[q] = req[q]
    /\ UNCHANGED <<overlapped, crossed>>
    /\ ~overlapped => \A q \in Slots : q # s => req[q] = Idle /\ req[q].pc = "idle"

LEMMA OneRequest ==
    ASSUME Served, NEW s \in Slots, NEW r, req' = [req EXCEPT ![s] = r]
    PROVE  /\ Served' /\ req'[s] = r /\ \A q \in Slots : q # s => req'[q] = req[q]
BY DEF Served

LEMMA GotoFrame ==
    ASSUME IInv, NEW s \in Slots, req[s].pc # "idle", NEW r, Goto(s, r)
    PROVE  Frame(s) /\ Served' /\ req'[s] = r
<1>1. req' = [req EXCEPT ![s] = r] /\ UNCHANGED <<overlapped, crossed>>
  BY DEF Goto
<1>2. Served' /\ req'[s] = r /\ \A q \in Slots : q # s => req'[q] = req[q]
  BY <1>1, OneRequest DEF IInv
<1>3. req[s] # Idle
  BY IdleIs
<1>4. ~overlapped => \A q \in Slots : q # s => req[q] = Idle /\ req[q].pc = "idle"
  BY <1>3, IdleIs DEF IInv, Alone
<1>. QED  BY <1>1, <1>2, <1>4 DEF Frame

(* What a step has to see to for the invariant.                            *)
Sound(s) ==
    /\ Frame(s) /\ Served' /\ req[s].pc # "idle"
    /\ req'[s] \in Request /\ Fits(req'[s], approvals')
    /\ ~overlapped => Waits(req'[s], approvals')
    /\ DOMAIN approvals \subseteq DOMAIN approvals'
Typed ==
    /\ state \in States /\ pending \in Transitions \cup {None}
    /\ wf_queue \in Seq(Assignee)
    /\ approvals \in Seq(Approval) /\ Len(approvals) <= MaxApprovals
    /\ task \in SUBSET Users /\ round \in Nat
LEMMA SoundKeeps ==
    ASSUME IInv, NEW s \in Slots, Sound(s), Typed'
    PROVE  IInv'
<1>1. /\ \A q \in Slots : q # s => req'[q] = req[q]
      /\ UNCHANGED <<overlapped, crossed>>
      /\ ~overlapped => \A q \in Slots : q # s => req[q] = Idle /\ req[q].pc = "idle"
      /\ Served' /\ req'[s] \in Request /\ Fits(req'[s], approvals')
      /\ ~overlapped => Waits(req'[s], approvals')
      /\ DOMAIN approvals \subseteq DOMAIN approvals'
  BY DEF Sound, Frame
<1>2. TypeOK'
  BY <1>1 DEF IInv, TypeOK, Typed
<1>3. RowsExist'
  BY <1>1 DEF IInv, RowsExist, Fits
<1>4. Alone'
  BY <1>1 DEF IInv, Alone
<1>5. ~overlapped => \A q \in Slots : q # s => Waits(req[q], approvals')
  BY <1>1, IdleIs DEF Waits
<1>6. Undecided'
  BY <1>1, <1>5 DEF Undecided
<1>. QED  BY <1>1, <1>2, <1>3, <1>4, <1>6 DEF IInv

(* Nothing is claimed of requests that do not act on rows.                 *)
LEMMA Harmless ==
    ASSUME NEW r, NEW rows,
           After(r).pc # "escalate", r.pc \notin Approving \cup {"advance", "assign"}
    PROVE  Fits(r, rows) /\ Waits(r, rows)
BY DEF Fits, Waits, Approving
-----------------------------------------------------------------------------
(* Rows.                                                                   *)

LEMMA AppendedRow ==
    ASSUME NEW rows \in Seq(Approval), NEW a \in Approval
    PROVE  LET n == Len(rows) + 1
               more == Append(rows, a)
           IN  /\ more \in Seq(Approval) /\ Len(more) = n
               /\ DOMAIN more = DOMAIN rows \cup {n} /\ n \notin DOMAIN rows
               /\ more[n] = a /\ \A i \in DOMAIN rows : more[i] = rows[i]
<1>1. Len(rows) \in Nat /\ DOMAIN rows = 1..Len(rows)
  BY LenProperties
<1>2. /\ Append(rows, a) \in Seq(Approval) /\ Len(Append(rows, a)) = Len(rows) + 1
      /\ \A i \in 1..Len(rows) : Append(rows, a)[i] = rows[i]
      /\ Append(rows, a)[Len(rows) + 1] = a
  BY AppendProperties
<1>3. DOMAIN Append(rows, a) = 1..(Len(rows) + 1)
  BY <1>2, LenProperties
<1>. QED  BY <1>1, <1>2, <1>3

(* One row is rewritten.                                                   *)
LEMMA RewrittenRow ==
    ASSUME approvals \in Seq(Approval), NEW n \in DOMAIN approvals, NEW a \in Approval
    PROVE  LET rows == [approvals EXCEPT ![n] = a]
           IN  /\ rows \in Seq(Approval) /\ Len(rows) = Len(approvals)
               /\ DOMAIN rows = DOMAIN approvals /\ rows[n] = a
               /\ \A i \in DOMAIN approvals : i # n => rows[i] = approvals[i]
<1> DEFINE rows == [approvals EXCEPT ![n] = a]
<1>1. DOMAIN approvals = 1..Len(approvals) /\ Len(approvals) \in Nat
  BY LenProperties
<1>2. /\ rows \in Seq(Approval) /\ Len(rows) = Len(approvals)
      /\ \A i \in 1..Len(approvals) : rows[i] = IF i = n THEN a ELSE approvals[i]
  BY <1>1, ExceptSeq
<1>3. DOMAIN rows = DOMAIN approvals
  OBVIOUS
<1>. QED  BY <1>1, <1>2, <1>3

LEMMA RowIs ==
    ASSUME TypeOK, NEW i \in DOMAIN approvals
    PROVE  /\ approvals[i] \in Approval /\ i \in 1..MaxApprovals
           /\ approvals[i].tr \in Transitions /\ approvals[i].round \in Nat
           /\ approvals[i].who \in SUBSET Users /\ approvals[i].user \in Users \cup {None}
<1>1. /\ DOMAIN approvals = 1..Len(approvals) /\ Len(approvals) \in Nat
      /\ Len(approvals) <= MaxApprovals /\ approvals \in Seq(Approval)
  BY LenProperties DEF TypeOK
<1>2. approvals[i] \in Approval
  BY <1>1, ElementOfSeq
<1>. QED  BY <1>1, <1>2, WorkflowAssumption DEF Approval

(* Approvers are resolved to at least one assignee.                        *)
LEMMA ResolveGives ==
    ASSUME NEW t \in Transitions, NEW specs \in Resolve(t)
    PROVE  specs \in Seq(Assignee) /\ specs # <<>>
<1> DEFINE g == Tr[t].group
<1>1. g \in Seq(Users) /\ (Tr[t].assignee_type = "user" => g # <<>>)
  BY WorkflowAssumption DEF TransitionDef
<1>2. Len(g) \in Nat /\ DOMAIN g = 1..Len(g) /\ \A i \in 1..Len(g) : g[i] \in Users
  BY <1>1, LenProperties, ElementOfSeq
<1> DEFINE each == [i \in DOMAIN g |-> OneUser(g[i])]
<1>3. \/ Tr[t].assignee_type = "user" /\ specs = <<OneUser(Head(g))>>
      \/ \E u \in Users : specs = <<OneUser(u)>>
      \/ g # <<>> /\ specs = each
      \/ specs = <<Group(ToSet(g))>>
  BY DEF Resolve
<1>4. \A u \in Users : OneUser(u) \in Assignee
  BY DEF OneUser, Assignee
<1>5. Group(ToSet(g)) \in Assignee
  <2>1. ToSet(g) \in SUBSET Users
    BY <1>2 DEF ToSet
  <2> HIDE DEF g
  <2>. QED  BY <2>1 DEF Group, Assignee
<1>6. g # <<>> => each \in Seq(Assignee) /\ each # <<>>
  <2>1. each \in [1..Len(g) -> Assignee]
    BY <1>2, <1>4
  <2>2. each \in Seq(Assignee) /\ Len(each) = Len(g)
    BY <1>2, <2>1, SeqDef
  <2>3. g # <<>> => Len(g) # 0
    BY <1>1, EmptySeq
  <2> HIDE DEF each
  <2>. QED  BY <2>2, <2>3, EmptySeq
<1>7. g # <<>> => Head(g) \in Users
  BY <1>1, HeadTailProperties
<1> HIDE DEF g, each
<1>8. \A a \in Assignee : <<a>> \in Seq(Assignee) /\ <<a>> # <<>>
  OBVIOUS
<1>. QED  BY <1>1, <1>3, <1>4, <1>5, <1>6, <1>7, <1>8

LEMMA NewApprovalIs ==
    ASSUME NEW t \in Transitions, NEW spec \in Assignee, NEW n \in Nat
    PROVE  LET a == NewApproval(t, spec, n)
           IN  /\ a \in Approval /\ a.tr = t /\ a.status = "pending" /\ a.round = n
               /\ a.who = spec.who /\ a.user = spec.user /\ ~a.signed
BY DEF NewApproval, Approval, Assignee

(* The list of those still to be asked.                                    *)
LEMMA ListIs ==
    ASSUME NEW q \in Seq(Assignee), q # <<>>
    PROVE  /\ Head(q) \in Assignee /\ Tail(q) \in Seq(Assignee) /\ Len(q) \in Nat \ {0}
           /\ Head(q).user \in Users \cup {None}
           /\ <<Head(q)>> \in Seq(Assignee) \ {<<>>} /\ Len(<<Head(q)>>) = 1
           /\ Len(q) = 1 <=> Tail(q) = <<>>
           /\ DOMAIN q = 1..Len(q) /\ DOMAIN Tail(q) = 1..(Len(q) - 1) /\ q[1] = Head(q)
           /\ \A k \in DOMAIN Tail(q) : k + 1 \in DOMAIN q /\ Tail(q)[k] = q[k + 1]
<1>1. /\ Len(q) \in Nat /\ DOMAIN q = 1..Len(q) /\ Len(q) # 0
  BY LenProperties, EmptySeq
<1>2. /\ Head(q) \in Assignee /\ Tail(q) \in Seq(Assignee) /\ Len(Tail(q)) = Len(q) - 1
      /\ \A k \in 1..Len(Tail(q)) : Tail(q)[k] = q[k + 1]
      /\ Head(q) = q[1]
  BY HeadTailProperties
<1>3. DOMAIN Tail(q) = 1..(Len(q) - 1)
  BY <1>2, LenProperties
<1>4. Tail(q) = <<>> <=> Len(Tail(q)) = 0
  BY <1>2, EmptySeq
<1>5. Head(q).user \in Users \cup {None}
  BY <1>2 DEF Assignee
<1>6. <<Head(q)>> \in Seq(Assignee) \ {<<>>} /\ Len(<<Head(q)>>) = 1
  BY <1>2
<1>. QED  BY <1>1, <1>2, <1>3, <1>4, <1>5, <1>6
-----------------------------------------------------------------------------
(* A request begins.                                                       *)

Opens(s) == \E r \in Request :
    /\ r.pc \in {"transition", "act", "escalate"} /\ Open(s, r)
    /\ r.pc = "transition" =>
         r.queue = wf_queue /\ pending = None /\ state \in Tr[r.tr].from
    /\ r.pc = "act" => UserMayActOnApproval(r.appr, r.user)

LEMMA OpenInv ==
    ASSUME IInv, NEW s \in Slots, NEW r \in Request, Open(s, r), r.pc # "idle",
           Fits(r, approvals), Waits(r, approvals)
    PROVE  IInv'
<1>1. /\ req[s] = Idle /\ req' = [req EXCEPT ![s] = r]
      /\ overlapped' = (overlapped \/ \E o \in Slots : req[o] # Idle)
      /\ crossed' \in BOOLEAN /\ (crossed' => crossed \/ \E o \in Slots : req[o] # Idle)
      /\ UNCHANGED <<state, pending, wf_queue, approvals, task, round>>
  BY DEF Open, IInv, TypeOK
<1>2. Served' /\ req'[s] = r /\ \A q \in Slots : q # s => req'[q] = req[q]
  BY <1>1, OneRequest DEF IInv
<1>3. overlapped' \in BOOLEAN
  BY <1>1 DEF IInv, TypeOK
<1>4. TypeOK'
  BY <1>1, <1>2, <1>3 DEF IInv, TypeOK
<1>5. RowsExist'
  BY <1>1, <1>2 DEF IInv, RowsExist
<1>6. ~overlapped' => ~overlapped /\ ~crossed' /\ \A q \in Slots : req[q] = Idle
  BY <1>1 DEF IInv, Alone
<1>7. Alone'
  BY <1>2, <1>6 DEF Alone
<1>8. Waits(Idle, approvals)
  BY IdleIs DEF Waits
<1>9. Undecided'
  BY <1>1, <1>2, <1>6, <1>8 DEF Undecided
<1>. QED  BY <1>2, <1>4, <1>5, <1>7, <1>9 DEF IInv

-----------------------------------------------------------------------------
(* apply_transition, step by step.                                         *)

LEMMA TransitionOpenInv ==
    ASSUME IInv, NEW s \in Slots, NEW u \in Users, NEW t \in Transitions,
           TransitionOpen(s, u, t)
    PROVE  IInv' /\ Opens(s)
<1> DEFINE r == [pc |-> "transition", tr |-> t, queue |-> wf_queue]
<1>1. /\ r \in Request /\ r.pc = "transition" /\ r.queue = wf_queue /\ r.tr = t
      /\ After(r).pc = "transition"
  BY DEF IInv, TypeOK, Request, After, Making
<1>2. Open(s, r) /\ pending = None /\ state \in Tr[t].from
  BY DEF TransitionOpen
<1> HIDE DEF r
<1>3. Fits(r, approvals) /\ Waits(r, approvals)
  BY <1>1, Harmless DEF Approving
<1>4. Opens(s)
  BY <1>1, <1>2 DEF Opens
<1>. QED  BY <1>1, <1>2, <1>3, <1>4, OpenInv

LEMMA MovedStep ==
    ASSUME IInv, NEW s \in Slots, TransitionMove(s)
    PROVE  /\ Sound(s) /\ Typed' /\ req'[s] = Idle
           /\ req[s].pc = "transition" /\ req[s].tr \in Transitions /\ ~Approved(req[s].tr)
           /\ state' = Tr[req[s].tr].to /\ pending' = None /\ wf_queue' = req[s].queue
           /\ UNCHANGED <<approvals, task, round>>
<1>1. /\ req[s].pc = "transition" /\ Goto(s, Idle) /\ ~Approved(req[s].tr)
      /\ state' = Tr[req[s].tr].to /\ pending' = None /\ wf_queue' = req[s].queue
      /\ UNCHANGED <<approvals, task, round>>
  BY DEF TransitionMove, MoveTo, Approved
<1>2. req[s].tr \in Transitions /\ req[s].queue \in Seq(Assignee)
  BY <1>1, RequestKinds DEF IInv, TypeOK
<1>3. Frame(s) /\ Served' /\ req'[s] = Idle
  BY <1>1, GotoFrame
<1>4. Sound(s)
  BY <1>1, <1>3, IdleIs, Harmless DEF Sound, Approving
<1>5. state' \in States
  BY <1>1, <1>2, WorkflowAssumption DEF TransitionDef
<1>6. Typed'
  BY <1>1, <1>2, <1>5 DEF IInv, TypeOK, Typed
<1>. QED  BY <1>1, <1>2, <1>3, <1>4, <1>6

LEMMA StartedStep ==
    ASSUME IInv, NEW s \in Slots, TransitionSubmit(s)
    PROVE  /\ Sound(s) /\ Typed'
           /\ req[s].pc = "transition" /\ req[s].tr \in Transitions /\ Approved(req[s].tr)
           /\ round' = round + 1 /\ UNCHANGED <<state, pending, wf_queue, approvals, task>>
           /\ req'[s] \in Creating /\ req'[s].pc = "create" /\ req'[s].tr = req[s].tr
           /\ req'[s].round = round' /\ Submits(req'[s])
           /\ req'[s].then.tr = req[s].tr /\ req'[s].then.queue = req[s].queue
           /\ \E specs \in Resolve(req[s].tr) :
                req'[s].todo =
                  IF Tr[req[s].tr].strategy = "sequential" THEN <<Head(specs)>> ELSE specs
<1> DEFINE t == req[s].tr
           write(pc, later) == [pc |-> pc, tr |-> t, queue |-> req[s].queue, later |-> later]
           rows(specs, then) ==
             [pc |-> "create", tr |-> t, round |-> round + 1, todo |-> specs, then |-> then]
<1>1. /\ req[s].pc = "transition" /\ Approved(t) /\ round' = round + 1
      /\ UNCHANGED <<state, pending, wf_queue, approvals, task>>
  BY DEF TransitionSubmit, Approved
<1>2. t \in Transitions /\ req[s].queue \in Seq(Assignee) /\ round \in Nat /\ round + 1 \in Nat
  BY <1>1, RequestKinds DEF IInv, TypeOK
<1>3. PICK specs \in Resolve(t) :
        Goto(s, IF Tr[t].strategy = "sequential"
                THEN rows(<<Head(specs)>>, write("enqueue", Tail(specs)))
                ELSE rows(specs, write("submit", <<>>)))
  BY DEF TransitionSubmit
<1>4. /\ specs \in Seq(Assignee) \ {<<>>} /\ Tail(specs) \in Seq(Assignee)
      /\ <<Head(specs)>> \in Seq(Assignee) \ {<<>>} /\ <<>> \in Seq(Assignee)
  BY <1>2, ResolveGives, ListIs
<1> DEFINE todo == IF Tr[t].strategy = "sequential" THEN <<Head(specs)>> ELSE specs
           then == IF Tr[t].strategy = "sequential" THEN write("enqueue", Tail(specs))
                   ELSE write("submit", <<>>)
           r == rows(todo, then)
<1>5. Goto(s, r)
  BY <1>3
<1>6. /\ then \in Submitting /\ then.pc \in {"enqueue", "submit"}
      /\ then.tr = t /\ then.queue = req[s].queue
  BY <1>2, <1>4 DEF Submitting
<1>7. todo \in Seq(Assignee) \ {<<>>}
  BY <1>4
<1> HIDE DEF then, todo, t
<1>8. /\ r \in Creating /\ r.pc = "create" /\ r.tr = t /\ r.round = round + 1
      /\ r.todo = todo /\ r.then = then
  BY <1>2, <1>6, <1>7 DEF Creating
<1> HIDE DEF r
<1>9. Frame(s) /\ Served' /\ req'[s] = r
  BY <1>1, <1>5, GotoFrame
<1>10. After(r) = then /\ r \in Request
  BY <1>8 DEF After, Making, Request
<1>11. Sound(s)
  BY <1>1, <1>6, <1>8, <1>9, <1>10, Harmless DEF Sound, Approving
<1>12. Typed'
  BY <1>1, <1>2 DEF IInv, TypeOK, Typed
<1>. QED  BY <1>1, <1>2, <1>6, <1>8, <1>9, <1>10, <1>11, <1>12 DEF t, todo, Submits

(* Rows are created one after another.                                     *)
GoesOn(r, r2) ==
    \/ Len(r.todo) = 1 /\ r2 = r.then
    \/ /\ Len(r.todo) # 1 /\ r2 \in Creating /\ r2.pc = "create" /\ r2.tr = r.tr
       /\ r2.round = r.round /\ r2.todo = Tail(r.todo) /\ r2.then = r.then
LEMMA CreatedIs ==
    ASSUME NEW r \in Creating
    PROVE  /\ Created(r) \in Request /\ GoesOn(r, Created(r))
           /\ After(r) = r.then /\ After(Created(r)) = r.then
           /\ Created(r).pc \in {"idle", "enqueue", "submit", "escalate", "create"}
<1>1. /\ r.pc \in Making /\ r.tr \in Transitions /\ r.round \in Nat
      /\ r.todo \in Seq(Assignee) \ {<<>>} /\ r.then \in {Idle} \cup Submitting \cup Escalating
  BY DEF Creating, Making
<1>2. /\ r.then \in Request /\ r.then.pc \in {"idle", "enqueue", "submit", "escalate"}
      /\ After(r.then) = r.then
  BY <1>1, IdleIs DEF Request, Submitting, Escalating, After, Making
<1>3. After(r) = r.then
  BY <1>1 DEF After
<1>4. CASE Len(r.todo) = 1
  BY <1>2, <1>3, <1>4 DEF Created, GoesOn
<1>5. CASE Len(r.todo) # 1
  <2> DEFINE q == Tail(r.todo)
             r2 == [r EXCEPT !.pc = "create", !.todo = q]
  <2>1. q \in Seq(Assignee) \ {<<>>}
    BY <1>1, <1>5, ListIs
  <2>2. Created(r) = r2
    BY <1>5 DEF Created
  <2> HIDE DEF q
  <2>3. /\ r2 \in Creating /\ r2.pc = "create" /\ r2.tr = r.tr /\ r2.round = r.round
        /\ r2.todo = q /\ r2.then = r.then
    BY <1>1, <2>1 DEF Creating
  <2> HIDE DEF r2
  <2>4. r2 \in Request /\ After(r2) = r.then
    BY <2>3 DEF Request, After, Making
  <2>. QED  BY <1>3, <1>5, <2>2, <2>3, <2>4 DEF GoesOn, q
<1>. QED  BY <1>4, <1>5

(* What comes after the rows is as it was.                                 *)
LEMMA MakingSound ==
    ASSUME IInv, NEW s \in Slots, req[s].pc \in Making, Frame(s), Served', req'[s] \in Request,
           After(req'[s]) = req[s].then, req'[s].pc \notin Approving \cup {"advance"},
           req'[s].pc = "assign" => Head(req'[s].todo).user # None,
           DOMAIN approvals \subseteq DOMAIN approvals',
           \A i \in DOMAIN approvals : approvals'[i] = approvals[i]
    PROVE  Sound(s)
<1>1. After(req[s]) = req[s].then
  BY DEF After
<1>2. /\ After(req[s]).pc = "escalate" => After(req[s]).batch \subseteq DOMAIN approvals
      /\ ~overlapped /\ After(req[s]).pc = "escalate" =>
           \A i \in After(req[s]).batch : approvals[i].status = "pending"
  BY DEF IInv, RowsExist, Fits, Undecided, Waits
<1>3. Fits(req'[s], approvals') /\ (~overlapped => Waits(req'[s], approvals'))
  BY <1>1, <1>2 DEF Fits, Waits, Approving
<1>. QED  BY <1>3 DEF Sound, Making

LEMMA CreatedStep ==
    ASSUME IInv, NEW s \in Slots, Create(s)
    PROVE  LET r == req[s]
               a == NewApproval(r.tr, Head(r.todo), r.round)
               n == Len(approvals) + 1
           IN  /\ Sound(s) /\ Typed' /\ r \in Creating /\ r.pc = "create"
               /\ UNCHANGED <<state, pending, wf_queue, task, round>>
               /\ DOMAIN approvals' = DOMAIN approvals \cup {n} /\ n \notin DOMAIN approvals
               /\ approvals'[n] = a /\ \A i \in DOMAIN approvals : approvals'[i] = approvals[i]
               /\ \/ /\ a.user # None /\ req'[s] \in Creating /\ req'[s].pc = "assign"
                     /\ req'[s].tr = r.tr /\ req'[s].round = r.round
                     /\ req'[s].todo = r.todo /\ req'[s].then = r.then
                  \/ a.user = None /\ GoesOn(r, req'[s])
               /\ After(req'[s]) = r.then
<1> DEFINE r == req[s]
           a == NewApproval(r.tr, Head(r.todo), r.round)
           n == Len(approvals) + 1
           r2 == IF OfOneUser(Head(r.todo)) THEN [r EXCEPT !.pc = "assign"] ELSE Created(r)
<1>1. /\ r.pc = "create" /\ Len(approvals) < MaxApprovals /\ Goto(s, r2)
      /\ approvals' = Append(approvals, a) /\ UNCHANGED <<state, pending, wf_queue, task, round>>
  BY DEF Create
<1>2. r \in Creating /\ r.pc \in Making
  BY <1>1, RequestKinds DEF IInv, TypeOK, Making
<1>3. r.tr \in Transitions /\ r.round \in Nat /\ Head(r.todo) \in Assignee
  BY <1>2, ListIs DEF Creating
<1>4. a \in Approval /\ a.user = Head(r.todo).user
  BY <1>3, NewApprovalIs
<1>5. Frame(s) /\ Served' /\ req'[s] = r2
  BY <1>1, GotoFrame
<1>6. /\ r2 \in Request /\ After(r2) = r.then /\ r2.pc \notin Approving \cup {"advance"}
      /\ \/ /\ a.user # None /\ r2 \in Creating /\ r2.pc = "assign"
            /\ r2.tr = r.tr /\ r2.round = r.round /\ r2.todo = r.todo /\ r2.then = r.then
         \/ a.user = None /\ GoesOn(r, r2)
  <2>1. CASE OfOneUser(Head(r.todo))
    <3> DEFINE r3 == [r EXCEPT !.pc = "assign"]
    <3>1. /\ r3 \in Creating /\ r3.pc = "assign"
          /\ r3.tr = r.tr /\ r3.round = r.round /\ r3.todo = r.todo /\ r3.then = r.then
      BY <1>2 DEF Creating
    <3> HIDE DEF r3
    <3>2. r3 \in Request /\ After(r3) = r.then
      BY <3>1 DEF Request, After, Making
    <3>3. r2 = r3 /\ a.user # None
      BY <1>4, <2>1 DEF r3, OfOneUser
    <3>. QED  BY <3>1, <3>2, <3>3 DEF Approving
  <2>2. CASE ~OfOneUser(Head(r.todo))
    <3>1. r2 = Created(r) /\ a.user = None
      BY <1>4, <2>2 DEF OfOneUser
    <3>. QED  BY <1>2, <3>1, CreatedIs DEF Approving
  <2>. QED  BY <2>1, <2>2
<1> HIDE DEF a, r2
<1>7. approvals \in Seq(Approval) /\ Len(approvals) \in Nat
  BY LenProperties DEF IInv, TypeOK
<1>8. /\ approvals' \in Seq(Approval) /\ Len(approvals') = n
      /\ DOMAIN approvals' = DOMAIN approvals \cup {n} /\ n \notin DOMAIN approvals
      /\ approvals'[n] = a /\ \A i \in DOMAIN approvals : approvals'[i] = approvals[i]
  BY <1>1, <1>4, <1>7, AppendedRow
<1>9. Len(approvals') <= MaxApprovals
  BY <1>1, <1>7, <1>8, WorkflowAssumption
<1>12. r2.pc = "assign" => Head(r2.todo).user # None
  <2>1. CASE a.user = None
    <3>1. r2.pc # "assign"
      BY <1>2, <1>6, <2>1, CreatedIs DEF GoesOn, Creating, Submitting, Escalating, Idle
    <3>. QED  BY <3>1
  <2>. QED  BY <1>4, <1>6, <2>1
<1>10. Sound(s)
  BY <1>2, <1>4, <1>5, <1>6, <1>8, <1>12, MakingSound
<1>11. Typed'
  BY <1>1, <1>8, <1>9 DEF IInv, TypeOK, Typed
<1>. QED  BY <1>1, <1>2, <1>5, <1>6, <1>8, <1>10, <1>11 DEF a

LEMMA AssignedStep ==
    ASSUME IInv, NEW s \in Slots, Assign(s)
    PROVE  /\ Sound(s) /\ Typed' /\ req[s] \in Creating /\ req[s].pc = "assign"
           /\ task' = task \cup {Head(req[s].todo).user}
           /\ UNCHANGED <<state, pending, wf_queue, approvals, round>>
           /\ GoesOn(req[s], req'[s]) /\ After(req'[s]) = req[s].then
<1>1. /\ req[s].pc = "assign" /\ Goto(s, Created(req[s]))
      /\ task' = task \cup {Head(req[s].todo).user}
      /\ UNCHANGED <<state, pending, wf_queue, approvals, round>>
  BY DEF Assign
<1>2. req[s] \in Creating /\ req[s].pc \in Making
  BY <1>1, RequestKinds DEF IInv, TypeOK, Making
<1>3. Frame(s) /\ Served' /\ req'[s] = Created(req[s])
  BY <1>1, GotoFrame
<1>4. /\ Created(req[s]) \in Request /\ GoesOn(req[s], Created(req[s]))
      /\ After(Created(req[s])) = req[s].then
      /\ Created(req[s]).pc \in {"idle", "enqueue", "submit", "escalate", "create"}
  BY <1>2, CreatedIs
<1>5. Sound(s)
  BY <1>1, <1>2, <1>3, <1>4, MakingSound DEF Approving
<1>6. Head(req[s].todo).user \in Users
  <2>1. Head(req[s].todo).user # None
    BY <1>1 DEF IInv, RowsExist, Fits
  <2>2. Head(req[s].todo).user \in Users \cup {None}
    BY <1>2, ListIs DEF Creating
  <2>. QED  BY <2>1, <2>2
<1>7. Typed'
  BY <1>1, <1>6 DEF IInv, TypeOK, Typed
<1>. QED  BY <1>1, <1>2, <1>3, <1>4, <1>5, <1>7

LEMMA EnqueuedStep ==
    ASSUME IInv, NEW s \in Slots, Enqueue(s)
    PROVE  /\ Sound(s) /\ Typed' /\ req[s].pc = "enqueue" /\ req'[s].pc = "submit"
           /\ req'[s].tr = req[s].tr /\ req'[s].queue = req[s].queue
           /\ UNCHANGED <<state, pending, approvals, task, round>>
<1> DEFINE r == [req[s] EXCEPT !.pc = "submit"]
<1>1. /\ req[s].pc = "enqueue" /\ Goto(s, r) /\ wf_queue' = req[s].later
      /\ UNCHANGED <<state, pending, approvals, task, round>>
  BY DEF Enqueue
<1>2. req[s] \in Submitting
  BY <1>1, RequestKinds DEF IInv, TypeOK
<1>3. r \in Submitting /\ r.pc = "submit" /\ r.tr = req[s].tr /\ r.queue = req[s].queue
      /\ req[s].later \in Seq(Assignee)
  BY <1>2 DEF Submitting
<1> HIDE DEF r
<1>4. r \in Request /\ After(r) = r
  BY <1>3 DEF Request, After, Making
<1>5. Frame(s) /\ Served' /\ req'[s] = r
  BY <1>1, GotoFrame
<1>6. Sound(s)
  BY <1>1, <1>3, <1>4, <1>5, Harmless DEF Sound, Approving
<1>7. Typed'
  BY <1>1, <1>3 DEF IInv, TypeOK, Typed
<1>. QED  BY <1>1, <1>3, <1>5, <1>6, <1>7

LEMMA SubmittedStep ==
    ASSUME IInv, NEW s \in Slots, Submit(s)
    PROVE  /\ Sound(s) /\ Typed' /\ req[s].pc = "submit" /\ req'[s] = Idle
           /\ req[s].tr \in Transitions /\ pending' = req[s].tr /\ wf_queue' = req[s].queue
           /\ UNCHANGED <<state, approvals, task, round>>
<1>1. /\ req[s].pc = "submit" /\ Goto(s, Idle)
      /\ pending' = req[s].tr /\ wf_queue' = req[s].queue
      /\ UNCHANGED <<state, approvals, task, round>>
  BY DEF Submit
<1>2. req[s].tr \in Transitions /\ req[s].queue \in Seq(Assignee)
  BY <1>1, RequestKinds DEF IInv, TypeOK, Submitting
<1>3. Frame(s) /\ Served' /\ req'[s] = Idle
  BY <1>1, GotoFrame
<1>4. Sound(s)
  BY <1>1, <1>3, IdleIs, Harmless DEF Sound, Approving
<1>5. Typed'
  BY <1>1, <1>2 DEF IInv, TypeOK, Typed
<1>. QED  BY <1>1, <1>2, <1>3, <1>4, <1>5
-----------------------------------------------------------------------------
(* approve, step by step.                                                  *)

LEMMA ApproveOpenInv ==
    ASSUME IInv, NEW s \in Slots, NEW u \in Users, NEW i \in DOMAIN approvals,
           NEW ok \in BOOLEAN, ApproveOpen(s, u, i, ok)
    PROVE  IInv' /\ Opens(s)
<1> DEFINE r == [pc |-> "act", user |-> u, appr |-> i, ok |-> ok]
<1>1. i \in 1..MaxApprovals
  BY RowIs DEF IInv
<1>2. r \in Request /\ r.pc = "act" /\ r.appr = i /\ r.user = u /\ After(r) = r
  BY <1>1 DEF Request, Acting, After, Making
<1>3. Open(s, r) /\ approvals[i].status = "pending" /\ UserMayActOnApproval(i, u)
  BY DEF ApproveOpen
<1> HIDE DEF r
<1>4. Fits(r, approvals) /\ Waits(r, approvals)
  BY <1>2, <1>3 DEF Fits, Waits
<1>5. Opens(s)
  BY <1>2, <1>3 DEF Opens
<1>. QED  BY <1>2, <1>3, <1>4, <1>5, OpenInv

LEMMA ActedStep ==
    ASSUME IInv, NEW s \in Slots, ApproveAct(s)
    PROVE  LET n == req[s].appr IN
           /\ Sound(s) /\ Typed' /\ req[s].pc = "act" /\ req[s].user \in Users
           /\ n \in DOMAIN approvals /\ DOMAIN approvals' = DOMAIN approvals
           /\ \A i \in DOMAIN approvals : i # n => approvals'[i] = approvals[i]
           /\ approvals'[n].status = IF req[s].ok THEN "approved" ELSE "rejected"
           /\ approvals'[n].signed = (approvals[n].signed \/ req[s].ok)
           /\ approvals'[n].tr = approvals[n].tr /\ approvals'[n].who = approvals[n].who
           /\ approvals'[n].user = approvals[n].user /\ approvals'[n].round = approvals[n].round
           /\ UNCHANGED <<state, pending, wf_queue, task, round>>
           /\ req'[s].pc = "close" /\ req'[s].appr = n /\ req'[s].ok = req[s].ok
           /\ req'[s].user = req[s].user
           /\ ~overlapped => approvals[n].status = "pending"
<1> DEFINE n == req[s].appr
           a == Decided(approvals[n], req[s].ok)
           r == [req[s] EXCEPT !.pc = "close"]
<1>1. /\ req[s].pc = "act" /\ Goto(s, r) /\ approvals' = [approvals EXCEPT ![n] = a]
      /\ UNCHANGED <<state, pending, wf_queue, task, round>>
  BY DEF ApproveAct
<1>2. req[s] \in Acting /\ n \in DOMAIN approvals
  BY <1>1, RequestKinds DEF IInv, TypeOK, RowsExist, Fits, Approving
<1>3. /\ r \in Acting /\ r.pc = "close" /\ r.appr = n /\ r.ok = req[s].ok
      /\ r.user = req[s].user /\ r.user \in Users /\ r.ok \in BOOLEAN
  BY <1>2 DEF Acting
<1> HIDE DEF r
<1>4. r \in Request /\ After(r) = r
  BY <1>3 DEF Request, After, Making
<1>5. approvals[n] \in Approval
  BY <1>2, RowIs DEF IInv
<1>6. /\ a \in Approval /\ a.status = (IF req[s].ok THEN "approved" ELSE "rejected")
      /\ a.signed = (approvals[n].signed \/ req[s].ok)
      /\ a.tr = approvals[n].tr /\ a.who = approvals[n].who
      /\ a.user = approvals[n].user /\ a.round = approvals[n].round
  <2>1. req[s].ok \in BOOLEAN
    BY <1>3
  <2> DEFINE b == approvals[n]
             ok == req[s].ok
  <2> HIDE DEF b, ok, n
  <2>2. b \in Approval /\ ok \in BOOLEAN /\ a = Decided(b, ok)
    BY <1>5, <2>1 DEF b, ok
  <2> HIDE DEF a
  <2>3. /\ a \in Approval /\ a.status = (IF ok THEN "approved" ELSE "rejected")
        /\ a.signed = (b.signed \/ ok)
        /\ a.tr = b.tr /\ a.who = b.who /\ a.user = b.user /\ a.round = b.round
    BY <2>2 DEF Decided, Approval
  <2>. QED  BY <2>3 DEF b, ok
<1> HIDE DEF a
<1>7. approvals \in Seq(Approval)
  BY DEF IInv, TypeOK
<1>8. /\ approvals' \in Seq(Approval) /\ Len(approvals') = Len(approvals)
      /\ DOMAIN approvals' = DOMAIN approvals /\ approvals'[n] = a
      /\ \A i \in DOMAIN approvals : i # n => approvals'[i] = approvals[i]
  BY <1>1, <1>2, <1>6, <1>7, RewrittenRow
<1>9. Frame(s) /\ Served' /\ req'[s] = r
  BY <1>1, GotoFrame
<1>10. Sound(s)
  BY <1>1, <1>2, <1>3, <1>4, <1>8, <1>9 DEF Sound, Fits, Waits
<1>11. Typed'
  BY <1>1, <1>8 DEF IInv, TypeOK, Typed
<1>12. ~overlapped => approvals[n].status = "pending"
  BY <1>1 DEF IInv, Undecided, Waits
<1>. QED  BY <1>1, <1>2, <1>3, <1>6, <1>8, <1>9, <1>10, <1>11, <1>12

LEMMA ClosedStep ==
    ASSUME IInv, NEW s \in Slots, ApproveClose(s)
    PROVE  /\ Sound(s) /\ Typed' /\ req[s].pc = "close" /\ task' = task \ {req[s].user}
           /\ req'[s].pc = "settle" /\ req'[s].appr = req[s].appr /\ req'[s].ok = req[s].ok
           /\ UNCHANGED <<state, pending, wf_queue, approvals, round>>
<1> DEFINE r == [pc |-> "settle", appr |-> req[s].appr, ok |-> req[s].ok]
<1>1. /\ req[s].pc = "close" /\ Goto(s, r) /\ task' = task \ {req[s].user}
      /\ UNCHANGED <<state, pending, wf_queue, approvals, round>>
  BY DEF ApproveClose
<1>2. req[s].appr \in 1..MaxApprovals /\ req[s].ok \in BOOLEAN /\ req[s].appr \in DOMAIN approvals
  BY <1>1, RequestKinds DEF IInv, TypeOK, RowsExist, Fits, Approving, Acting
<1>3. /\ r \in Request /\ After(r) = r
      /\ r.pc = "settle" /\ r.appr = req[s].appr /\ r.ok = req[s].ok
  BY <1>2 DEF Request, After, Making
<1> HIDE DEF r
<1>4. Frame(s) /\ Served' /\ req'[s] = r
  BY <1>1, GotoFrame
<1>5. Sound(s)
  BY <1>1, <1>2, <1>3, <1>4 DEF Sound, Fits, Waits
<1>6. Typed'
  BY <1>1 DEF IInv, TypeOK, Typed
<1>. QED  BY <1>1, <1>3, <1>4, <1>5, <1>6

(* The transition a decision is about.                                     *)
LEMMA DecidingIs ==
    ASSUME IInv, NEW s \in Slots, req[s].pc \in Approving \cup {"advance"}
    PROVE  /\ req[s].appr \in DOMAIN approvals /\ req[s].appr \in 1..MaxApprovals
           /\ Deciding(s) \in Transitions /\ Deciding(s) = approvals[req[s].appr].tr
           /\ approvals[req[s].appr].round \in Nat
<1>1. req[s].appr \in DOMAIN approvals
  BY DEF IInv, RowsExist, Fits
<1>. QED  BY <1>1, RowIs DEF IInv, Deciding

(* A decision ends in a move.                                              *)
LEMMA EndedStep ==
    ASSUME IInv, NEW s \in Slots, SettleReject(s) \/ SettleMove(s)
    PROVE  /\ Sound(s) /\ Typed' /\ req'[s] = Idle /\ Deciding(s) \in Transitions
           /\ pending' = None /\ UNCHANGED <<wf_queue, approvals, task, round>>
           /\ \/ req[s].pc = "settle" /\ ~req[s].ok /\ state' = Tr[Deciding(s)].reject_to
              \/ req[s].pc = "move" /\ state' = Tr[Deciding(s)].to
<1>1. /\ Goto(s, Idle) /\ pending' = None /\ UNCHANGED <<wf_queue, approvals, task, round>>
      /\ \/ req[s].pc = "settle" /\ ~req[s].ok /\ state' = Tr[Deciding(s)].reject_to
         \/ req[s].pc = "move" /\ state' = Tr[Deciding(s)].to
  BY DEF SettleReject, SettleMove, MoveTo
<1>2. req[s].pc # "idle" /\ Deciding(s) \in Transitions
  BY <1>1, DecidingIs DEF Approving
<1>3. Frame(s) /\ Served' /\ req'[s] = Idle
  BY <1>1, <1>2, GotoFrame
<1>4. Sound(s)
  BY <1>1, <1>2, <1>3, IdleIs, Harmless DEF Sound, Approving
<1>5. state' \in States
  BY <1>1, <1>2, WorkflowAssumption DEF TransitionDef
<1>6. Typed'
  BY <1>1, <1>5 DEF IInv, TypeOK, Typed
<1>. QED  BY <1>1, <1>2, <1>3, <1>4, <1>6

(* Until then it looks: at the rows, the queue, and the rows again.        *)
LooksAt(s, r) ==
    \/ /\ req[s].pc = "settle" /\ req[s].ok
       /\ \/ r.pc = "queue" /\ Rows(Deciding(s), "pending") = {}
          \/ /\ r.pc = "waiting" /\ Tr[Deciding(s)].strategy = "sequential"
             /\ Rows(Deciding(s), "pending") # {}
          \/ r = Idle /\ Rows(Deciding(s), "pending") # {}
    \/ /\ req[s].pc \in {"queue", "waiting"}
       /\ \/ wf_queue = <<>> /\ req[s].pc = "queue" /\ r.pc = "count"
          \/ wf_queue = <<>> /\ req[s].pc = "waiting" /\ r = Idle
          \/ wf_queue # <<>> /\ (r = Idle \/ (r.pc = "advance" /\ r.queue = wf_queue))
    \/ /\ req[s].pc = "count"
       /\ \/ r.pc = "move" /\ Counted(s, Deciding(s))
          \/ r = Idle /\ ~Counted(s, Deciding(s))
LEMMA LookedStep ==
    ASSUME IInv, NEW s \in Slots, SettleSearch(s) \/ SettleQueue(s) \/ SettleCount(s)
    PROVE  /\ Sound(s) /\ Typed' /\ UNCHANGED <<state, pending, wf_queue, approvals, task, round>>
           /\ req[s].pc \in {"settle", "queue", "waiting", "count"}
           /\ LooksAt(s, req'[s])
           /\ \/ req'[s] = Idle
              \/ /\ req'[s].pc \in {"queue", "waiting", "count", "move", "advance"}
                 /\ req'[s].appr = req[s].appr
<1> DEFINE n == req[s].appr
           look(pc) == [pc |-> pc, appr |-> n]
           next == [pc |-> "advance", appr |-> n, queue |-> wf_queue]
<1>1. /\ req[s].pc \in {"settle", "queue", "waiting", "count"}
      /\ UNCHANGED <<state, pending, wf_queue, approvals, task, round>>
  BY DEF SettleSearch, SettleQueue, SettleCount
<1>2. /\ req[s].pc \in Approving \cup {"advance"} /\ req[s].pc # "idle"
      /\ n \in DOMAIN approvals /\ n \in 1..MaxApprovals
  BY <1>1, DecidingIs DEF Approving
<1>3. ASSUME NEW pc \in {"queue", "waiting", "count", "move"}
      PROVE  /\ look(pc) \in Request /\ look(pc).pc = pc /\ look(pc).appr = n
             /\ Fits(look(pc), approvals) /\ Waits(look(pc), approvals)
  <2>1. look(pc) \in Request /\ look(pc).pc = pc /\ look(pc).appr = n /\ After(look(pc)).pc = pc
    BY <1>2 DEF Request, After, Making
  <2> HIDE DEF look
  <2>. QED  BY <1>2, <2>1 DEF Fits, Waits
<1>4. wf_queue # <<>> =>
        /\ next \in Request /\ next.pc = "advance" /\ next.appr = n /\ next.queue = wf_queue
        /\ Fits(next, approvals) /\ Waits(next, approvals)
  <2> SUFFICES ASSUME wf_queue # <<>>
               PROVE  /\ next \in Request /\ next.pc = "advance" /\ next.appr = n
                      /\ next.queue = wf_queue
                      /\ Fits(next, approvals) /\ Waits(next, approvals)
    OBVIOUS
  <2>1. wf_queue \in Seq(Assignee) \ {<<>>}
    BY DEF IInv, TypeOK
  <2>2. /\ next \in Request /\ next.pc = "advance" /\ next.appr = n
        /\ next.queue = wf_queue /\ After(next).pc = "advance"
    BY <1>2, <2>1 DEF Request, After, Making
  <2> HIDE DEF next
  <2>. QED  BY <1>2, <2>2 DEF Fits, Waits
<1>5. Fits(Idle, approvals) /\ Waits(Idle, approvals) /\ Idle \in Request
  BY IdleIs, Harmless DEF Approving
<1>6. PICK r : /\ Goto(s, r) /\ LooksAt(s, r)
               /\ \/ r = Idle
                  \/ \E pc \in {"queue", "waiting", "count", "move"} : r = look(pc)
                  \/ wf_queue # <<>> /\ r = next
  <2>1. CASE SettleSearch(s)
    <3>1. /\ req[s].pc = "settle" /\ req[s].ok
          /\ Goto(s, IF ~SomebodyElse(Deciding(s)) THEN look("queue")
                     ELSE IF Tr[Deciding(s)].strategy = "sequential" THEN look("waiting") ELSE Idle)
      BY <2>1 DEF SettleSearch
    <3>. QED  BY <1>3, <3>1 DEF LooksAt, SomebodyElse
  <2>2. CASE SettleQueue(s)
    <3>1. /\ req[s].pc \in {"queue", "waiting"}
          /\ Goto(s, IF wf_queue = <<>>
                     THEN IF req[s].pc = "queue" THEN [req[s] EXCEPT !.pc = "count"] ELSE Idle
                     ELSE IF Tr[Deciding(s)].strategy = "sequential" THEN next ELSE Idle)
      BY <2>2 DEF SettleQueue
    <3>2. [req[s] EXCEPT !.pc = "count"] = look("count")
      <4>1. req[s] \in [pc : {"queue", "waiting", "count", "move"}, appr : 1 .. MaxApprovals]
        BY <3>1, RequestKinds DEF IInv, TypeOK
      <4>. QED  BY <4>1
    <3>. QED  BY <1>3, <1>4, <3>1, <3>2 DEF LooksAt
  <2>3. CASE SettleCount(s)
    <3>1. /\ req[s].pc = "count"
          /\ Goto(s, IF Counted(s, Deciding(s)) THEN [req[s] EXCEPT !.pc = "move"] ELSE Idle)
      BY <2>3 DEF SettleCount
    <3>2. [req[s] EXCEPT !.pc = "move"] = look("move")
      <4>1. req[s] \in [pc : {"queue", "waiting", "count", "move"}, appr : 1 .. MaxApprovals]
        BY <3>1, RequestKinds DEF IInv, TypeOK
      <4>. QED  BY <4>1
    <3>. QED  BY <1>3, <3>1, <3>2 DEF LooksAt
  <2>. QED  BY <2>1, <2>2, <2>3
<1> HIDE DEF look, next
<1>7. Frame(s) /\ Served' /\ req'[s] = r
  BY <1>2, <1>6, GotoFrame
<1>8. r \in Request /\ Fits(r, approvals) /\ Waits(r, approvals)
  BY <1>3, <1>4, <1>5, <1>6
<1>9. Sound(s)
  BY <1>1, <1>2, <1>7, <1>8 DEF Sound
<1>10. Typed'
  BY <1>1 DEF IInv, TypeOK, Typed
<1>. QED  BY <1>1, <1>3, <1>4, <1>6, <1>7, <1>9, <1>10

LEMMA AdvancedStep ==
    ASSUME IInv, NEW s \in Slots, Advance(s)
    PROVE  /\ Sound(s) /\ Typed' /\ req[s].pc = "advance"
           /\ req'[s] \in Creating /\ req'[s].pc = "create" /\ After(req'[s]) = Idle
           /\ req'[s].tr = approvals[req[s].appr].tr
           /\ UNCHANGED <<state, pending, approvals, task, round>>
<1> DEFINE a == approvals[req[s].appr]
           q == req[s].queue
           r == [pc |-> "create", tr |-> a.tr, round |-> a.round,
                 todo |-> <<Head(q)>>, then |-> Idle]
<1>1. /\ req[s].pc = "advance" /\ Goto(s, r) /\ wf_queue' = Tail(q)
      /\ UNCHANGED <<state, pending, approvals, task, round>>
  BY DEF Advance
<1>2. q \in Seq(Assignee) \ {<<>>}
  BY <1>1, RequestKinds DEF IInv, TypeOK
<1>3. Tail(q) \in Seq(Assignee) /\ <<Head(q)>> \in Seq(Assignee) \ {<<>>}
  BY <1>2, ListIs
<1>4. a.tr \in Transitions /\ a.round \in Nat
  BY <1>1, DecidingIs
<1> HIDE DEF a, q
<1>5. r \in Creating /\ r.pc = "create" /\ r.then = Idle /\ r.tr = a.tr
  BY <1>3, <1>4 DEF Creating
<1> HIDE DEF r
<1>6. r \in Request /\ After(r) = Idle
  BY <1>5 DEF Request, After, Making
<1>7. Frame(s) /\ Served' /\ req'[s] = r
  BY <1>1, GotoFrame
<1>8. Sound(s)
  BY <1>1, <1>5, <1>6, <1>7, IdleIs, Harmless DEF Sound, Approving
<1>9. Typed'
  BY <1>1, <1>3 DEF IInv, TypeOK, Typed
<1>. QED  BY <1>1, <1>5, <1>6, <1>7, <1>8, <1>9 DEF a
-----------------------------------------------------------------------------
(* process_overdue_approvals.                                              *)

LEMMA EscalateOpenInv ==
    ASSUME IInv, NEW s \in Slots, NEW batch \in SUBSET DOMAIN approvals, EscalateOpen(s, batch)
    PROVE  IInv' /\ Opens(s)
<1> DEFINE r == [pc |-> "escalate", batch |-> batch]
<1>1. batch \in SUBSET (1..MaxApprovals)
  BY RowIs DEF IInv
<1>2. r \in Request /\ r.pc = "escalate" /\ r.batch = batch /\ After(r) = r
  BY <1>1 DEF Request, Escalating, After, Making
<1>3. Open(s, r) /\ \A i \in batch : approvals[i].status = "pending"
  BY DEF EscalateOpen
<1> HIDE DEF r
<1>4. Fits(r, approvals) /\ Waits(r, approvals)
  BY <1>2, <1>3 DEF Fits, Waits, Approving
<1>5. Opens(s)
  BY <1>2, <1>3 DEF Opens
<1>. QED  BY <1>2, <1>3, <1>4, <1>5, OpenInv

(* One row is cancelled, and one of the group is about to be created.      *)
Cancels(s, i) ==
    LET a == approvals[i] IN
    /\ Tr[a.tr].escalate # {}
    /\ DOMAIN approvals' = DOMAIN approvals
    /\ \A k \in DOMAIN approvals : k # i => approvals'[k] = approvals[k]
    /\ approvals'[i].status = "cancelled" /\ approvals'[i].tr = a.tr /\ approvals'[i].who = a.who
    /\ approvals'[i].user = a.user /\ approvals'[i].round = a.round
    /\ approvals'[i].signed = a.signed
    /\ req'[s] \in Creating /\ req'[s].pc = "create" /\ req'[s].tr = a.tr /\ req'[s].round = a.round
    /\ req'[s].todo = <<Group(Tr[a.tr].escalate)>>
LEMMA EscalatedStep ==
    ASSUME IInv, NEW s \in Slots, NEW i \in DOMAIN approvals, EscalateOne(s, i)
    PROVE  /\ Sound(s) /\ Typed' /\ UNCHANGED <<state, pending, wf_queue, task, round>>
           /\ req[s].pc = "escalate" /\ After(req'[s]).pc \in {"idle", "escalate"}
           /\ \/ UNCHANGED approvals /\ req'[s].pc \in {"idle", "escalate"}
              \/ Cancels(s, i)
           /\ ~overlapped => approvals[i].status = "pending"
<1> DEFINE a == approvals[i]
           group == Tr[a.tr].escalate
           z == [req[s] EXCEPT !.batch = @ \ {i}]
           rest == IF req[s].batch = {i} THEN Idle ELSE z
           r == [pc |-> "create", tr |-> a.tr, round |-> a.round,
                 todo |-> <<Group(group)>>, then |-> rest]
           row == [a EXCEPT !.status = "cancelled"]
<1>1. /\ req[s].pc = "escalate" /\ i \in req[s].batch
      /\ UNCHANGED <<state, pending, wf_queue, task, round>>
      /\ \/ group = {} /\ Goto(s, rest) /\ UNCHANGED approvals
         \/ group # {} /\ Goto(s, r) /\ approvals' = [approvals EXCEPT ![i] = row]
  BY DEF EscalateOne
<1>2. /\ a \in Approval /\ a.tr \in Transitions /\ a.round \in Nat
  BY RowIs DEF IInv
<1>3. req[s] \in Escalating /\ After(req[s]) = req[s]
  BY <1>1, RequestKinds DEF IInv, TypeOK, After, Making
<1>4. /\ req[s].batch \subseteq DOMAIN approvals
      /\ ~overlapped => \A k \in req[s].batch : approvals[k].status = "pending"
  BY <1>1, <1>3 DEF IInv, RowsExist, Fits, Undecided, Waits
<1>5. z \in Escalating /\ z.pc = "escalate" /\ z.batch = req[s].batch \ {i}
  BY <1>3 DEF Escalating
<1> HIDE DEF z
<1>6. /\ rest \in {Idle} \cup Escalating /\ rest \in Request /\ After(rest) = rest
      /\ rest.pc \in {"idle", "escalate"}
      /\ rest.pc = "escalate" => rest.batch = req[s].batch \ {i}
  BY <1>5, IdleIs DEF Request, After, Making
<1> HIDE DEF rest
<1>7. Group(group) \in Assignee
  <2>1. group \in SUBSET Users
    BY <1>2, WorkflowAssumption DEF TransitionDef
  <2> HIDE DEF group
  <2>. QED  BY <2>1 DEF Group, Assignee
<1>8. /\ r \in Creating /\ r.pc = "create" /\ r.tr = a.tr /\ r.round = a.round
      /\ r.todo = <<Group(group)>> /\ r.then = rest
  <2> DEFINE g == <<Group(group)>>
  <2>1. g \in Seq(Assignee) \ {<<>>}
    BY <1>7
  <2> HIDE DEF g, a
  <2>2. r = [pc |-> "create", tr |-> a.tr, round |-> a.round, todo |-> g, then |-> rest]
    BY DEF g
  <2> HIDE DEF r
  <2>3. /\ r \in Creating /\ r.pc = "create" /\ r.tr = a.tr /\ r.round = a.round
        /\ r.todo = g /\ r.then = rest
    BY <1>2, <1>6, <2>1, <2>2 DEF Creating
  <2>. QED  BY <2>3 DEF g
<1> HIDE DEF r, group
<1>9. r \in Request /\ After(r) = rest
  BY <1>8 DEF Request, After, Making
<1>10. /\ row \in Approval /\ row.status = "cancelled" /\ row.tr = a.tr /\ row.who = a.who
       /\ row.user = a.user /\ row.round = a.round /\ row.signed = a.signed
  BY <1>2 DEF Approval
<1> HIDE DEF row
<1>11. approvals \in Seq(Approval) /\ Len(approvals) <= MaxApprovals
  BY DEF IInv, TypeOK
<1>12. CASE group = {} /\ Goto(s, rest) /\ UNCHANGED approvals
  <2>1. Frame(s) /\ Served' /\ req'[s] = rest
    BY <1>1, <1>12, GotoFrame
  <2>2. Fits(rest, approvals) /\ (~overlapped => Waits(rest, approvals))
    BY <1>4, <1>6 DEF Fits, Waits, Approving
  <2>3. Sound(s)
    BY <1>1, <1>6, <1>12, <2>1, <2>2 DEF Sound
  <2>4. Typed'
    BY <1>1, <1>12 DEF IInv, TypeOK, Typed
  <2>. QED  BY <1>1, <1>4, <1>6, <1>12, <2>1, <2>3, <2>4
<1>13. CASE group # {} /\ Goto(s, r) /\ approvals' = [approvals EXCEPT ![i] = row]
  <2>1. Frame(s) /\ Served' /\ req'[s] = r
    BY <1>1, <1>13, GotoFrame
  <2>2. /\ approvals' \in Seq(Approval) /\ Len(approvals') = Len(approvals)
        /\ DOMAIN approvals' = DOMAIN approvals /\ approvals'[i] = row
        /\ \A k \in DOMAIN approvals : k # i => approvals'[k] = approvals[k]
    BY <1>10, <1>11, <1>13, RewrittenRow
  <2>3. Fits(r, approvals')
    BY <1>4, <1>6, <1>8, <1>9, <2>2 DEF Fits, Approving
  <2>4. ~overlapped => Waits(r, approvals')
    BY <1>4, <1>6, <1>8, <1>9, <2>2 DEF Waits
  <2>5. Sound(s)
    BY <1>1, <1>9, <2>1, <2>2, <2>3, <2>4 DEF Sound
  <2>6. Typed'
    BY <1>1, <1>11, <2>2 DEF IInv, TypeOK, Typed
  <2>7. Cancels(s, i)
    BY <1>8, <1>10, <1>13, <2>1, <2>2 DEF Cancels, group
  <2>. QED  BY <1>1, <1>4, <1>6, <1>9, <2>1, <2>5, <2>6, <2>7
<1>. QED  BY <1>1, <1>12, <1>13
-----------------------------------------------------------------------------
(* The invariant is kept.                                                  *)

LEMMA OpenedStep ==
    ASSUME IInv, NEW s \in Slots, Opens(s)
    PROVE  /\ UNCHANGED <<state, pending, wf_queue, approvals, task, round>>
           /\ req[s] = Idle /\ \A q \in Slots : q # s => req'[q] = req[q]
           /\ req'[s] \in Request /\ req'[s].pc \in {"transition", "act", "escalate"}
           /\ After(req'[s]) = req'[s]
           /\ req'[s].pc = "transition" =>
                req'[s].queue = wf_queue /\ pending = None /\ state \in Tr[req'[s].tr].from
           /\ req'[s].pc = "act" => UserMayActOnApproval(req'[s].appr, req'[s].user)
           /\ ~overlapped' => ~overlapped /\ \A q \in Slots : req[q].pc = "idle"
           /\ ~crossed' => /\ ~crossed
                           /\ \A q \in Slots : req[q].pc # "idle" =>
                                req'[s].pc = "act" /\ req[q].pc \in Approving
<1>1. PICK r \in Request :
    /\ r.pc \in {"transition", "act", "escalate"} /\ Open(s, r)
    /\ r.pc = "transition" =>
         r.queue = wf_queue /\ pending = None /\ state \in Tr[r.tr].from
    /\ r.pc = "act" => UserMayActOnApproval(r.appr, r.user)
  BY DEF Opens
<1>2. /\ req[s] = Idle /\ req' = [req EXCEPT ![s] = r]
      /\ overlapped' = (overlapped \/ \E o \in Slots : req[o] # Idle)
      /\ crossed' = (crossed \/ \E o \in Slots :
                       req[o] # Idle /\ ~(r.pc = "act" /\ req[o].pc \in Approving))
      /\ UNCHANGED <<state, pending, wf_queue, approvals, task, round>>
  BY <1>1 DEF Open
<1>3. req'[s] = r /\ \A q \in Slots : q # s => req'[q] = req[q]
  BY <1>2, OneRequest DEF IInv
<1>4. \A q \in Slots : req[q].pc # "idle" => req[q] # Idle
  BY IdleIs
<1>5. ~overlapped' => ~overlapped /\ \A q \in Slots : req[q].pc = "idle"
  BY <1>2, <1>4
<1>6. ~crossed' => ~crossed /\ \A q \in Slots : req[q].pc # "idle" =>
                                 r.pc = "act" /\ req[q].pc \in Approving
  BY <1>2, <1>4
<1>7. After(r) = r
  BY <1>1 DEF After, Making
<1>. QED  BY <1>1, <1>2, <1>3, <1>5, <1>6, <1>7

(* A step begins a request or goes on with one.                            *)
Works(s) ==
    \/ TransitionMove(s) \/ TransitionSubmit(s) \/ Create(s) \/ Assign(s) \/ Enqueue(s) \/ Submit(s)
    \/ ApproveAct(s) \/ ApproveClose(s) \/ SettleReject(s) \/ SettleMove(s)
    \/ SettleSearch(s) \/ SettleQueue(s) \/ SettleCount(s) \/ Advance(s)
    \/ \E i \in DOMAIN approvals : EscalateOne(s, i)
LEMMA StepsOf ==
    ASSUME IInv, Next
    PROVE  \E s \in Slots : (Opens(s) /\ IInv') \/ Works(s)
<1>1. PICK s \in Slots :
        \/ \E u \in Users, t \in Transitions : TransitionOpen(s, u, t)
        \/ \E u \in Users, i \in DOMAIN approvals, ok \in BOOLEAN : ApproveOpen(s, u, i, ok)
        \/ \E batch \in SUBSET DOMAIN approvals : EscalateOpen(s, batch)
        \/ Works(s)
  BY DEF Next, Works
<1>2. ASSUME NEW u \in Users, NEW t \in Transitions, TransitionOpen(s, u, t)
      PROVE  Opens(s) /\ IInv'
  BY <1>2, TransitionOpenInv
<1>3. ASSUME NEW u \in Users, NEW i \in DOMAIN approvals, NEW ok \in BOOLEAN,
             ApproveOpen(s, u, i, ok)
      PROVE  Opens(s) /\ IInv'
  BY <1>3, ApproveOpenInv
<1>4. ASSUME NEW batch \in SUBSET DOMAIN approvals, EscalateOpen(s, batch)
      PROVE  Opens(s) /\ IInv'
  BY <1>4, EscalateOpenInv
<1>. QED  BY <1>1, <1>2, <1>3, <1>4

LEMMA WorkSound ==
    ASSUME IInv, NEW s \in Slots, Works(s)
    PROVE  Sound(s) /\ Typed' /\ IInv'
<1>1. CASE TransitionMove(s) \/ TransitionSubmit(s) \/ Create(s) \/ Assign(s)
  BY <1>1, MovedStep, StartedStep, CreatedStep, AssignedStep, SoundKeeps
<1>2. CASE Enqueue(s) \/ Submit(s) \/ ApproveAct(s) \/ ApproveClose(s)
  BY <1>2, EnqueuedStep, SubmittedStep, ActedStep, ClosedStep, SoundKeeps
<1>3. CASE SettleReject(s) \/ SettleMove(s)
  BY <1>3, EndedStep, SoundKeeps
<1>4. CASE SettleSearch(s) \/ SettleQueue(s) \/ SettleCount(s)
  BY <1>4, LookedStep, SoundKeeps
<1>5. CASE Advance(s)
  BY <1>5, AdvancedStep, SoundKeeps
<1>6. CASE \E i \in DOMAIN approvals : EscalateOne(s, i)
  BY <1>6, EscalatedStep, SoundKeeps
<1>. QED  BY <1>1, <1>2, <1>3, <1>4, <1>5, <1>6 DEF Works

LEMMA InitInv == Init => IInv
<1> SUFFICES ASSUME Init PROVE IInv
  OBVIOUS
<1>1. /\ state = Start /\ pending = None /\ wf_queue = <<>>
      /\ approvals = <<>> /\ task = {} /\ req = [s \in Slots |-> Idle]
      /\ round = 0 /\ overlapped = FALSE /\ crossed = FALSE
  BY DEF Init
<1>2. \A s \in Slots : req[s] = Idle
  BY <1>1
<1>3. <<>> \in Seq(Assignee) /\ <<>> \in Seq(Approval) /\ Len(<<>>) = 0
  OBVIOUS
<1>4. TypeOK
  <2>1. /\ state \in States /\ pending \in Transitions \cup {None} /\ task \in SUBSET Users
        /\ round \in Nat /\ overlapped \in BOOLEAN /\ crossed \in BOOLEAN
    BY <1>1, WorkflowAssumption
  <2>2. \A s \in Slots : req[s] \in Request
    BY <1>2, IdleIs
  <2>3. wf_queue \in Seq(Assignee) /\ approvals \in Seq(Approval) /\ Len(approvals) <= MaxApprovals
    BY <1>1, <1>3, WorkflowAssumption
  <2>. QED  BY <2>1, <2>2, <2>3 DEF TypeOK
<1>5. Fits(Idle, approvals) /\ Waits(Idle, approvals)
  BY IdleIs, Harmless DEF Approving
<1>6. RowsExist /\ Alone /\ Undecided
  BY <1>1, <1>2, <1>5 DEF RowsExist, Alone, Undecided
<1>7. Served
  BY <1>1, <1>2 DEF Served
<1>. QED  BY <1>4, <1>6, <1>7 DEF IInv

LEMMA StutterInv ==
    ASSUME IInv, UNCHANGED vars
    PROVE  IInv'
<1>1. UNCHANGED <<state, pending, wf_queue, approvals, task, req, round, overlapped, crossed>>
  BY DEF vars
<1>2. TypeOK' /\ Served'
  BY <1>1 DEF IInv, TypeOK, Served
<1>3. RowsExist' /\ Alone' /\ Undecided'
  BY <1>1 DEF IInv, RowsExist, Alone, Undecided
<1>. QED  BY <1>2, <1>3 DEF IInv

LEMMA NextInv == IInv /\ [Next]_vars => IInv'
BY StepsOf, WorkSound, StutterInv

LEMMA Inductive == Spec => []IInv
BY InitInv, NextInv, PTL DEF Spec
-----------------------------------------------------------------------------
(* Whatever the definition and however requests overlap, the variables     *)
(* keep their types, and what a request works on exists.                   *)
THEOREM TypeCorrect == Spec => []TypeOK
<1>1. IInv => TypeOK
  BY DEF IInv
<1>. QED  BY <1>1, Inductive, PTL

(* Whatever the definition, one request at a time: a decision, once taken, *)
(* is neither taken again nor overwritten, by an approver or by the cron.  *)
THEOREM DecisionsAlwaysStand == Spec => DecisionsStand
<1> DEFINE Stands == ~overlapped' =>
               \A i \in DOMAIN approvals :
                 approvals[i].status # "pending" => approvals'[i] = approvals[i]
<1>1. ASSUME IInv, Next, ~overlapped', NEW i \in DOMAIN approvals,
             approvals[i].status # "pending"
      PROVE  approvals'[i] = approvals[i]
  <2>1. PICK s \in Slots : Opens(s) \/ Works(s)
    BY <1>1, StepsOf
  <2>2. CASE Opens(s)
    BY <1>1, <2>2, OpenedStep
  <2>3. CASE Works(s)
    <3>1. ~overlapped
      BY <1>1, <2>3, WorkSound DEF Sound, Frame
    <3>2. CASE ApproveAct(s)
      BY <1>1, <3>1, <3>2, ActedStep
    <3>3. CASE \E k \in DOMAIN approvals : EscalateOne(s, k)
      BY <1>1, <3>1, <3>3, EscalatedStep DEF Cancels
    <3>4. CASE Create(s)
      BY <1>1, <3>4, CreatedStep
    <3>. QED  BY <1>1, <2>3, <3>2, <3>3, <3>4, MovedStep, StartedStep, AssignedStep,
                 EnqueuedStep, SubmittedStep, ClosedStep, EndedStep, LookedStep, AdvancedStep
              DEF Works
  <2>. QED  BY <2>1, <2>2, <2>3
<1>2. IInv /\ [Next]_vars => [Stands]_vars
  BY <1>1
<1>. QED  BY <1>2, Inductive, PTL DEF DecisionsStand, Spec
-----------------------------------------------------------------------------
(* How approvals come to an end.                                           *)

(* Rows are of approvals, and so are the requests that create them. What   *)
(* is approved has been signed.                                            *)
RowKind(a) == Approved(a.tr) /\ (a.status = "approved" => a.signed)
RequestKind(r) ==
    /\ r.pc \in Making \cup {"enqueue", "submit"} => Approved(r.tr)
    /\ Submits(r) => After(r).tr = r.tr
RowKinds ==
    /\ \A i \in DOMAIN approvals : RowKind(approvals[i])
    /\ \A s \in Slots : RequestKind(req[s])

(* While only approvers overlap: no queue survives a submission, which     *)
(* writes back the one it has read;                                        *)
Apart ==
    \A s, o \in Slots :
        s # o /\ req[s].pc # "idle" /\ req[o].pc # "idle" =>
            req[s].pc \in Approving /\ req[o].pc \in Approving
NoQueue ==
    /\ wf_queue # <<>> => \E s \in Slots : req[s].pc = "submit"
    /\ \A s \in Slots :
         /\ req[s].pc # "advance"
         /\ req[s].pc = "transition" \/ Submits(req[s]) => After(req[s]).queue = <<>>

(* the last round is the one waited for, and keeps what has been asked,    *)
(* in rows or in the list of those still to be created;                    *)
ToAsk(r) == IF r.pc = "create" THEN r.todo ELSE Tail(r.todo)
Coming(t, spec) ==
    \E s \in Slots :
        /\ req[s].pc \in Making /\ req[s].tr = t /\ req[s].round = round
        /\ \E k \in DOMAIN ToAsk(req[s]) : ToAsk(req[s])[k] = spec
Covered(t, spec) == Coming(t, spec) \/ \E i \in OfRound(t) : approvals[i].who = spec.who
Asking(t) ==
    \/ \E spec \in Assignee : Coming(t, spec)
    \/ \E i \in OfRound(t) : approvals[i].status # "cancelled"
Asked(t) ==
    IF Tr[t].strategy = "all"
    THEN \E specs \in Resolve(t) : \A k \in DOMAIN specs : Covered(t, specs[k])
    ELSE Asking(t)
Current(t) == pending = t \/ \E s \in Slots : Submits(req[s]) /\ req[s].tr = t
Rounds ==
    /\ \A i \in DOMAIN approvals : approvals[i].round <= round
    /\ \A s \in Slots :
         /\ req[s].pc \in Making => req[s].round <= round
         /\ req[s].pc \in Making /\ Submits(req[s]) => req[s].round = round
         /\ req[s].pc = "transition" \/ Submits(req[s]) => pending = None
RoundIs(t) ==
    /\ Approved(t) /\ Asked(t)
    /\ \A i \in DOMAIN approvals : approvals[i].round = round => approvals[i].tr = t
    /\ \A s \in Slots : req[s].pc \in Making /\ req[s].round = round => req[s].tr = t
RoundInv == Rounds /\ \A t \in Transitions : Current(t) => RoundIs(t)

(* and an approver who looks whether all is signed has signed.             *)
SignedInv ==
    \A s \in Slots :
        /\ req[s].pc \in {"close", "settle"} /\ req[s].ok => approvals[req[s].appr].signed
        /\ req[s].pc \in {"queue", "waiting", "count"} => approvals[req[s].appr].signed
        /\ req[s].pc \in {"queue", "count"} => Rows(Deciding(s), "pending") = {}
        /\ req[s].pc = "move" /\ pending = Deciding(s) => SignedOff(Deciding(s))

CInv == ~crossed => Apart /\ NoQueue /\ RoundInv /\ SignedInv
RInv == IInv /\ RowKinds /\ CInv
-----------------------------------------------------------------------------
(* Rows are of approvals.                                                  *)

LEMMA KindsKept ==
    ASSUME IInv, RowKinds, NEW s \in Slots, Opens(s) \/ Works(s)
    PROVE  RowKinds'
<1>1. /\ \A i \in DOMAIN approvals : RowKind(approvals[i])
      /\ \A q \in Slots : RequestKind(req[q])
  BY DEF RowKinds
<1>2. /\ Idle.pc = "idle" /\ After(Idle) = Idle
  BY IdleIs
<1>3. ASSUME NEW r, r.pc \notin Making \cup {"enqueue", "submit"}
      PROVE  RequestKind(r)
  BY <1>3 DEF RequestKind, Submits, After
<1>4. \A q \in Slots : q # s => req'[q] = req[q]
  BY OpenedStep, WorkSound DEF Sound, Frame
<1>5. ASSUME NEW r \in Creating, NEW r2, RequestKind(r), GoesOn(r, r2), After(r2) = r.then
      PROVE  RequestKind(r2)
  <2>1. /\ r.pc \in Making /\ Approved(r.tr) /\ After(r) = r.then
    BY <1>5 DEF Creating, RequestKind, Making, After
  <2>2. r.then.pc \in {"enqueue", "submit"} => r.then.tr = r.tr
    BY <1>5, <2>1 DEF RequestKind, Submits
  <2>3. CASE r2 = r.then
    BY <1>5, <2>1, <2>2, <2>3
    DEF RequestKind, Submits, Making, Creating, Submitting, Escalating, Idle
  <2>4. CASE r2.pc = "create" /\ r2.tr = r.tr
    BY <1>5, <2>1, <2>2, <2>4 DEF RequestKind, Submits, Making
  <2>. QED  BY <1>5, <2>3, <2>4 DEF GoesOn
<1>6. SUFFICES /\ \A i \in DOMAIN approvals' : RowKind(approvals'[i])
               /\ RequestKind(req'[s])
  BY <1>1, <1>4 DEF RowKinds
<1>7. CASE Opens(s)
  BY <1>1, <1>3, <1>7, OpenedStep DEF Making
<1>8. CASE TransitionMove(s) \/ Submit(s) \/ SettleReject(s) \/ SettleMove(s)
  <2>1. req'[s] = Idle /\ UNCHANGED approvals
    BY <1>8, MovedStep, SubmittedStep, EndedStep
  <2>. QED  BY <1>1, <1>2, <1>3, <2>1 DEF Making
<1>9. CASE TransitionSubmit(s)
  <2>1. /\ UNCHANGED approvals /\ req'[s].pc = "create" /\ Approved(req'[s].tr)
        /\ req'[s].then.tr = req'[s].tr
    BY <1>9, StartedStep
  <2>. QED  BY <1>1, <2>1 DEF RequestKind, After, Making
<1>10. CASE Create(s)
  <2> DEFINE r == req[s]
             a == NewApproval(r.tr, Head(r.todo), r.round)
             n == Len(approvals) + 1
  <2>1. /\ r \in Creating /\ DOMAIN approvals' = DOMAIN approvals \cup {n} /\ approvals'[n] = a
        /\ \A i \in DOMAIN approvals : approvals'[i] = approvals[i]
        /\ \/ req'[s].pc = "assign" /\ req'[s].tr = r.tr
           \/ GoesOn(r, req'[s])
        /\ After(req'[s]) = r.then /\ r.pc = "create"
    BY <1>10, CreatedStep
  <2>2. Approved(r.tr) /\ After(r) = r.then
    BY <1>1, <2>1 DEF RequestKind, After, Making
  <2>3. RowKind(a)
    BY <2>2 DEF RowKind, NewApproval
  <2>4. RequestKind(req'[s])
    <3>1. CASE req'[s].pc = "assign" /\ req'[s].tr = r.tr
      BY <1>1, <2>1, <2>2, <3>1 DEF RequestKind, Submits, Making
    <3>. QED  BY <1>1, <1>5, <2>1, <3>1
  <2> HIDE DEF a
  <2>. QED  BY <1>1, <2>1, <2>3, <2>4
<1>11. CASE Assign(s)
  <2>1. /\ req[s] \in Creating /\ UNCHANGED approvals /\ GoesOn(req[s], req'[s])
        /\ After(req'[s]) = req[s].then
    BY <1>11, AssignedStep
  <2>. QED  BY <1>1, <1>5, <2>1
<1>12. CASE Enqueue(s)
  <2>1. /\ UNCHANGED approvals /\ req[s].pc = "enqueue" /\ req'[s].pc = "submit"
        /\ req'[s].tr = req[s].tr
    BY <1>12, EnqueuedStep
  <2>. QED  BY <1>1, <2>1 DEF RequestKind, Submits, After, Making
<1>13. CASE ApproveAct(s)
  <2> DEFINE n == req[s].appr
  <2>1. /\ n \in DOMAIN approvals /\ DOMAIN approvals' = DOMAIN approvals
        /\ \A i \in DOMAIN approvals : i # n => approvals'[i] = approvals[i]
        /\ approvals'[n].status = IF req[s].ok THEN "approved" ELSE "rejected"
        /\ approvals'[n].signed = (approvals[n].signed \/ req[s].ok)
        /\ approvals'[n].tr = approvals[n].tr /\ req'[s].pc = "close"
    BY <1>13, ActedStep
  <2>2. RowKind(approvals'[n])
    BY <1>1, <2>1 DEF RowKind
  <2>. QED  BY <1>1, <1>3, <2>1, <2>2 DEF Making
<1>14. CASE ApproveClose(s)
  BY <1>1, <1>3, <1>14, ClosedStep DEF Making
<1>15. CASE SettleSearch(s) \/ SettleQueue(s) \/ SettleCount(s)
  BY <1>1, <1>2, <1>3, <1>15, LookedStep DEF Making
<1>16. CASE Advance(s)
  <2>1. /\ UNCHANGED approvals /\ req[s].pc = "advance" /\ req'[s].pc = "create"
        /\ After(req'[s]) = Idle /\ req'[s].tr = approvals[req[s].appr].tr
    BY <1>16, AdvancedStep
  <2>2. req[s].appr \in DOMAIN approvals
    BY <2>1, DecidingIs
  <2>. QED  BY <1>1, <1>2, <2>1, <2>2 DEF RequestKind, RowKind, Submits
<1>17. ASSUME NEW i \in DOMAIN approvals, EscalateOne(s, i)
       PROVE  /\ \A k \in DOMAIN approvals' : RowKind(approvals'[k])
              /\ RequestKind(req'[s])
  <2>1. /\ After(req'[s]).pc \in {"idle", "escalate"}
        /\ \/ UNCHANGED approvals /\ req'[s].pc \in {"idle", "escalate"}
           \/ Cancels(s, i)
    BY <1>17, EscalatedStep
  <2>2. CASE UNCHANGED approvals /\ req'[s].pc \in {"idle", "escalate"}
    BY <1>1, <1>3, <2>2 DEF Making
  <2>3. CASE Cancels(s, i)
    <3>1. /\ DOMAIN approvals' = DOMAIN approvals
          /\ \A k \in DOMAIN approvals : k # i => approvals'[k] = approvals[k]
          /\ approvals'[i].status = "cancelled" /\ approvals'[i].tr = approvals[i].tr
          /\ req'[s].pc = "create" /\ req'[s].tr = approvals[i].tr
      BY <2>3 DEF Cancels
    <3>2. Approved(approvals[i].tr)
      BY <1>1 DEF RowKind
    <3>3. RowKind(approvals'[i])
      BY <3>1, <3>2 DEF RowKind
    <3>4. RequestKind(req'[s])
      BY <2>1, <3>1, <3>2 DEF RequestKind, Submits
    <3>. QED  BY <1>1, <3>1, <3>3, <3>4
  <2>. QED  BY <2>1, <2>2, <2>3
<1>. QED  BY <1>7, <1>8, <1>9, <1>10, <1>11, <1>12, <1>13, <1>14, <1>15, <1>16, <1>17 DEF Works
-----------------------------------------------------------------------------
(* While only approvers overlap.                                           *)

LEMMA Others ==
    ASSUME IInv, Apart, NoQueue, NEW s \in Slots, Works(s)
    PROVE  /\ req[s].pc # "idle" /\ req[s].pc # "advance"
           /\ \A q \in Slots : q # s => req'[q] = req[q]
           /\ \A q \in Slots : q # s => req[q].pc \in Approving \cup {"idle"}
           /\ req[s].pc \notin Approving => \A q \in Slots : q # s => req[q].pc = "idle"
           /\ crossed' = crossed
<1>1. req[s].pc # "idle" /\ Frame(s)
  BY WorkSound DEF Sound
<1>. QED  BY <1>1 DEF Apart, NoQueue, Frame

(* An approver works to the end.                                           *)
LEMMA ApproverGoesOn ==
    ASSUME IInv, Apart, NoQueue, NEW s \in Slots, Works(s), req[s].pc \in Approving
    PROVE  /\ req'[s].pc \in Approving \cup {"idle"}
           /\ UNCHANGED <<wf_queue, round>>
           /\ \/ ApproveAct(s) \/ ApproveClose(s) \/ SettleReject(s) \/ SettleMove(s)
              \/ SettleSearch(s) \/ SettleQueue(s) \/ SettleCount(s)
<1>1. \/ ApproveAct(s) \/ ApproveClose(s) \/ SettleReject(s) \/ SettleMove(s)
      \/ SettleSearch(s) \/ SettleQueue(s) \/ SettleCount(s)
  BY MovedStep, StartedStep, CreatedStep, AssignedStep, EnqueuedStep, SubmittedStep,
     AdvancedStep, EscalatedStep DEF Works, Approving
<1>2. CASE ApproveAct(s) \/ ApproveClose(s)
  BY <1>1, <1>2, ActedStep, ClosedStep DEF Approving
<1>3. CASE SettleReject(s) \/ SettleMove(s)
  BY <1>1, <1>3, EndedStep, IdleIs DEF Approving
<1>4. CASE SettleSearch(s) \/ SettleQueue(s) \/ SettleCount(s)
  <2>1. /\ UNCHANGED <<wf_queue, round>> /\ LooksAt(s, req'[s])
        /\ req'[s] = Idle \/ req'[s].pc \in {"queue", "waiting", "count", "move", "advance"}
    BY <1>4, LookedStep
  <2>2. ASSUME req'[s].pc = "advance" PROVE FALSE
    <3>1. wf_queue # <<>> /\ req[s].pc \in {"queue", "waiting"}
      BY <2>1, <2>2, IdleIs DEF LooksAt
    <3>2. PICK q \in Slots : req[q].pc = "submit"
      BY <3>1 DEF NoQueue
    <3>3. q # s
      BY <3>1, <3>2
    <3>. QED  BY <3>1, <3>2, <3>3 DEF Apart, Approving
  <2>. QED  BY <1>1, <2>1, <2>2, IdleIs DEF Approving
<1>. QED  BY <1>1, <1>2, <1>3, <1>4

LEMMA ApartKept ==
    ASSUME IInv, Apart, NoQueue, NEW s \in Slots, ~crossed', Opens(s) \/ Works(s)
    PROVE  Apart'
<1>1. CASE Opens(s)
  <2>1. /\ \A q \in Slots : q # s => req'[q] = req[q]
        /\ \A q \in Slots : req[q].pc # "idle" => req'[s].pc = "act" /\ req[q].pc \in Approving
    BY <1>1, OpenedStep
  <2>. QED  BY <2>1 DEF Apart, Approving
<1>2. CASE Works(s) /\ req[s].pc \notin Approving
  BY <1>2, Others DEF Apart
<1>3. CASE Works(s) /\ req[s].pc \in Approving
  BY <1>3, Others, ApproverGoesOn DEF Apart
<1>. QED  BY <1>1, <1>2, <1>3

LEMMA QueueKept ==
    ASSUME IInv, Apart, NoQueue, NEW s \in Slots, ~crossed', Opens(s) \/ Works(s)
    PROVE  NoQueue'
<1> DEFINE Fine(r) ==
      /\ r.pc # "advance"
      /\ r.pc = "transition" \/ Submits(r) => After(r).queue = <<>>
<1>1. \A q \in Slots : Fine(req[q])
  BY DEF NoQueue
<1>2. ASSUME NEW r, r.pc \notin Making \cup {"enqueue", "submit", "transition", "advance"}
      PROVE  Fine(r)
  BY <1>2 DEF Submits, After
<1>3. CASE Opens(s)
  <2>1. /\ UNCHANGED wf_queue /\ \A q \in Slots : q # s => req'[q] = req[q]
        /\ req'[s].pc \in {"transition", "act", "escalate"} /\ After(req'[s]) = req'[s]
        /\ req'[s].pc = "transition" => req'[s].queue = wf_queue
        /\ \A q \in Slots : req[q].pc # "idle" => req'[s].pc = "act" /\ req[q].pc \in Approving
    BY <1>3, OpenedStep
  <2>2. \A q \in Slots : req[q].pc # "submit"
    BY <2>1 DEF Approving
  <2>3. Fine(req'[s])
    BY <1>2, <2>1, <2>2 DEF NoQueue, Submits, Making
  <2>. QED  BY <1>1, <2>1, <2>2, <2>3 DEF NoQueue
<1>4. CASE Works(s) /\ req[s].pc \in Approving
  <2>1. /\ req'[s].pc \in Approving \cup {"idle"} /\ UNCHANGED wf_queue
        /\ \A q \in Slots : q # s => req'[q] = req[q]
    BY <1>4, ApproverGoesOn, Others
  <2>2. Fine(req'[s])
    BY <1>2, <2>1 DEF Approving, Making
  <2>3. \A q \in Slots : q # s => req[q].pc # "submit"
    BY <1>4, Others DEF Approving
  <2>4. req[s].pc # "submit"
    BY <1>4 DEF Approving
  <2>. QED  BY <1>1, <2>1, <2>2, <2>3, <2>4 DEF NoQueue
<1>5. CASE Works(s) /\ req[s].pc \notin Approving
  <2>1. /\ \A q \in Slots : q # s => req'[q] = req[q] /\ req[q].pc = "idle"
        /\ req[s].pc # "advance"
    BY <1>5, Others
  <2>2. \A q \in Slots : q # s => Fine(req'[q])
    BY <1>1, <2>1
  <2>3. wf_queue # <<>> => req[s].pc = "submit"
    BY <2>1 DEF NoQueue
  <2>4. SUFFICES Fine(req'[s]) /\ (wf_queue' # <<>> => req'[s].pc = "submit")
    BY <2>1, <2>2 DEF NoQueue
  <2>5. CASE TransitionMove(s)
    <3>1. req[s].pc = "transition" /\ wf_queue' = req[s].queue /\ req'[s] = Idle
      BY <2>5, MovedStep
    <3>2. req[s].queue = <<>>
      BY <1>1, <3>1 DEF After, Making
    <3>. QED  BY <1>2, <3>1, <3>2, IdleIs DEF Making
  <2>6. CASE TransitionSubmit(s)
    <3>1. /\ req[s].pc = "transition" /\ UNCHANGED wf_queue /\ req'[s].pc = "create"
          /\ req'[s].then.queue = req[s].queue
      BY <2>6, StartedStep
    <3>. QED  BY <1>1, <2>3, <3>1 DEF After, Making
  <2>7. CASE Create(s) \/ Assign(s)
    <3>1. /\ req[s].pc \in Making /\ req[s] \in Creating /\ UNCHANGED wf_queue
          /\ After(req'[s]) = req[s].then
          /\ req'[s].pc = "assign" \/ GoesOn(req[s], req'[s])
      BY <2>7, CreatedStep, AssignedStep DEF Making
    <3>2. After(req[s]) = After(req'[s]) /\ req'[s].pc \notin {"transition", "advance"}
      BY <3>1 DEF After, GoesOn, Creating, Submitting, Escalating, Idle
    <3>3. Fine(req'[s])
      BY <1>1, <3>2 DEF Submits
    <3>. QED  BY <2>3, <3>1, <3>3 DEF Making
  <2>8. CASE Enqueue(s)
    <3>1. /\ req[s].pc = "enqueue" /\ req'[s].pc = "submit" /\ req'[s].queue = req[s].queue
      BY <2>8, EnqueuedStep
    <3>. QED  BY <1>1, <3>1 DEF Submits, After, Making
  <2>9. CASE Submit(s)
    <3>1. req[s].pc = "submit" /\ wf_queue' = req[s].queue /\ req'[s] = Idle
      BY <2>9, SubmittedStep
    <3>2. req[s].queue = <<>>
      BY <1>1, <3>1 DEF Submits, After, Making
    <3>. QED  BY <1>2, <3>1, <3>2, IdleIs DEF Making
  <2>10. CASE \E i \in DOMAIN approvals : EscalateOne(s, i)
    <3>1. /\ UNCHANGED wf_queue /\ req[s].pc = "escalate"
          /\ After(req'[s]).pc \in {"idle", "escalate"}
          /\ req'[s].pc \in {"idle", "escalate", "create"}
      BY <2>10, EscalatedStep DEF Cancels
    <3>. QED  BY <2>3, <3>1 DEF Submits
  <2>. QED  BY <1>5, <2>1, <2>5, <2>6, <2>7, <2>8, <2>9, <2>10, ActedStep, ClosedStep,
               EndedStep, LookedStep, AdvancedStep DEF Works, Approving
<1>. QED  BY <1>3, <1>4, <1>5
-----------------------------------------------------------------------------
(* The round that is waited for.                                           *)

LEMMA AskedKept ==
    ASSUME NEW t, Asked(t),
           \A spec : Covered(t, spec) => Covered(t, spec)',
           Asking(t) => Asking(t)'
    PROVE  Asked(t)'
<1>1. CASE Tr[t].strategy = "all"
  <2>1. PICK specs \in Resolve(t) : \A k \in DOMAIN specs : Covered(t, specs[k])
    BY <1>1 DEF Asked
  <2>2. \A k \in DOMAIN specs : Covered(t, specs[k])'
    BY <2>1
  <2>. QED  BY <1>1, <2>2 DEF Asked
<1>2. CASE Tr[t].strategy # "all"
  BY <1>2 DEF Asked
<1>. QED  BY <1>1, <1>2

(* Steps that neither create rows nor cancel them.                         *)
Undisturbed(s) ==
    /\ \A q \in Slots : q # s => req'[q] = req[q]
    /\ round' = round /\ DOMAIN approvals' = DOMAIN approvals
    /\ \A i \in DOMAIN approvals :
         /\ approvals'[i].tr = approvals[i].tr /\ approvals'[i].who = approvals[i].who
         /\ approvals'[i].round = approvals[i].round
         /\ approvals'[i].status = "cancelled" => approvals[i].status = "cancelled"
    /\ req[s].pc \notin Making /\ req'[s].pc \notin Making
LEMMA UndisturbedRound ==
    ASSUME RoundInv, NEW s \in Slots, Undisturbed(s),
           \A q \in Slots : req'[q].pc = "transition" \/ Submits(req'[q]) => pending' = None,
           \A t \in Transitions : Current(t)' => Current(t)
    PROVE  RoundInv'
<1>1. \A t, spec : Coming(t, spec) => Coming(t, spec)'
  <2> SUFFICES ASSUME NEW t, NEW spec, Coming(t, spec)
               PROVE  Coming(t, spec)'
    OBVIOUS
  <2>1. PICK q \in Slots :
          /\ req[q].pc \in Making /\ req[q].tr = t /\ req[q].round = round
          /\ \E k \in DOMAIN ToAsk(req[q]) : ToAsk(req[q])[k] = spec
    BY DEF Coming
  <2>2. req'[q] = req[q] /\ round' = round
    BY <2>1 DEF Undisturbed
  <2>. QED  BY <2>1, <2>2 DEF Coming
<1>2. \A t : OfRound(t)' = OfRound(t)
  BY DEF OfRound, Undisturbed
<1>3. ASSUME NEW t \in Transitions, RoundIs(t)
      PROVE  RoundIs(t)'
  <2>1. \A spec : Covered(t, spec) => Covered(t, spec)'
    BY <1>1, <1>2 DEF Covered, Undisturbed, OfRound
  <2>2. Asking(t) => Asking(t)'
    BY <1>1, <1>2 DEF Asking, Undisturbed, OfRound
  <2>3. Asked(t)'
    BY <1>3, <2>1, <2>2, AskedKept DEF RoundIs
  <2>4. \A i \in DOMAIN approvals' : approvals'[i].round = round' => approvals'[i].tr = t
    BY <1>3 DEF RoundIs, Undisturbed
  <2>5. \A q \in Slots : req'[q].pc \in Making /\ req'[q].round = round' => req'[q].tr = t
    BY <1>3 DEF RoundIs, Undisturbed
  <2>. QED  BY <1>3, <2>3, <2>4, <2>5 DEF RoundIs
<1>4. Rounds'
  <2>1. \A i \in DOMAIN approvals' : approvals'[i].round <= round'
    BY DEF RoundInv, Rounds, Undisturbed
  <2>2. \A q \in Slots :
          /\ req'[q].pc \in Making => req'[q].round <= round'
          /\ req'[q].pc \in Making /\ Submits(req'[q]) => req'[q].round = round'
    BY DEF RoundInv, Rounds, Undisturbed
  <2>. QED  BY <2>1, <2>2 DEF Rounds
<1>. QED  BY <1>3, <1>4 DEF RoundInv

(* A submission begins a round of its own.                                 *)
LEMMA SubmittedRound ==
    ASSUME IInv, Apart, NoQueue, RoundInv, NEW s \in Slots, TransitionSubmit(s)
    PROVE  RoundInv'
<1>0. PICK t \in Transitions : t = req[s].tr
  BY StartedStep
<1>1. /\ req[s].pc = "transition" /\ t \in Transitions /\ Approved(t)
      /\ round' = round + 1 /\ UNCHANGED <<pending, approvals>>
      /\ req'[s] \in Creating /\ req'[s].pc = "create" /\ req'[s].tr = t
      /\ req'[s].round = round' /\ Submits(req'[s])
  BY <1>0, StartedStep
<1>2. PICK specs \in Resolve(t) :
        req'[s].todo = IF Tr[t].strategy = "sequential" THEN <<Head(specs)>> ELSE specs
  BY <1>0, StartedStep
<1>3. \A q \in Slots : q # s => req'[q] = req[q] /\ req[q].pc = "idle"
  BY <1>1, Others DEF Works, Approving
<1>4. \A q \in Slots : q # s => req'[q].pc \notin Making /\ ~Submits(req'[q]) /\ req'[q].pc = "idle"
  BY <1>3 DEF Making, Submits, After
<1>5. pending' = None /\ round \in Nat
  BY <1>1 DEF RoundInv, Rounds, IInv, TypeOK
<1>6. \A i \in DOMAIN approvals : approvals[i].round \in Nat /\ approvals[i].round <= round
  BY RowIs DEF IInv, RoundInv, Rounds
<1>7. Rounds'
  <2>1. \A i \in DOMAIN approvals' : approvals'[i].round <= round'
    BY <1>1, <1>5, <1>6
  <2>2. \A q \in Slots :
          /\ req'[q].pc \in Making => req'[q].round <= round'
          /\ req'[q].pc \in Making /\ Submits(req'[q]) => req'[q].round = round'
          /\ req'[q].pc = "transition" \/ Submits(req'[q]) => pending' = None
    BY <1>1, <1>4, <1>5
  <2>. QED  BY <2>1, <2>2 DEF Rounds
<1>8. \A u \in Transitions : Current(u)' => u = t
  <2>1. \A u \in Transitions : u # None
    BY WorkflowAssumption
  <2>. QED  BY <1>1, <1>4, <1>5, <2>1 DEF Current
<1>9. Asked(t)'
  <2>1. specs \in Seq(Assignee) /\ specs # <<>>
    BY <1>1, ResolveGives
  <2>2. ToAsk(req'[s]) = req'[s].todo
    BY <1>1 DEF ToAsk
  <2> DEFINE q == IF Tr[t].strategy = "sequential" THEN <<Head(specs)>> ELSE specs
  <2>3. \A k \in DOMAIN q : Coming(t, q[k])'
    BY <1>1, <1>2, <2>2 DEF Coming, Making
  <2>4. q \in Seq(Assignee) /\ q # <<>>
    BY <2>1, ListIs
  <2>5. Tr[t].strategy = "all" => q = specs
    OBVIOUS
  <2> HIDE DEF q
  <2>6. 1 \in DOMAIN q /\ q[1] \in Assignee
    BY <2>4, ListIs
  <2>7. Asking(t)'
    BY <2>3, <2>6 DEF Asking
  <2>8. \A k \in DOMAIN q : Covered(t, q[k])'
    BY <2>3 DEF Covered
  <2>. QED  BY <2>5, <2>7, <2>8 DEF Asked
<1>10. RoundIs(t)'
  <2>1. \A i \in DOMAIN approvals' : approvals'[i].round # round'
    BY <1>1, <1>5, <1>6
  <2>2. \A q \in Slots : req'[q].pc \in Making => req'[q].tr = t
    BY <1>1, <1>4
  <2>. QED  BY <1>1, <1>9, <2>1, <2>2 DEF RoundIs
<1>. QED  BY <1>7, <1>8, <1>10 DEF RoundInv

(* Steps that create rows, or put others in the place of some.             *)
Source(t, n) ==
    \/ \E i \in DOMAIN approvals : approvals[i].tr = t /\ approvals[i].round = n
    \/ \E q \in Slots : req[q].pc \in Making /\ req[q].tr = t /\ req[q].round = n
LEMMA GrownRound ==
    ASSUME RoundInv, round' = round,
           \A i \in DOMAIN approvals' : Source(approvals'[i].tr, approvals'[i].round),
           \A q \in Slots : req'[q].pc \in Making => Source(req'[q].tr, req'[q].round),
           \A q \in Slots : req'[q].pc \in Making /\ Submits(req'[q]) => req'[q].round = round,
           \A q \in Slots : req'[q].pc = "transition" \/ Submits(req'[q]) => pending' = None,
           \A t \in Transitions : Current(t)' => Current(t),
           \A t, spec : Covered(t, spec) => Covered(t, spec)',
           \A t : Asking(t) => Asking(t)'
    PROVE  RoundInv'
<1>1. \A t, n : Source(t, n) => n <= round
  BY DEF RoundInv, Rounds, Source
<1>2. Rounds'
  <2>1. \A i \in DOMAIN approvals' : approvals'[i].round <= round'
    BY <1>1
  <2>2. \A q \in Slots :
          /\ req'[q].pc \in Making => req'[q].round <= round'
          /\ req'[q].pc \in Making /\ Submits(req'[q]) => req'[q].round = round'
          /\ req'[q].pc = "transition" \/ Submits(req'[q]) => pending' = None
    BY <1>1
  <2>. QED  BY <2>1, <2>2 DEF Rounds
<1>3. ASSUME NEW t \in Transitions, RoundIs(t)
      PROVE  RoundIs(t)'
  <2>1. Asked(t)'
    BY <1>3, AskedKept DEF RoundIs
  <2>2. \A u : Source(u, round) => u = t
    BY <1>3 DEF RoundIs, Source
  <2>3. \A i \in DOMAIN approvals' : approvals'[i].round = round' => approvals'[i].tr = t
    BY <2>2
  <2>4. \A q \in Slots : req'[q].pc \in Making /\ req'[q].round = round' => req'[q].tr = t
    BY <2>2
  <2>. QED  BY <1>3, <2>1, <2>3, <2>4 DEF RoundIs
<1>. QED  BY <1>2, <1>3 DEF RoundInv

(* The list of those still to be asked, once the first one is.             *)
LEMMA StillToAsk ==
    ASSUME NEW r \in Creating, NEW r2,
           \/ r.pc = "create" /\ r2.pc = "assign" /\ r2.tr = r.tr /\ r2.round = r.round
                /\ r2.todo = r.todo /\ r2.then = r.then
           \/ GoesOn(r, r2)
    PROVE  /\ r2.pc \in Making => r2.tr = r.tr /\ r2.round = r.round
           /\ \A k \in DOMAIN Tail(r.todo) : r2.pc \in Making /\ ToAsk(r2) = Tail(r.todo)
<1>1. r.todo \in Seq(Assignee) /\ r.todo # <<>> /\ r.then.pc \notin Making
  BY DEF Creating, Submitting, Escalating, Idle, Making
<1>2. \A k \in DOMAIN Tail(r.todo) : Len(r.todo) # 1
  BY <1>1, ListIs
<1>. QED  BY <1>1, <1>2 DEF GoesOn, ToAsk, Making

(* A row is created, and its task.                                         *)
LEMMA GoesOnRound ==
    ASSUME IInv, RowKinds, Apart, NoQueue, RoundInv, NEW s \in Slots, Create(s) \/ Assign(s)
    PROVE  RoundInv'
<1>1. PICK r \in Creating, r2 \in Request, n \in Nat :
        /\ r = req[s] /\ r2 = req'[s] /\ r.pc \in Making
        /\ UNCHANGED <<pending, round>>
        /\ \A i \in DOMAIN approvals : i \in DOMAIN approvals' /\ approvals'[i] = approvals[i]
        /\ \/ /\ r.pc = "create" /\ DOMAIN approvals' = DOMAIN approvals \cup {n}
              /\ approvals'[n] = NewApproval(r.tr, Head(r.todo), r.round)
           \/ r.pc = "assign" /\ DOMAIN approvals' = DOMAIN approvals
        /\ \/ r.pc = "create" /\ r2.pc = "assign" /\ r2.tr = r.tr /\ r2.round = r.round
                /\ r2.todo = r.todo /\ r2.then = r.then
           \/ GoesOn(r, r2)
        /\ After(r2) = r.then
  <2>1. Len(approvals) + 1 \in Nat
    BY LenProperties DEF IInv, TypeOK
  <2>2. req'[s] \in Request
    BY WorkSound DEF Works, Sound
  <2>. QED  BY <2>1, <2>2, CreatedStep, AssignedStep DEF Making
<1>2. \A q \in Slots : q # s => req'[q] = req[q] /\ req[q].pc = "idle"
  BY <1>1, Others DEF Works, Making, Approving
<1>3. \A q \in Slots : q # s => req'[q].pc \notin Making \cup {"transition"} /\ ~Submits(req'[q])
  BY <1>2 DEF Making, Submits, After
<1>4. After(r) = r.then /\ r.then.pc \in {"idle", "enqueue", "submit", "escalate"}
  BY <1>1 DEF After, Creating, Submitting, Escalating, Idle
<1>5. Submits(r2) <=> Submits(r)
  BY <1>1, <1>4 DEF Submits
<1>6. r2.pc \in Making => r2.tr = r.tr /\ r2.round = r.round
  BY <1>1, StillToAsk
<1>7. Submits(r) => pending = None /\ r.round = round
  BY <1>1 DEF RoundInv, Rounds
<1>8. r2.pc # "transition"
  BY <1>1, <1>4 DEF GoesOn
<1>9. Submits(r2) => r2.tr = r.tr
  <2>1. RequestKind(r) /\ RowKinds'
    BY <1>1, KindsKept DEF RowKinds, Works
  <2>2. RequestKind(r2)
    BY <1>1, <2>1 DEF RowKinds
  <2>. QED  BY <1>1, <1>4, <1>5, <2>1, <2>2 DEF RequestKind
<1>10. \A t \in Transitions : Current(t)' => Current(t)
  BY <1>1, <1>2, <1>3, <1>5, <1>9 DEF Current
<1>11. Source(r.tr, r.round)
  BY <1>1 DEF Source
<1>12. \A i \in DOMAIN approvals' : Source(approvals'[i].tr, approvals'[i].round)
  <2> SUFFICES ASSUME NEW i \in DOMAIN approvals'
               PROVE  Source(approvals'[i].tr, approvals'[i].round)
    OBVIOUS
  <2>1. CASE i \in DOMAIN approvals
    BY <1>1, <2>1 DEF Source
  <2>2. CASE i \notin DOMAIN approvals
    <3>1. approvals'[i] = NewApproval(r.tr, Head(r.todo), r.round)
      BY <1>1, <2>2
    <3>. QED  BY <1>11, <3>1 DEF NewApproval
  <2>. QED  BY <2>1, <2>2
<1>13. \A t, spec : Coming(t, spec) =>
         \/ Coming(t, spec)'
         \/ \E i \in OfRound(t)' : approvals'[i].who = spec.who /\ approvals'[i].status = "pending"
  <2> SUFFICES ASSUME NEW t, NEW spec, Coming(t, spec)
               PROVE  \/ Coming(t, spec)'
                      \/ \E i \in OfRound(t)' :
                           approvals'[i].who = spec.who /\ approvals'[i].status = "pending"
    OBVIOUS
  <2>1. r.tr = t /\ r.round = round /\ \E k \in DOMAIN ToAsk(r) : ToAsk(r)[k] = spec
    BY <1>1, <1>2 DEF Coming, Making
  <2>2. PICK k \in DOMAIN ToAsk(r) : ToAsk(r)[k] = spec
    BY <2>1
  <2>3. r.todo \in Seq(Assignee) /\ r.todo # <<>>
    BY DEF Creating
  <2>4. ASSUME NEW l \in DOMAIN Tail(r.todo), Tail(r.todo)[l] = spec
        PROVE  Coming(t, spec)'
    <3>1. r2.pc \in Making /\ ToAsk(r2) = Tail(r.todo) /\ r2.tr = t /\ r2.round = round
      BY <1>1, <2>1, <2>4, StillToAsk
    <3>. QED  BY <1>1, <2>4, <3>1 DEF Coming
  <2>5. CASE r.pc = "assign"
    BY <2>2, <2>4, <2>5 DEF ToAsk
  <2>6. CASE r.pc = "create" /\ k = 1
    <3>1. spec = Head(r.todo)
      BY <2>2, <2>3, <2>6, ListIs DEF ToAsk
    <3>2. approvals'[n] = NewApproval(t, spec, round) /\ n \in DOMAIN approvals'
      BY <1>1, <2>1, <2>6, <3>1
    <3>3. /\ approvals'[n].tr = t /\ approvals'[n].round = round' /\ approvals'[n].who = spec.who
          /\ approvals'[n].status = "pending"
      BY <1>1, <3>2 DEF NewApproval
    <3>4. n \in OfRound(t)'
      BY <3>2, <3>3 DEF OfRound
    <3>. QED  BY <3>3, <3>4
  <2>7. CASE r.pc = "create" /\ k # 1
    <3>1. k \in DOMAIN r.todo /\ r.todo[k] = spec
      BY <2>2, <2>7 DEF ToAsk
    <3>2. /\ Len(r.todo) \in Nat /\ DOMAIN r.todo = 1..Len(r.todo)
          /\ DOMAIN Tail(r.todo) = 1..(Len(r.todo) - 1)
          /\ \A l \in DOMAIN Tail(r.todo) : Tail(r.todo)[l] = r.todo[l + 1]
      BY <2>3, ListIs
    <3>3. k - 1 \in DOMAIN Tail(r.todo) /\ (k - 1) + 1 = k
      BY <2>7, <3>1, <3>2
    <3>. QED  BY <2>4, <3>1, <3>2, <3>3
  <2>. QED  BY <1>1, <2>5, <2>6, <2>7 DEF Making
<1>14. \A t, i : i \in OfRound(t) => i \in OfRound(t)' /\ approvals'[i] = approvals[i]
  BY <1>1 DEF OfRound
<1>15. \A t, spec : Covered(t, spec) => Covered(t, spec)'
  BY <1>13, <1>14 DEF Covered
<1>16. \A t : Asking(t) => Asking(t)'
  BY <1>13, <1>14 DEF Asking
<1>17. /\ \A q \in Slots : req'[q].pc \in Making => Source(req'[q].tr, req'[q].round)
       /\ \A q \in Slots : req'[q].pc \in Making /\ Submits(req'[q]) => req'[q].round = round
       /\ \A q \in Slots : req'[q].pc = "transition" \/ Submits(req'[q]) => pending' = None
  BY <1>1, <1>3, <1>5, <1>6, <1>7, <1>8, <1>11
<1>. QED  BY <1>1, <1>10, <1>12, <1>15, <1>16, <1>17, GrownRound

(* A row is cancelled, and the group's row comes in its place.             *)
LEMMA EscalatedRound ==
    ASSUME IInv, Apart, NoQueue, RoundInv, NEW s \in Slots, NEW i \in DOMAIN approvals,
           EscalateOne(s, i), Cancels(s, i)
    PROVE  RoundInv'
<1>1. PICK t \in Transitions : t = approvals[i].tr
  BY RowIs DEF IInv
<1>2. PICK n \in Nat : n = approvals[i].round
  BY RowIs DEF IInv
<1>3. PICK r2 \in Creating :
        /\ r2 = req'[s] /\ r2.pc = "create" /\ r2.tr = t /\ r2.round = n
        /\ r2.todo = <<Group(Tr[t].escalate)>> /\ ~Submits(r2)
  BY <1>1, <1>2, EscalatedStep DEF Cancels, Submits
<1>4. /\ DOMAIN approvals' = DOMAIN approvals /\ UNCHANGED <<pending, round>>
      /\ \A k \in DOMAIN approvals :
           /\ approvals'[k].tr = approvals[k].tr /\ approvals'[k].round = approvals[k].round
           /\ approvals'[k].who = approvals[k].who
           /\ k # i => approvals'[k] = approvals[k]
      /\ req[s].pc = "escalate"
  BY EscalatedStep DEF Cancels
<1>5. \A q \in Slots : q # s => req'[q] = req[q] /\ req[q].pc = "idle"
  BY <1>4, Others DEF Works, Approving
<1>6. \A q \in Slots : q # s => req'[q].pc \notin Making \cup {"transition"} /\ ~Submits(req'[q])
  BY <1>5 DEF Making, Submits, After
<1>7. \A u, spec : ~Coming(u, spec)
  BY <1>4, <1>5 DEF Coming, Making
<1>8. \A u : OfRound(u)' = OfRound(u)
  BY <1>4 DEF OfRound
<1>9. \A u, spec : Covered(u, spec) => Covered(u, spec)'
  BY <1>4, <1>7, <1>8 DEF Covered, OfRound
<1>10. ASSUME NEW u, Asking(u) PROVE Asking(u)'
  <2>1. PICK j \in OfRound(u) : approvals[j].status # "cancelled"
    BY <1>7, <1>10 DEF Asking
  <2>2. CASE j # i
    BY <1>4, <1>8, <2>1, <2>2 DEF Asking, OfRound
  <2>3. CASE j = i
    <3> DEFINE g == Group(Tr[t].escalate)
    <3>1. t = u /\ n = round'
      BY <1>1, <1>2, <1>4, <2>1, <2>3 DEF OfRound
    <3>2. g \in Assignee
      <4>1. Tr[t].escalate \in SUBSET Users
        BY WorkflowAssumption DEF TransitionDef
      <4>. QED  BY <4>1 DEF Group, Assignee
    <3> HIDE DEF g
    <3>3. ToAsk(r2) = <<g>> /\ 1 \in DOMAIN <<g>> /\ <<g>>[1] = g
      BY <1>3 DEF ToAsk, g
    <3>4. Coming(u, g)'
      BY <1>3, <3>1, <3>3 DEF Coming, Making
    <3>. QED  BY <3>2, <3>4 DEF Asking
  <2>. QED  BY <2>2, <2>3
<1>11. \A u \in Transitions : Current(u)' => Current(u)
  BY <1>3, <1>4, <1>6 DEF Current
<1>12. \A k \in DOMAIN approvals' : Source(approvals'[k].tr, approvals'[k].round)
  BY <1>4 DEF Source
<1>13. \A q \in Slots : req'[q].pc \in Making => Source(req'[q].tr, req'[q].round)
  BY <1>1, <1>2, <1>3, <1>6 DEF Source
<1>14. /\ \A q \in Slots : req'[q].pc # "transition" /\ ~Submits(req'[q])
  BY <1>3, <1>6
<1>. QED  BY <1>4, <1>9, <1>10, <1>11, <1>12, <1>13, <1>14, GrownRound

LEMMA RoundKept ==
    ASSUME IInv, RowKinds, Apart, NoQueue, RoundInv, NEW s \in Slots, ~crossed',
           Opens(s) \/ Works(s)
    PROVE  RoundInv'
<1>1. \A q \in Slots : req[q].pc = "transition" \/ Submits(req[q]) => pending = None
  BY DEF RoundInv, Rounds
<1>2. Idle.pc = "idle" /\ ~Submits(Idle) /\ \A r : r.pc = "idle" => ~Submits(r)
  BY IdleIs DEF Submits, After, Making
<1>3. \A q \in Slots : q # s => req'[q] = req[q]
  BY OpenedStep, WorkSound DEF Sound, Frame
<1>4. \A t \in Transitions : t # None
  BY WorkflowAssumption
<1>5. CASE Opens(s)
  <2>1. /\ UNCHANGED <<pending, approvals, round>> /\ req[s] = Idle
        /\ req'[s].pc \in {"transition", "act", "escalate"} /\ After(req'[s]) = req'[s]
        /\ req'[s].pc = "transition" => pending = None
    BY <1>5, OpenedStep
  <2>2. ~Submits(req'[s])
    BY <2>1 DEF Submits
  <2>3. Undisturbed(s)
    BY <1>2, <1>3, <2>1 DEF Undisturbed, Making
  <2>4. \A t \in Transitions : Current(t)' => Current(t)
    BY <1>3, <2>1, <2>2 DEF Current
  <2>. QED  BY <1>1, <1>3, <2>1, <2>2, <2>3, <2>4, UndisturbedRound
<1>6. CASE TransitionMove(s) \/ SettleReject(s) \/ SettleMove(s)
  <2>1. /\ pending' = None /\ UNCHANGED <<approvals, round>> /\ req'[s] = Idle
        /\ req[s].pc \in {"transition", "settle", "move"}
    BY <1>6, MovedStep, EndedStep
  <2>2. \A q \in Slots : q # s => req[q].pc \in Approving \cup {"idle"}
    BY <1>6, Others DEF Works
  <2>3. \A q \in Slots : ~Submits(req'[q])
    BY <1>2, <1>3, <2>1, <2>2 DEF Submits, After, Making, Approving
  <2>4. Undisturbed(s)
    BY <1>2, <1>3, <2>1 DEF Undisturbed, Making
  <2>5. \A t \in Transitions : ~Current(t)'
    BY <1>4, <2>1, <2>3 DEF Current
  <2>. QED  BY <2>1, <2>4, <2>5, UndisturbedRound
<1>7. CASE TransitionSubmit(s)
  BY <1>7, SubmittedRound
<1>8. CASE Create(s) \/ Assign(s)
  BY <1>8, GoesOnRound
<1>9. CASE Enqueue(s)
  <2>1. /\ req[s].pc = "enqueue" /\ req'[s].pc = "submit" /\ req'[s].tr = req[s].tr
        /\ UNCHANGED <<pending, approvals, round>>
    BY <1>9, EnqueuedStep
  <2>2. Submits(req[s]) /\ Submits(req'[s])
    BY <2>1 DEF Submits, After, Making
  <2>3. Undisturbed(s)
    BY <1>3, <2>1 DEF Undisturbed, Making
  <2>4. \A t \in Transitions : Current(t)' => Current(t)
    BY <1>3, <2>1, <2>2 DEF Current
  <2>. QED  BY <1>1, <1>3, <2>1, <2>2, <2>3, <2>4, UndisturbedRound
<1>10. CASE Submit(s)
  <2>1. /\ req[s].pc = "submit" /\ req'[s] = Idle /\ pending' = req[s].tr
        /\ UNCHANGED <<approvals, round>>
    BY <1>10, SubmittedStep
  <2>2. \A q \in Slots : q # s => req[q].pc = "idle"
    BY <1>10, <2>1, Others DEF Works, Approving
  <2>3. Submits(req[s])
    BY <2>1 DEF Submits, After, Making
  <2>4. \A q \in Slots : ~Submits(req'[q]) /\ req'[q].pc = "idle"
    BY <1>2, <1>3, <2>1, <2>2
  <2>5. Undisturbed(s)
    BY <1>2, <1>3, <2>1 DEF Undisturbed, Making
  <2>6. \A t \in Transitions : Current(t)' => Current(t)
    BY <2>1, <2>3, <2>4 DEF Current
  <2>. QED  BY <2>4, <2>5, <2>6, UndisturbedRound
<1>11. CASE \/ ApproveAct(s) \/ ApproveClose(s)
            \/ SettleSearch(s) \/ SettleQueue(s) \/ SettleCount(s)
  <2>1. req[s].pc \in Approving
    BY <1>11, ActedStep, ClosedStep, LookedStep DEF Approving
  <2>2. req'[s].pc \in Approving \cup {"idle"}
    BY <1>11, <2>1, ApproverGoesOn DEF Works
  <2>3. ~Submits(req'[s]) /\ req'[s].pc # "transition"
    BY <2>2 DEF Submits, After, Making, Approving
  <2>4. Undisturbed(s) /\ UNCHANGED pending
    <3>1. req[s].pc \notin Making /\ req'[s].pc \notin Making
      BY <2>1, <2>2 DEF Making, Approving
    <3>2. CASE ApproveAct(s)
      BY <1>3, <3>1, <3>2, ActedStep DEF Undisturbed
    <3>. QED  BY <1>3, <1>11, <3>1, <3>2, ClosedStep, LookedStep DEF Undisturbed
  <2>5. \A t \in Transitions : Current(t)' => Current(t)
    BY <1>3, <2>3, <2>4 DEF Current
  <2>. QED  BY <1>1, <1>3, <2>3, <2>4, <2>5, UndisturbedRound
<1>12. CASE Advance(s)
  BY <1>12, Others, AdvancedStep DEF Works
<1>13. ASSUME NEW i \in DOMAIN approvals, EscalateOne(s, i)
       PROVE  RoundInv'
  <2>1. CASE UNCHANGED approvals /\ req'[s].pc \in {"idle", "escalate"}
    <3>1. UNCHANGED <<pending, round>> /\ req[s].pc = "escalate"
      BY <1>13, EscalatedStep
    <3>2. ~Submits(req'[s])
      BY <2>1 DEF Submits, After, Making
    <3>3. Undisturbed(s)
      BY <1>3, <2>1, <3>1 DEF Undisturbed, Making
    <3>4. \A t \in Transitions : Current(t)' => Current(t)
      BY <1>3, <3>1, <3>2 DEF Current
    <3>. QED  BY <1>1, <1>3, <2>1, <3>1, <3>2, <3>3, <3>4, UndisturbedRound
  <2>. QED  BY <1>13, <2>1, EscalatedStep, EscalatedRound
<1>. QED  BY <1>5, <1>6, <1>7, <1>8, <1>9, <1>10, <1>11, <1>12, <1>13 DEF Works
-----------------------------------------------------------------------------
(* Signatures.                                                             *)

(* A search that finds nothing missing, of a transition still waited for,  *)
(* is of one that has been signed.                                         *)
LEMMA CompleteIsSigned ==
    ASSUME IInv, RowKinds, Apart, NoQueue, RoundInv, SignedInv, NEW s \in Slots,
           req[s].pc = "count", NEW t \in Transitions, t = Deciding(s), pending = t, Counted(s, t)
    PROVE  SignedOff(t)
<1>1. /\ req[s].appr \in DOMAIN approvals /\ approvals[req[s].appr].signed
      /\ Rows(t, "pending") = {}
  BY DecidingIs DEF SignedInv, Approving
<1>2. Asked(t)
  BY DEF RoundInv, RoundIs, Current
<1>3. \A q \in Slots : req[q].pc \notin Making
  BY DEF Apart, Approving, Making
<1>4. \A spec : ~Coming(t, spec)
  BY <1>3 DEF Coming
<1>5. \A i \in OfRound(t) : /\ i \in DOMAIN approvals /\ approvals[i].tr = t
                            /\ approvals[i].status # "pending"
                            /\ i # req[s].appr => approvals[i].status # "rejected"
  BY <1>1 DEF Counted, Rows, OfRound
<1>6. \A i \in DOMAIN approvals :
        approvals[i].status \in {"pending", "approved", "rejected", "cancelled"}
  BY RowIs DEF IInv, Approval
<1>7. \A i \in OfRound(t) : approvals[i].status # "cancelled" => approvals[i].signed
  <2> SUFFICES ASSUME NEW i \in OfRound(t), approvals[i].status # "cancelled"
               PROVE  approvals[i].signed
    OBVIOUS
  <2>1. CASE i = req[s].appr
    BY <1>1, <2>1
  <2>2. CASE i # req[s].appr
    BY <1>5, <1>6, <2>2 DEF RowKinds, RowKind
  <2>. QED  BY <2>1, <2>2
<1>8. CASE Tr[t].strategy = "all"
  <2>1. \A i \in OfRound(t) : approvals[i].signed
    BY <1>1, <1>5, <1>7, <1>8 DEF Counted, Rows
  <2>2. PICK specs \in Resolve(t) : \A k \in DOMAIN specs : Covered(t, specs[k])
    BY <1>2, <1>8 DEF Asked
  <2>3. \A k \in DOMAIN specs :
          \E i \in {j \in OfRound(t) : approvals[j].signed} : approvals[i].who = specs[k].who
    BY <1>4, <2>1, <2>2 DEF Covered
  <2>. QED  BY <1>8, <2>3 DEF SignedOff
<1>9. CASE Tr[t].strategy # "all"
  <2>1. \E i \in OfRound(t) : approvals[i].status # "cancelled"
    BY <1>2, <1>4, <1>9 DEF Asked, Asking
  <2>. QED  BY <1>7, <1>9, <2>1 DEF SignedOff
<1>. QED  BY <1>8, <1>9

(* Signatures last.                                                        *)
RowsLast ==
    /\ round' = round /\ DOMAIN approvals' = DOMAIN approvals
    /\ \A i \in DOMAIN approvals :
         /\ approvals'[i].tr = approvals[i].tr /\ approvals'[i].who = approvals[i].who
         /\ approvals'[i].round = approvals[i].round
         /\ approvals'[i].status = "pending" => approvals[i].status = "pending"
         /\ approvals[i].signed => approvals'[i].signed
LEMMA SignaturesLast ==
    ASSUME RowsLast, NEW t
    PROVE  /\ SignedOff(t) => SignedOff(t)'
           /\ Rows(t, "pending") = {} => Rows(t, "pending")' = {}
<1>1. OfRound(t)' = OfRound(t)
  BY DEF OfRound, RowsLast
<1>2. \A i \in OfRound(t) : /\ approvals'[i].who = approvals[i].who
                            /\ approvals[i].signed => approvals'[i].signed
  BY DEF OfRound, RowsLast
<1>3. SignedOff(t) => SignedOff(t)'
  <2> DEFINE ok == {i \in OfRound(t) : approvals[i].signed}
  <2>1. \A i \in ok : i \in ok' /\ approvals'[i].who = approvals[i].who
    BY <1>1, <1>2
  <2>2. CASE Tr[t].strategy = "all"
    <3> SUFFICES ASSUME SignedOff(t) PROVE SignedOff(t)'
      OBVIOUS
    <3>1. PICK specs \in Resolve(t) :
            \A k \in DOMAIN specs : \E i \in ok : approvals[i].who = specs[k].who
      BY <2>2 DEF SignedOff
    <3>2. \A k \in DOMAIN specs : \E i \in ok' : approvals'[i].who = specs[k].who
      BY <2>1, <3>1
    <3>. QED  BY <2>2, <3>2 DEF SignedOff
  <2>3. CASE Tr[t].strategy # "all"
    BY <2>1, <2>3 DEF SignedOff
  <2>. QED  BY <2>2, <2>3
<1>4. Rows(t, "pending") = {} => Rows(t, "pending")' = {}
  BY DEF Rows, RowsLast
<1>. QED  BY <1>3, <1>4

(* What a request of an approver relies on.                                *)
Signs(q) ==
    /\ req[q].pc \in {"close", "settle"} /\ req[q].ok => approvals[req[q].appr].signed
    /\ req[q].pc \in {"queue", "waiting", "count"} => approvals[req[q].appr].signed
    /\ req[q].pc \in {"queue", "count"} => Rows(Deciding(q), "pending") = {}
    /\ req[q].pc = "move" /\ pending = Deciding(q) => SignedOff(Deciding(q))
LEMMA SignsLasts ==
    ASSUME IInv, RowsLast, NEW q \in Slots, Signs(q), req'[q] = req[q],
           pending' \in {pending, None}
    PROVE  Signs(q)'
<1>1. CASE req[q].pc \notin {"close", "settle", "queue", "waiting", "count", "move"}
  BY <1>1 DEF Signs
<1>2. CASE req[q].pc \in {"close", "settle", "queue", "waiting", "count", "move"}
  <2>1. PICK t \in Transitions : t = Deciding(q)
    BY <1>2, DecidingIs DEF Approving
  <2>2. /\ req[q].appr \in DOMAIN approvals /\ Deciding(q)' = t
        /\ approvals[req[q].appr].signed => approvals'[req[q].appr].signed
    BY <1>2, <2>1, DecidingIs DEF Approving, RowsLast, Deciding
  <2>3. /\ SignedOff(t) => SignedOff(t)'
        /\ Rows(t, "pending") = {} => Rows(t, "pending")' = {}
    BY SignaturesLast
  <2>4. /\ req[q].pc \in {"queue", "count"} => Rows(t, "pending")' = {}
        /\ req[q].pc = "move" /\ pending' = t => SignedOff(t)'
    BY <2>1, <2>3, WorkflowAssumption DEF Signs
  <2>5. /\ req'[q].pc \in {"close", "settle"} /\ req'[q].ok => approvals'[req'[q].appr].signed
        /\ req'[q].pc \in {"queue", "waiting", "count"} => approvals'[req'[q].appr].signed
    BY <2>2 DEF Signs
  <2>6. \A u : u = Deciding(q)' => u = t
    BY <2>2
  <2>7. /\ Rows(Deciding(q), "pending")' = Rows(t, "pending")'
        /\ SignedOff(Deciding(q))' <=> SignedOff(t)'
    BY <2>2 DEF Rows, SignedOff, OfRound
  <2>. QED  BY <2>2, <2>4, <2>5, <2>7 DEF Signs
<1>. QED  BY <1>1, <1>2

LEMMA SignedKept ==
    ASSUME IInv, RowKinds, Apart, NoQueue, RoundInv, SignedInv, NEW s \in Slots, ~crossed',
           Opens(s) \/ Works(s)
    PROVE  SignedInv'
<1>1. \A q \in Slots : Signs(q)
  BY DEF SignedInv, Signs
<1>2. SUFFICES \A q \in Slots : Signs(q)'
  BY DEF SignedInv, Signs
<1>3. \A q \in Slots : q # s => req'[q] = req[q]
  BY OpenedStep, WorkSound DEF Sound, Frame
<1>4. ASSUME NEW q \in Slots,
             req'[q].pc \notin {"close", "settle", "queue", "waiting", "count", "move"}
      PROVE  Signs(q)'
  BY <1>4 DEF Signs
<1>5. UNCHANGED <<approvals, round>> => RowsLast
  BY DEF RowsLast
<1>6. CASE Opens(s)
  <2>1. UNCHANGED <<approvals, round, pending>> /\ req'[s].pc \in {"transition", "act", "escalate"}
    BY <1>6, OpenedStep
  <2>. QED  BY <1>1, <1>3, <1>4, <1>5, <2>1, SignsLasts
<1>7. CASE Works(s) /\ req[s].pc \notin Approving
  <2>1. \A q \in Slots : q # s => req'[q].pc = "idle"
    BY <1>3, <1>7, Others
  <2>2. req'[s].pc \notin Approving
    <3>1. CASE TransitionMove(s) \/ TransitionSubmit(s) \/ Enqueue(s) \/ Submit(s)
      BY <3>1, MovedStep, StartedStep, EnqueuedStep, SubmittedStep, IdleIs DEF Approving
    <3>2. CASE Create(s) \/ Assign(s)
      <4>1. req[s] \in Creating /\ (req'[s].pc = "assign" \/ GoesOn(req[s], req'[s]))
        BY <3>2, CreatedStep, AssignedStep
      <4>2. req[s].then.pc \in {"idle", "enqueue", "submit", "escalate"}
        BY <4>1 DEF Creating, Submitting, Escalating, Idle
      <4>. QED  BY <4>1, <4>2 DEF GoesOn, Approving
    <3>3. CASE Advance(s)
      BY <3>3, AdvancedStep DEF Approving
    <3>4. CASE \E i \in DOMAIN approvals : EscalateOne(s, i)
      BY <3>4, EscalatedStep DEF Cancels, Approving
    <3>. QED  BY <1>7, <3>1, <3>2, <3>3, <3>4, ActedStep, ClosedStep, EndedStep, LookedStep
              DEF Works, Approving
  <2>. QED  BY <1>4, <2>1, <2>2 DEF Approving
<1>8. CASE Works(s) /\ req[s].pc \in Approving
  <2>1. \/ ApproveAct(s) \/ ApproveClose(s) \/ SettleReject(s) \/ SettleMove(s)
        \/ SettleSearch(s) \/ SettleQueue(s) \/ SettleCount(s)
    BY <1>8, ApproverGoesOn
  <2>2. RowsLast /\ pending' \in {pending, None}
    BY <1>5, <2>1, ActedStep, ClosedStep, EndedStep, LookedStep DEF RowsLast
  <2>3. \A q \in Slots : q # s => Signs(q)'
    BY <1>1, <1>3, <2>2, SignsLasts
  <2>4. CASE ApproveAct(s)
    <3>1. req'[s].pc = "close" /\ (req'[s].ok => approvals'[req'[s].appr].signed)
      BY <2>4, ActedStep
    <3>2. Signs(s)'
      BY <3>1 DEF Signs
    <3>. QED  BY <2>3, <3>2
  <2>5. CASE ApproveClose(s)
    <3>1. /\ req'[s].pc = "settle" /\ req[s].pc = "close" /\ req'[s].ok = req[s].ok
          /\ req'[s].appr = req[s].appr /\ UNCHANGED approvals
      BY <2>5, ClosedStep
    <3>2. Signs(s)'
      BY <1>1, <3>1 DEF Signs
    <3>. QED  BY <2>3, <3>2
  <2>6. CASE SettleReject(s) \/ SettleMove(s)
    <3>1. req'[s].pc = "idle"
      BY <2>6, EndedStep, IdleIs
    <3>. QED  BY <1>4, <2>3, <3>1
  <2>7. CASE SettleSearch(s) \/ SettleQueue(s) \/ SettleCount(s)
    <3>1. /\ UNCHANGED <<pending, approvals, round>> /\ LooksAt(s, req'[s])
          /\ \/ req'[s].pc = "idle"
             \/ /\ req'[s].pc \in {"queue", "waiting", "count", "move", "advance"}
                /\ req'[s].appr = req[s].appr
      BY <2>7, LookedStep, IdleIs
    <3>2. CASE req'[s].pc = "idle" \/ req'[s].pc = "advance"
      BY <1>4, <2>3, <3>2
    <3>3. CASE req'[s].pc \in {"queue", "waiting", "count", "move"}
      <4>1. req'[s] # Idle /\ req'[s].appr = req[s].appr
        BY <3>1, <3>3, IdleIs
      <4>2. PICK t \in Transitions : t = Deciding(s)
        BY <1>8, DecidingIs
      <4>3. Deciding(s)' = t
        BY <3>1, <4>1, <4>2 DEF Deciding
      <4>4. /\ Rows(Deciding(s), "pending")' = Rows(t, "pending")
            /\ SignedOff(Deciding(s))' <=> SignedOff(t)
        BY <3>1, <4>3 DEF Rows, SignedOff, OfRound
      <4>5. \/ /\ req[s].pc = "settle" /\ req[s].ok /\ req'[s].pc \in {"queue", "waiting"}
               /\ req'[s].pc = "queue" => Rows(t, "pending") = {}
            \/ req[s].pc = "queue" /\ req'[s].pc = "count"
            \/ req[s].pc = "count" /\ req'[s].pc = "move" /\ Counted(s, t)
        BY <3>1, <3>3, <4>1, <4>2 DEF LooksAt
      <4>6. req[s].pc = "count" /\ Counted(s, t) /\ pending = t => SignedOff(t)
        BY <4>2, CompleteIsSigned
      <4>7. \/ req[s].pc = "settle" /\ req[s].ok => approvals[req[s].appr].signed
        BY <1>1 DEF Signs
      <4>8. req[s].pc \in {"queue", "waiting", "count"} =>
              /\ approvals[req[s].appr].signed
              /\ req[s].pc = "queue" => Rows(t, "pending") = {}
        BY <1>1, <4>2 DEF Signs
      <4>9. Signs(s)'
        BY <3>1, <4>1, <4>3, <4>4, <4>5, <4>6, <4>7, <4>8 DEF Signs
      <4>. QED  BY <2>3, <4>9
    <3>. QED  BY <3>1, <3>2, <3>3
  <2>. QED  BY <2>1, <2>4, <2>5, <2>6, <2>7
<1>. QED  BY <1>6, <1>7, <1>8

LEMMA RoundsInit == Init => RInv
<1> SUFFICES ASSUME Init PROVE RInv
  OBVIOUS
<1>1. IInv
  BY InitInv
<1>2. /\ pending = None /\ wf_queue = <<>> /\ approvals = <<>> /\ round = 0
      /\ req = [s \in Slots |-> Idle]
  BY DEF Init
<1>3. \A s \in Slots : req[s].pc = "idle" /\ ~Submits(req[s])
  BY <1>2, IdleIs DEF Submits
<1>4. DOMAIN approvals = {}
  BY <1>2
<1>5. RowKinds
  BY <1>3, <1>4 DEF RowKinds, RequestKind, Making
<1>6. Apart /\ NoQueue /\ SignedInv
  BY <1>2, <1>3 DEF Apart, NoQueue, SignedInv
<1>7. \A t \in Transitions : ~Current(t)
  BY <1>2, <1>3, WorkflowAssumption DEF Current
<1>8. RoundInv
  BY <1>3, <1>4, <1>7 DEF RoundInv, Rounds, Making
<1>. QED  BY <1>1, <1>5, <1>6, <1>8 DEF RInv, CInv

LEMMA RoundsStutter ==
    ASSUME RInv, UNCHANGED vars
    PROVE  RInv'
<1>1. UNCHANGED <<state, pending, wf_queue, approvals, task, req, round, overlapped, crossed>>
  BY DEF vars
<1>2. IInv'
  BY StutterInv DEF RInv
<1>3. RowKinds'
  BY <1>1 DEF RInv, RowKinds
<1>4. Apart' = Apart /\ NoQueue' = NoQueue
  BY <1>1 DEF Apart, NoQueue
<1>5. \A t : Current(t)' = Current(t) /\ RoundIs(t)' = RoundIs(t)
  BY <1>1 DEF Current, RoundIs, Asked, Asking, Covered, Coming, OfRound
<1>6. RoundInv' = RoundInv
  BY <1>1, <1>5 DEF RoundInv, Rounds
<1>7. SignedInv' = SignedInv
  BY <1>1 DEF SignedInv, Deciding, Rows, SignedOff, OfRound
<1>. QED  BY <1>1, <1>2, <1>3, <1>4, <1>6, <1>7 DEF RInv, CInv

LEMMA RoundsKept == RInv /\ [Next]_vars => RInv'
<1> SUFFICES ASSUME RInv, [Next]_vars PROVE RInv'
  OBVIOUS
<1>1. CASE UNCHANGED vars
  BY <1>1, RoundsStutter
<1>2. CASE Next
  <2>1. PICK s \in Slots : Opens(s) \/ Works(s)
    BY <1>2, StepsOf DEF RInv
  <2>2. IInv' /\ RowKinds'
    BY <1>2, <2>1, NextInv, KindsKept DEF RInv
  <2>3. ~crossed' => ~crossed
    BY <2>1, OpenedStep, WorkSound DEF RInv, Sound, Frame
  <2>4. CInv'
    BY <2>1, <2>3, ApartKept, QueueKept, RoundKept, SignedKept DEF RInv, CInv
  <2>. QED  BY <2>2, <2>4 DEF RInv
<1>. QED  BY <1>1, <1>2

LEMMA RoundsAlways == Spec => []RInv
BY RoundsInit, RoundsKept, PTL DEF Spec

(* While only approvers overlap, an approval completes a transition only   *)
(* with the signatures its strategy asks for, given since it was submitted *)
(* last: whatever the definition, if nothing else leads where an approval  *)
(* leads.                                                                  *)
THEOREM CompletesWhenSigned ==
    ASSUME OneWayIn
    PROVE  Spec => CompletedWhenSigned
<1> DEFINE Signed ==
      \A t \in Transitions :
         (/\ ~crossed /\ pending = t /\ pending' = None
          /\ state' = Tr[t].to /\ state' # Tr[t].reject_to)
           => SignedOff(t)
<1>1. ASSUME RInv, Next, NEW t \in Transitions, ~crossed, pending = t, pending' = None,
             state' = Tr[t].to, state' # Tr[t].reject_to
      PROVE  SignedOff(t)
  <2>1. PICK s \in Slots : Opens(s) \/ Works(s)
    BY <1>1, StepsOf DEF RInv
  <2>2. t # None /\ Approved(t)
    BY <1>1, WorkflowAssumption DEF RInv, CInv, RoundInv, RoundIs, Current
  <2>3. req[s].pc # "transition" /\ IInv
    BY <1>1, <2>2 DEF RInv, CInv, RoundInv, Rounds
  <2>4. SettleReject(s) \/ SettleMove(s)
    <3>1. pending' # pending
      BY <1>1, <2>2
    <3>2. ~Opens(s) /\ ~TransitionMove(s) /\ ~TransitionSubmit(s)
      BY <2>3, <3>1, OpenedStep, MovedStep, StartedStep
    <3>3. ~Submit(s)
      <4>1. ASSUME Submit(s) PROVE pending' # None
        BY <2>3, <4>1, SubmittedStep, WorkflowAssumption
      <4>. QED  BY <1>1, <4>1
    <3>. QED  BY <2>1, <2>3, <3>1, <3>2, <3>3, CreatedStep, AssignedStep, EnqueuedStep,
                 ActedStep, ClosedStep, LookedStep, AdvancedStep, EscalatedStep DEF Works
  <2>5. PICK u \in Transitions : u = Deciding(s)
    BY <2>3, <2>4, EndedStep
  <2>6. \/ req[s].pc = "settle" /\ state' = Tr[u].reject_to
        \/ req[s].pc = "move" /\ state' = Tr[u].to
    BY <2>3, <2>4, <2>5, EndedStep
  <2>7. u = t
    BY <1>1, <2>2, <2>6 DEF OneWayIn
  <2>8. req[s].pc = "move" /\ pending = Deciding(s)
    BY <1>1, <2>5, <2>6, <2>7
  <2>. QED  BY <1>1, <2>5, <2>7, <2>8 DEF RInv, CInv, SignedInv
<1>2. RInv /\ [Next]_vars => [Signed]_vars
  BY <1>1
<1>. QED  BY <1>2, RoundsAlways, PTL DEF CompletedWhenSigned, Spec
-----------------------------------------------------------------------------
(* One request at a time.                                                  *)

PendingRows == {i \in DOMAIN approvals : approvals[i].status = "pending"}
Deciders == {"close", "settle", "queue", "waiting", "count", "move"}

(* What is still to be signed is waited for, or is about to be, or others  *)
(* have rejected it.                                                       *)
Live(t) ==
    \/ pending = t /\ state \in Tr[t].from
    \/ \E s \in Slots : Submits(req[s]) /\ req[s].tr = t
    \/ /\ Joint(t) /\ pending = None /\ state = Tr[t].reject_to
       /\ Rows(t, "rejected") # {}

(* The state has not changed since the request looked, and all that is     *)
(* still to be signed is of one transition.                                *)
AlongOf(r) ==
    /\ r.pc = "transition" \/ Submits(r) => pending = None /\ state \in Tr[r.tr].from
    /\ \A t \in Transitions : r.pc \in Making /\ r.tr = t =>
         /\ Live(t) /\ \A i \in PendingRows : approvals[i].tr = t
         /\ Len(r.todo) # 1 \/ (r.pc = "create" /\ PendingRows # {}) => Joint(t)
    /\ \A t \in Transitions : r.pc \in Deciders /\ approvals[r.appr].tr = t =>
         /\ Live(t) /\ \A i \in PendingRows : approvals[i].tr = t /\ Joint(t)
         /\ approvals[r.appr].status =
              IF r.pc \in {"close", "settle"} /\ ~r.ok THEN "rejected" ELSE "approved"
         /\ r.pc \in {"queue", "count", "move"} => PendingRows = {}
         /\ r.pc = "move" => Rows(t, "rejected") = {}
Unsigned ==
    /\ \A t \in Transitions : \A i \in PendingRows : approvals[i].tr = t => Live(t)
    /\ \A i, j \in PendingRows : i # j =>
         approvals[i].tr = approvals[j].tr /\ Joint(approvals[i].tr)
AlongInv == ~overlapped => Unsigned /\ \A s \in Slots : AlongOf(req[s])

AInv == RInv /\ AlongInv

LEMMA IdleAlong == \A r : r.pc \in {"idle", "act", "escalate"} => AlongOf(r)
BY DEF AlongOf, Submits, After, Making, Deciders

LEMMA AlongBy ==
    ASSUME NEW s \in Slots, \A q \in Slots : q # s => req'[q].pc = "idle",
           Unsigned', AlongOf(req[s])'
    PROVE  AlongInv'
<1>1. \A q \in Slots : q # s => AlongOf(req[q])'
  BY IdleAlong DEF AlongOf, Submits, After, Making, Deciders
<1>. QED  BY <1>1 DEF AlongInv

(* What is waited for is still waited for.                                 *)
LEMMA LiveKept ==
    ASSUME NEW t, Live(t), UNCHANGED <<state, pending>>,
           \A i \in Rows(t, "rejected") : i \in Rows(t, "rejected")',
           \A q \in Slots : Submits(req[q]) /\ req[q].tr = t =>
               Submits(req'[q]) /\ req'[q].tr = t
    PROVE  Live(t)'
BY DEF Live

(* A transition is looked at when nothing is left to be signed.            *)
LEMMA NothingLeft ==
    ASSUME JointRejectionEnds, AInv, ~overlapped, NEW s \in Slots, req[s].pc = "transition",
           \A q \in Slots : q # s => req[q].pc = "idle"
    PROVE  PendingRows = {} /\ pending = None /\ state \in Tr[req[s].tr].from
<1>1. pending = None /\ state \in Tr[req[s].tr].from /\ req[s].tr \in Transitions
  BY RequestKinds DEF AInv, AlongInv, AlongOf, RInv, IInv, TypeOK
<1>2. \A q \in Slots : ~Submits(req[q])
  BY DEF Submits, After, Making
<1>3. ASSUME NEW i \in PendingRows PROVE FALSE
  <2>1. PICK t \in Transitions : t = approvals[i].tr
    BY <1>3, RowIs DEF PendingRows, AInv, RInv, IInv
  <2>2. Live(t)
    BY <1>3, <2>1 DEF AInv, AlongInv, Unsigned
  <2>3. t # None
    BY WorkflowAssumption
  <2>. QED  BY <1>1, <1>2, <2>2, <2>3 DEF Live, JointRejectionEnds
<1>. QED  BY <1>1, <1>3

LEMMA OpenedAlong ==
    ASSUME AInv, NEW s \in Slots, Opens(s), ~overlapped'
    PROVE  AlongInv'
<1>1. /\ UNCHANGED <<state, pending, approvals>>
      /\ \A q \in Slots : q # s => req'[q] = req[q]
      /\ req'[s].pc \in {"transition", "act", "escalate"}
      /\ req'[s].pc = "transition" => pending = None /\ state \in Tr[req'[s].tr].from
      /\ ~overlapped /\ \A q \in Slots : req[q].pc = "idle"
  BY OpenedStep DEF AInv, RInv
<1>2. \A q \in Slots : ~Submits(req[q])
  BY <1>1 DEF Submits, After, Making
<1>3. \A t : Live(t) => Live(t)'
  BY <1>1, <1>2, LiveKept DEF Rows
<1>4. Unsigned /\ PendingRows' = PendingRows
  BY <1>1 DEF AInv, AlongInv, PendingRows
<1>5. Unsigned'
  BY <1>1, <1>3, <1>4 DEF Unsigned
<1>6. AlongOf(req[s])'
  BY <1>1 DEF AlongOf, Submits, After, Making, Deciders
<1>. QED  BY <1>1, <1>5, <1>6, AlongBy

(* All that is left to be signed is of one transition.                     *)
LEMMA UnsignedIs ==
    ASSUME NEW t, PendingRows' # {} => Live(t)',
           \A i \in PendingRows' : approvals'[i].tr = t,
           \A i, j \in PendingRows' : i # j => Joint(t)
    PROVE  Unsigned'
BY DEF Unsigned

LEMMA MovedAlong ==
    ASSUME JointRejectionEnds, AInv, ~overlapped, NEW s \in Slots, TransitionMove(s)
    PROVE  AlongInv'
<1>1. /\ req[s].pc = "transition" /\ req'[s] = Idle /\ UNCHANGED approvals /\ Frame(s)
  BY MovedStep DEF AInv, RInv, Sound
<1>2. \A q \in Slots : q # s => req'[q] = req[q] /\ req[q].pc = "idle"
  BY <1>1 DEF Frame
<1>3. PendingRows = {}
  BY <1>1, <1>2, NothingLeft
<1>4. PendingRows' = {}
  BY <1>1, <1>3 DEF PendingRows
<1>5. Unsigned'
  BY <1>4 DEF Unsigned
<1>6. AlongOf(req[s])'
  BY <1>1, IdleIs DEF AlongOf, Submits, After, Making, Deciders
<1>. QED  BY <1>2, <1>5, <1>6, AlongBy

(* Only of what all must sign are several asked at once.                   *)
LEMMA ResolveOne ==
    ASSUME NEW t \in Transitions, NEW specs \in Resolve(t), Tr[t].strategy # "sequential",
           Len(specs) # 1
    PROVE  Tr[t].strategy = "all"
BY DEF Resolve

LEMMA StartedAlong ==
    ASSUME JointRejectionEnds, AInv, ~overlapped, NEW s \in Slots, TransitionSubmit(s)
    PROVE  AlongInv'
<1>1. PICK t \in Transitions : t = req[s].tr
  BY StartedStep DEF AInv, RInv
<1>2. /\ req[s].pc = "transition" /\ Approved(t) /\ UNCHANGED <<state, pending, approvals>>
      /\ req'[s].pc = "create" /\ req'[s].tr = t /\ Submits(req'[s]) /\ Frame(s)
      /\ \E specs \in Resolve(t) :
           req'[s].todo = IF Tr[t].strategy = "sequential" THEN <<Head(specs)>> ELSE specs
  BY <1>1, StartedStep DEF AInv, RInv, Sound
<1>3. \A q \in Slots : q # s => req'[q] = req[q] /\ req[q].pc = "idle"
  BY <1>2 DEF Frame
<1>4. PendingRows = {} /\ pending = None /\ state \in Tr[t].from
  BY <1>1, <1>2, <1>3, NothingLeft
<1>5. PendingRows' = {}
  BY <1>2, <1>4 DEF PendingRows
<1>6. Unsigned'
  BY <1>5 DEF Unsigned
<1>7. Live(t)'
  BY <1>2 DEF Live
<1>8. Len(req'[s].todo) # 1 => Joint(t)
  <2>1. PICK specs \in Resolve(t) :
          req'[s].todo = IF Tr[t].strategy = "sequential" THEN <<Head(specs)>> ELSE specs
    BY <1>2
  <2>2. Len(<<Head(specs)>>) = 1
    OBVIOUS
  <2>. QED  BY <1>2, <2>1, <2>2, ResolveOne DEF Joint
<1>9. AlongOf(req[s])'
  BY <1>2, <1>4, <1>5, <1>7, <1>8 DEF AlongOf, Deciders
<1>. QED  BY <1>3, <1>6, <1>9, AlongBy

LEMMA GoesOnAlong ==
    ASSUME AInv, ~overlapped, NEW s \in Slots, Create(s) \/ Assign(s)
    PROVE  AlongInv'
<1>1. PICK r \in Creating, r2 \in Request, n \in Nat :
        /\ r = req[s] /\ r2 = req'[s] /\ r.pc \in Making
        /\ UNCHANGED <<state, pending>>
        /\ \A i \in DOMAIN approvals : i \in DOMAIN approvals' /\ approvals'[i] = approvals[i]
        /\ \/ /\ r.pc = "create" /\ DOMAIN approvals' = DOMAIN approvals \cup {n}
              /\ approvals'[n] = NewApproval(r.tr, Head(r.todo), r.round)
           \/ r.pc = "assign" /\ DOMAIN approvals' = DOMAIN approvals
        /\ \/ r.pc = "create" /\ r2.pc = "assign" /\ r2.tr = r.tr /\ r2.round = r.round
                /\ r2.todo = r.todo /\ r2.then = r.then
           \/ GoesOn(r, r2)
        /\ After(r2) = r.then
  <2>1. Len(approvals) + 1 \in Nat
    BY LenProperties DEF AInv, RInv, IInv, TypeOK
  <2>2. req'[s] \in Request
    BY WorkSound DEF AInv, RInv, Works, Sound
  <2>. QED  BY <2>1, <2>2, CreatedStep, AssignedStep DEF AInv, RInv, Making
<1>2. \A q \in Slots : q # s => req'[q] = req[q] /\ req[q].pc = "idle"
  BY WorkSound DEF AInv, RInv, Works, Sound, Frame
<1>3. PICK t \in Transitions : t = r.tr
  BY DEF Creating
<1>4. /\ Live(t) /\ \A i \in PendingRows : approvals[i].tr = t
      /\ Len(r.todo) # 1 \/ (r.pc = "create" /\ PendingRows # {}) => Joint(t)
      /\ Submits(r) => pending = None /\ state \in Tr[t].from
  <2>1. AlongOf(r)
    BY <1>1 DEF AInv, AlongInv
  <2>. QED  BY <1>1, <1>3, <2>1 DEF AlongOf
<1>5. After(r) = r.then /\ r.then.pc \in {"idle", "enqueue", "submit", "escalate"}
  BY <1>1 DEF After, Creating, Submitting, Escalating, Idle
<1>6. Submits(r2) <=> Submits(r)
  BY <1>1, <1>5 DEF Submits
<1>7. r2.pc \in Making => r2.tr = t
  BY <1>1, <1>3, StillToAsk
<1>8. Submits(r2) => r2.tr = t
  <2>1. RequestKind(r) /\ RowKinds'
    BY <1>1, KindsKept DEF AInv, RInv, RowKinds, Works
  <2>2. RequestKind(r2)
    BY <1>1, <2>1 DEF RowKinds
  <2>. QED  BY <1>1, <1>3, <1>5, <1>6, <2>1, <2>2 DEF RequestKind
<1>9. Live(t)'
  <2>1. \A i \in Rows(t, "rejected") : i \in Rows(t, "rejected")'
    BY <1>1 DEF Rows
  <2>2. \A q \in Slots : Submits(req[q]) /\ req[q].tr = t => Submits(req'[q]) /\ req'[q].tr = t
    BY <1>1, <1>2, <1>6, <1>8
  <2>. QED  BY <1>1, <1>4, <2>1, <2>2, LiveKept
<1>10. \A i \in PendingRows' :
         approvals'[i].tr = t /\ (i \notin PendingRows => r.pc = "create" /\ i = n)
  <2> SUFFICES ASSUME NEW i \in PendingRows'
               PROVE  approvals'[i].tr = t /\ (i \notin PendingRows => r.pc = "create" /\ i = n)
    OBVIOUS
  <2>1. CASE i \in DOMAIN approvals
    BY <1>1, <1>4, <2>1 DEF PendingRows
  <2>2. CASE i \notin DOMAIN approvals
    <3>1. r.pc = "create" /\ i = n /\ approvals'[i] = NewApproval(t, Head(r.todo), r.round)
      BY <1>1, <1>3, <2>2 DEF PendingRows
    <3>. QED  BY <3>1 DEF NewApproval
  <2>. QED  BY <2>1, <2>2
<1>11. \A i, j \in PendingRows' : i # j => Joint(t)
  <2> SUFFICES ASSUME NEW i \in PendingRows', NEW j \in PendingRows', i # j PROVE Joint(t)
    OBVIOUS
  <2>1. CASE i \in PendingRows /\ j \in PendingRows
    BY <1>4, <2>1 DEF AInv, AlongInv, Unsigned
  <2>. QED  BY <1>4, <1>10, <2>1
<1>12. Unsigned'
  BY <1>9, <1>10, <1>11, UnsignedIs
<1>13. r2.pc \in Making /\ (Len(r2.todo) # 1 \/ r2.pc = "create") => Joint(t)
  BY <1>1, <1>4, <1>5 DEF GoesOn, Making
<1>14. /\ r2.pc # "transition" /\ r2.pc \notin Deciders
  BY <1>1, <1>5 DEF GoesOn, Deciders
<1>15. AlongOf(req[s])'
  BY <1>1, <1>4, <1>6, <1>7, <1>8, <1>9, <1>10, <1>13, <1>14 DEF AlongOf
<1>. QED  BY <1>2, <1>12, <1>15, AlongBy

LEMMA EnqueuedAlong ==
    ASSUME AInv, ~overlapped, NEW s \in Slots, Enqueue(s)
    PROVE  AlongInv'
<1>1. /\ req[s].pc = "enqueue" /\ req'[s].pc = "submit" /\ req'[s].tr = req[s].tr
      /\ UNCHANGED <<state, pending, approvals>> /\ Frame(s)
  BY EnqueuedStep DEF AInv, RInv, Sound
<1>2. \A q \in Slots : q # s => req'[q] = req[q] /\ req[q].pc = "idle"
  BY <1>1 DEF Frame
<1>3. Submits(req[s]) /\ Submits(req'[s])
  BY <1>1 DEF Submits, After, Making
<1>4. \A t : Live(t) => Live(t)'
  BY <1>1, <1>2, <1>3, LiveKept DEF Rows
<1>5. Unsigned'
  BY <1>1, <1>4 DEF AInv, AlongInv, Unsigned, PendingRows
<1>6. AlongOf(req[s])'
  BY <1>1, <1>3 DEF AInv, AlongInv, AlongOf, Making, Deciders
<1>. QED  BY <1>2, <1>5, <1>6, AlongBy

LEMMA SubmittedAlong ==
    ASSUME JointRejectionEnds, AInv, ~overlapped, NEW s \in Slots, Submit(s)
    PROVE  AlongInv'
<1>1. PICK t \in Transitions : t = req[s].tr
  BY SubmittedStep DEF AInv, RInv
<1>2. /\ req[s].pc = "submit" /\ req'[s] = Idle /\ pending' = t
      /\ UNCHANGED <<state, approvals>> /\ Frame(s)
  BY <1>1, SubmittedStep DEF AInv, RInv, Sound
<1>3. \A q \in Slots : q # s => req'[q] = req[q] /\ req[q].pc = "idle"
  BY <1>2 DEF Frame
<1>4. Submits(req[s]) /\ \A q \in Slots : q # s => ~Submits(req[q])
  BY <1>2, <1>3 DEF Submits, After, Making
<1>5. pending = None /\ state \in Tr[t].from
  BY <1>1, <1>4 DEF AInv, AlongInv, AlongOf
<1>6. Live(t)'
  BY <1>2, <1>5 DEF Live
<1>7. ASSUME NEW u \in Transitions, Live(u)
      PROVE  u = t
  <2>1. u # None
    BY WorkflowAssumption
  <2>. QED  BY <1>1, <1>4, <1>5, <1>7, <2>1 DEF Live, JointRejectionEnds
<1>8. \A i \in PendingRows : approvals[i].tr = t
  <2> SUFFICES ASSUME NEW i \in PendingRows PROVE approvals[i].tr = t
    OBVIOUS
  <2>1. approvals[i].tr \in Transitions
    BY RowIs DEF PendingRows, AInv, RInv, IInv
  <2>. QED  BY <1>7, <2>1 DEF AInv, AlongInv, Unsigned
<1>9. PendingRows' = PendingRows
  BY <1>2 DEF PendingRows
<1>10. Unsigned'
  BY <1>2, <1>6, <1>8, <1>9, UnsignedIs DEF AInv, AlongInv, Unsigned
<1>11. AlongOf(req[s])'
  BY <1>2, IdleIs DEF AlongOf, Submits, After, Making, Deciders
<1>. QED  BY <1>3, <1>10, <1>11, AlongBy

LEMMA ActedAlong ==
    ASSUME AInv, ~overlapped, NEW s \in Slots, ApproveAct(s)
    PROVE  AlongInv'
<1>1. PICK n \in DOMAIN approvals : n = req[s].appr
  BY ActedStep DEF AInv, RInv
<1>2. PICK t \in Transitions : t = approvals[n].tr
  BY RowIs DEF AInv, RInv, IInv
<1>3. /\ DOMAIN approvals' = DOMAIN approvals
      /\ \A i \in DOMAIN approvals : i # n => approvals'[i] = approvals[i]
      /\ approvals'[n].status = IF req[s].ok THEN "approved" ELSE "rejected"
      /\ approvals'[n].tr = t /\ UNCHANGED <<state, pending>>
      /\ req'[s].pc = "close" /\ req'[s].appr = n /\ req'[s].ok = req[s].ok
      /\ approvals[n].status = "pending" /\ Frame(s) /\ req[s].pc = "act"
  BY <1>1, <1>2, ActedStep DEF AInv, RInv, Sound
<1>4. \A q \in Slots : q # s => req'[q] = req[q] /\ req[q].pc = "idle"
  BY <1>3 DEF Frame
<1>5. n \in PendingRows /\ \A i \in PendingRows' : i \in PendingRows /\ i # n
  BY <1>3 DEF PendingRows
<1>6. /\ Live(t) /\ \A i \in PendingRows : i # n => approvals[i].tr = t /\ Joint(t)
  BY <1>2, <1>5 DEF AInv, AlongInv, Unsigned
<1>7. Live(t)'
  <2>1. \A i \in Rows(t, "rejected") : i \in Rows(t, "rejected")'
    BY <1>3 DEF Rows
  <2>2. ~Submits(req[s]) /\ ~Submits(req'[s])
    BY <1>3 DEF Submits, After, Making
  <2>. QED  BY <1>3, <1>4, <1>6, <2>1, <2>2, LiveKept
<1>8. \A i \in PendingRows' : approvals'[i].tr = t /\ Joint(t)
  BY <1>3, <1>5, <1>6 DEF PendingRows
<1>9. Unsigned'
  BY <1>7, <1>8, UnsignedIs
<1>10. AlongOf(req[s])'
  <2>1. ~Submits(req'[s]) /\ req'[s].pc \notin Making
    BY <1>3 DEF Submits, After, Making
  <2>2. approvals'[req'[s].appr] = approvals'[n]
    BY <1>3
  <2>. QED  BY <1>3, <1>7, <1>8, <2>1, <2>2 DEF AlongOf, Deciders
<1>. QED  BY <1>4, <1>9, <1>10, AlongBy

(* What a decision that is being settled may rely on.                      *)
LEMMA Settling ==
    ASSUME AInv, ~overlapped, NEW s \in Slots, req[s].pc \in Deciders, NEW t, t = Deciding(s)
    PROVE  /\ t \in Transitions /\ Live(t) /\ req[s].appr \in DOMAIN approvals
           /\ approvals[req[s].appr].tr = t
           /\ \A i \in PendingRows : approvals[i].tr = t /\ Joint(t)
           /\ approvals[req[s].appr].status =
                IF req[s].pc \in {"close", "settle"} /\ ~req[s].ok THEN "rejected" ELSE "approved"
           /\ req[s].pc \in {"queue", "count", "move"} => PendingRows = {}
           /\ req[s].pc = "move" => Rows(t, "rejected") = {}
<1>1. /\ t \in Transitions /\ approvals[req[s].appr].tr = t /\ req[s].appr \in DOMAIN approvals
  BY DecidingIs DEF AInv, RInv, Approving, Deciders
<1>2. AlongOf(req[s])
  BY DEF AInv, AlongInv
<1>. QED  BY <1>1, <1>2 DEF AlongOf

LEMMA EndedAlong ==
    ASSUME AInv, ~overlapped, NEW s \in Slots, SettleReject(s) \/ SettleMove(s)
    PROVE  AlongInv'
<1>1. PICK t \in Transitions : t = Deciding(s)
  BY EndedStep DEF AInv, RInv
<1>2. /\ req'[s] = Idle /\ pending' = None /\ UNCHANGED approvals /\ Frame(s)
      /\ \/ req[s].pc = "settle" /\ ~req[s].ok /\ state' = Tr[t].reject_to
         \/ req[s].pc = "move" /\ state' = Tr[t].to
  BY <1>1, EndedStep DEF AInv, RInv, Sound
<1>3. \A q \in Slots : q # s => req'[q] = req[q] /\ req[q].pc = "idle"
  BY <1>2 DEF Frame
<1>4. /\ req[s].appr \in DOMAIN approvals /\ approvals[req[s].appr].tr = t
      /\ \A i \in PendingRows : approvals[i].tr = t /\ Joint(t)
      /\ req[s].pc = "settle" => approvals[req[s].appr].status = "rejected"
      /\ req[s].pc = "move" => PendingRows = {}
  BY <1>1, <1>2, Settling DEF Deciders
<1>5. PendingRows' = PendingRows
  BY <1>2 DEF PendingRows
<1>6. PendingRows # {} => Live(t)'
  <2> SUFFICES ASSUME PendingRows # {} PROVE Live(t)'
    OBVIOUS
  <2>1. req[s].pc = "settle" /\ state' = Tr[t].reject_to /\ Joint(t)
    BY <1>2, <1>4
  <2>2. req[s].appr \in Rows(t, "rejected")'
    BY <1>2, <1>4, <2>1 DEF Rows
  <2>. QED  BY <1>2, <2>1, <2>2 DEF Live
<1>7. Unsigned'
  BY <1>2, <1>4, <1>5, <1>6, UnsignedIs
<1>8. AlongOf(req[s])'
  BY <1>2, IdleIs DEF AlongOf, Submits, After, Making, Deciders
<1>. QED  BY <1>3, <1>7, <1>8, AlongBy

LEMMA LookedAlong ==
    ASSUME AInv, ~overlapped, NEW s \in Slots,
           ApproveClose(s) \/ SettleSearch(s) \/ SettleQueue(s) \/ SettleCount(s)
    PROVE  AlongInv'
<1>1. /\ UNCHANGED <<state, pending, approvals>> /\ Frame(s)
      /\ req[s].pc \in {"close", "settle", "queue", "waiting", "count"}
  BY ClosedStep, LookedStep DEF AInv, RInv, Sound
<1>2. /\ req'[s].pc \in Approving \cup {"idle"}
      /\ Apart /\ NoQueue
  <2>1. Apart /\ NoQueue
    BY <1>1 DEF AInv, RInv, CInv, IInv, Alone
  <2>. QED  BY <1>1, <2>1, ApproverGoesOn DEF AInv, RInv, Works, Approving
<1>3. \A q \in Slots : q # s => req'[q] = req[q] /\ req[q].pc = "idle"
  BY <1>1 DEF Frame
<1>4. PICK t \in Transitions : t = Deciding(s)
  BY <1>1, DecidingIs DEF AInv, RInv, Approving
<1>5. /\ Live(t) /\ req[s].appr \in DOMAIN approvals
      /\ approvals[req[s].appr].tr = t
      /\ \A i \in PendingRows : approvals[i].tr = t /\ Joint(t)
      /\ approvals[req[s].appr].status =
           IF req[s].pc \in {"close", "settle"} /\ ~req[s].ok THEN "rejected" ELSE "approved"
      /\ req[s].pc \in {"queue", "count"} => PendingRows = {}
  BY <1>1, <1>4, Settling DEF Deciders
<1>6. PendingRows' = PendingRows
  BY <1>1 DEF PendingRows
<1>7. ~Submits(req[s]) /\ ~Submits(req'[s])
  BY <1>1, <1>2 DEF Submits, After, Making, Approving
<1>8. Live(t)'
  BY <1>1, <1>3, <1>5, <1>7, LiveKept DEF Rows
<1>9. Unsigned'
  BY <1>1, <1>5, <1>6, <1>8, UnsignedIs
<1>10. CASE req'[s].pc = "idle"
  <2>1. AlongOf(req[s])'
    BY <1>10 DEF AlongOf, Submits, After, Making, Deciders
  <2>. QED  BY <1>3, <1>9, <2>1, AlongBy
<1>11. CASE req'[s].pc # "idle"
  <2>1. req'[s].appr = req[s].appr
    BY <1>11, ClosedStep, LookedStep, IdleIs DEF AInv, RInv
  <2>2. \/ /\ req[s].pc = "close" /\ req'[s].pc = "settle" /\ req'[s].ok = req[s].ok
        \/ /\ req[s].pc = "settle" /\ req[s].ok
           /\ \/ req'[s].pc = "queue" /\ Rows(t, "pending") = {}
              \/ req'[s].pc = "waiting"
        \/ req[s].pc = "queue" /\ req'[s].pc = "count"
        \/ req[s].pc = "count" /\ req'[s].pc = "move" /\ Counted(s, t)
    <3>1. CASE ApproveClose(s)
      BY <3>1, ClosedStep DEF AInv, RInv
    <3>2. CASE SettleSearch(s) \/ SettleQueue(s) \/ SettleCount(s)
      <4>1. LooksAt(s, req'[s]) /\ req'[s] # Idle /\ req'[s].pc # "advance"
        BY <1>2, <1>11, <3>2, LookedStep, IdleIs DEF AInv, RInv, Approving
      <4>. QED  BY <1>4, <4>1 DEF LooksAt
    <3>. QED  BY <3>1, <3>2
  <2>3. req'[s].pc \in {"queue", "count", "move"} => PendingRows = {}
    <3>1. Rows(t, "pending") = {} => PendingRows = {}
      BY <1>5 DEF PendingRows, Rows
    <3>. QED  BY <1>5, <2>2, <3>1
  <2>4. req'[s].pc = "move" => Rows(t, "rejected")' = {}
    <3> SUFFICES ASSUME req'[s].pc = "move" PROVE Rows(t, "rejected")' = {}
      OBVIOUS
    <3>1. Counted(s, t) /\ req[s].pc = "count"
      BY <2>2
    <3>2. approvals[req[s].appr].status = "approved"
      BY <1>5, <3>1
    <3>3. req[s].appr \notin Rows(t, "rejected")
      BY <3>2 DEF Rows
    <3>4. Rows(t, "rejected") = {}
      BY <3>1, <3>3 DEF Counted
    <3>. QED  BY <1>1, <3>4 DEF Rows
  <2>5. /\ approvals'[req'[s].appr].tr = t
        /\ approvals'[req'[s].appr].status =
             IF req'[s].pc \in {"close", "settle"} /\ ~req'[s].ok THEN "rejected" ELSE "approved"
    BY <1>1, <1>5, <2>1, <2>2
  <2>6. req'[s].pc \notin Making \cup {"transition"}
    BY <2>2 DEF Making
  <2>7. AlongOf(req[s])'
    BY <1>1, <1>5, <1>6, <1>7, <1>8, <2>3, <2>4, <2>5, <2>6 DEF AlongOf
  <2>. QED  BY <1>3, <1>9, <2>7, AlongBy
<1>. QED  BY <1>10, <1>11

LEMMA EscalatedAlong ==
    ASSUME AInv, ~overlapped, NEW s \in Slots, NEW i \in DOMAIN approvals, EscalateOne(s, i)
    PROVE  AlongInv'
<1>1. /\ UNCHANGED <<state, pending>> /\ Frame(s) /\ req[s].pc = "escalate"
      /\ After(req'[s]).pc \in {"idle", "escalate"} /\ approvals[i].status = "pending"
      /\ \/ UNCHANGED approvals /\ req'[s].pc \in {"idle", "escalate"}
         \/ Cancels(s, i)
  BY EscalatedStep DEF AInv, RInv, Sound
<1>2. \A q \in Slots : q # s => req'[q] = req[q] /\ req[q].pc = "idle"
  BY <1>1 DEF Frame
<1>3. ~Submits(req[s]) /\ ~Submits(req'[s])
  BY <1>1 DEF Submits, After, Making
<1>4. ASSUME NEW t, \A k \in Rows(t, "rejected") : k \in Rows(t, "rejected")', Live(t)
      PROVE  Live(t)'
  BY <1>1, <1>2, <1>3, <1>4, LiveKept
<1>5. CASE UNCHANGED approvals /\ req'[s].pc \in {"idle", "escalate"}
  <2>1. \A t : Live(t) => Live(t)'
    BY <1>4, <1>5 DEF Rows
  <2>2. Unsigned'
    BY <1>5, <2>1 DEF AInv, AlongInv, Unsigned, PendingRows
  <2>3. AlongOf(req[s])'
    BY <1>5 DEF AlongOf, Submits, After, Making, Deciders
  <2>. QED  BY <1>2, <2>2, <2>3, AlongBy
<1>6. CASE Cancels(s, i)
  <2>1. PICK t \in Transitions : t = approvals[i].tr
    BY RowIs DEF AInv, RInv, IInv
  <2>2. /\ DOMAIN approvals' = DOMAIN approvals
        /\ \A k \in DOMAIN approvals : k # i => approvals'[k] = approvals[k]
        /\ approvals'[i].status = "cancelled"
        /\ req'[s].pc = "create" /\ req'[s].tr = t /\ Len(req'[s].todo) = 1
    BY <1>6, <2>1 DEF Cancels
  <2>3. i \in PendingRows /\ \A k \in PendingRows' : k \in PendingRows /\ k # i
    BY <1>1, <2>2 DEF PendingRows
  <2>4. Live(t) /\ \A k \in PendingRows : k # i => approvals[k].tr = t /\ Joint(t)
    BY <2>1, <2>3 DEF AInv, AlongInv, Unsigned
  <2>5. Live(t)'
    <3>1. \A k \in Rows(t, "rejected") : k \in Rows(t, "rejected")'
      BY <1>1, <2>2 DEF Rows
    <3>. QED  BY <1>4, <2>4, <3>1
  <2>6. \A k \in PendingRows' : approvals'[k].tr = t /\ Joint(t)
    BY <2>2, <2>3, <2>4 DEF PendingRows
  <2>7. Unsigned'
    BY <2>5, <2>6, UnsignedIs
  <2>8. AlongOf(req[s])'
    BY <1>3, <2>2, <2>5, <2>6 DEF AlongOf, Deciders
  <2>. QED  BY <1>2, <2>7, <2>8, AlongBy
<1>. QED  BY <1>1, <1>5, <1>6

LEMMA AlongInit == Init => AInv
<1> SUFFICES ASSUME Init PROVE AInv
  OBVIOUS
<1>1. /\ approvals = <<>> /\ req = [s \in Slots |-> Idle]
  BY DEF Init
<1>2. \A s \in Slots : AlongOf(req[s])
  BY <1>1, IdleIs, IdleAlong
<1>3. PendingRows = {}
  BY <1>1 DEF PendingRows
<1>4. AlongInv
  BY <1>2, <1>3 DEF AlongInv, Unsigned
<1>. QED  BY <1>4, RoundsInit DEF AInv

LEMMA AlongKept ==
    ASSUME JointRejectionEnds, AInv, [Next]_vars
    PROVE  AInv'
<1>1. RInv'
  BY RoundsKept DEF AInv
<1>2. AlongInv'
  <2>1. CASE UNCHANGED vars
    <3>1. UNCHANGED <<state, pending, approvals, req, overlapped>>
      BY <2>1 DEF vars
    <3>2. \A t : Live(t)' = Live(t)
      BY <3>1 DEF Live, Rows
    <3>3. PendingRows' = PendingRows
      BY <3>1 DEF PendingRows
    <3>4. Unsigned' = Unsigned
      BY <3>1, <3>2, <3>3 DEF Unsigned
    <3>5. \A s \in Slots : AlongOf(req[s])' = AlongOf(req[s])
      BY <3>1, <3>2, <3>3 DEF AlongOf, Rows
    <3>. QED  BY <3>1, <3>4, <3>5 DEF AInv, AlongInv
  <2>2. CASE Next
    <3> SUFFICES ASSUME ~overlapped' PROVE AlongInv'
      BY DEF AlongInv
    <3>1. PICK s \in Slots : Opens(s) \/ Works(s)
      BY <2>2, StepsOf DEF AInv, RInv
    <3>2. CASE Opens(s)
      BY <3>2, OpenedAlong
    <3>3. CASE Works(s)
      <4>1. ~overlapped
        BY <3>3, WorkSound DEF AInv, RInv, Sound, Frame
      <4>2. ~Advance(s)
        <5>1. Apart /\ NoQueue
          BY <4>1 DEF AInv, RInv, CInv, IInv, Alone
        <5>. QED  BY <3>3, <5>1, Others, AdvancedStep DEF AInv, RInv
      <4>. QED  BY <3>3, <4>1, <4>2, MovedAlong, StartedAlong, GoesOnAlong, EnqueuedAlong,
                   SubmittedAlong, ActedAlong, EndedAlong, LookedAlong, EscalatedAlong DEF Works
    <3>. QED  BY <3>1, <3>2, <3>3
  <2>. QED  BY <2>1, <2>2
<1>. QED  BY <1>1, <1>2 DEF AInv

(* One request at a time, the instance moves along the definition only:    *)
(* whatever the definition, if no transition leaves the state of a         *)
(* rejection while others still sign.                                      *)
THEOREM AlwaysAlongDefinition ==
    ASSUME JointRejectionEnds
    PROVE  Spec => MovesAlongDefinition
<1> DEFINE Along == (~overlapped' /\ state' # state) =>
         \E t \in Transitions : state \in Tr[t].from /\ state' \in {Tr[t].to, Tr[t].reject_to}
<1>1. ASSUME AInv, Next, ~overlapped', state' # state
      PROVE  \E t \in Transitions :
               state \in Tr[t].from /\ state' \in {Tr[t].to, Tr[t].reject_to}
  <2>1. PICK s \in Slots : Opens(s) \/ Works(s)
    BY <1>1, StepsOf DEF AInv, RInv
  <2>2. Works(s)
    BY <1>1, <2>1, OpenedStep DEF AInv, RInv
  <2>3. ~overlapped /\ IInv
    BY <1>1, <2>2, WorkSound DEF AInv, RInv, Sound, Frame
  <2>4. CASE TransitionMove(s)
    <3>1. /\ req[s].pc = "transition" /\ req[s].tr \in Transitions
          /\ state' = Tr[req[s].tr].to
      BY <2>3, <2>4, MovedStep
    <3>2. state \in Tr[req[s].tr].from
      BY <1>1, <2>3, <3>1 DEF AInv, AlongInv, AlongOf
    <3>. QED  BY <3>1, <3>2
  <2>5. CASE SettleReject(s) \/ SettleMove(s)
    <3>1. PICK t \in Transitions : t = Deciding(s)
      BY <2>3, <2>5, EndedStep
    <3>2. /\ Frame(s)
          /\ \/ req[s].pc = "settle" /\ state' = Tr[t].reject_to
             \/ req[s].pc = "move" /\ state' = Tr[t].to
      BY <2>3, <2>5, <3>1, EndedStep DEF Sound
    <3>3. \A q \in Slots : ~Submits(req[q])
      BY <2>3, <3>2 DEF Frame, Submits, After, Making
    <3>4. Live(t) /\ (req[s].pc = "move" => Rows(t, "rejected") = {})
      BY <1>1, <2>3, <3>1, <3>2, Settling DEF Deciders
    <3>5. state \in Tr[t].from
      BY <1>1, <3>2, <3>3, <3>4 DEF Live
    <3>. QED  BY <3>2, <3>5
  <2>. QED  BY <1>1, <2>2, <2>3, <2>4, <2>5, StartedStep, CreatedStep, AssignedStep,
               EnqueuedStep, SubmittedStep, ActedStep, ClosedStep, LookedStep, AdvancedStep,
               EscalatedStep DEF Works
<1>2. AInv /\ [Next]_vars => [Along]_vars
  BY <1>1
<1>3. Spec => []AInv
  BY AlongInit, AlongKept, PTL DEF Spec
<1>. QED  BY <1>2, <1>3, PTL DEF MovesAlongDefinition, Spec
-----------------------------------------------------------------------------
(* Nobody waits for ever.                                                  *)

(* One request at a time: somebody can still sign, or has just done so;    *)
(* and what was rejected has ended the matter, or is about to.             *)
JointUncancelled ==
    \A i \in DOMAIN approvals : Joint(approvals[i].tr) => approvals[i].status # "cancelled"
WaitOf(r) ==
    /\ \A t \in Transitions :
         r.pc \in {"assign", "enqueue", "submit"} /\ r.tr = t => Rows(t, "pending") # {}
    /\ r.pc = "waiting" => PendingRows # {}
Awaited(r) == \A t \in Transitions :
    pending = t => Rows(t, "pending") # {} \/ r.pc \in Deciders \cup {"create"}
Rejected(r) == \A t \in Transitions : \A i \in Rows(t, "rejected") :
    \/ pending = None /\ state = Tr[t].reject_to
    \/ r.pc \in {"close", "settle"} /\ r.appr = i
WaitFor(s) == WaitOf(req[s]) /\ Awaited(req[s]) /\ Rejected(req[s])
WaitInv ==
    /\ pending # None => Slots # {}
    /\ ~overlapped => \A s \in Slots :
         (\A q \in Slots : q # s => req[q].pc = "idle") => WaitFor(s)

WInv == AInv /\ JointUncancelled /\ WaitInv

LEMMA UncancelledKept ==
    ASSUME JointNotEscalated, IInv, JointUncancelled, NEW s \in Slots, Opens(s) \/ Works(s)
    PROVE  JointUncancelled'
<1>1. CASE Create(s)
  <2> DEFINE n == Len(approvals) + 1
  <2>1. /\ DOMAIN approvals' = DOMAIN approvals \cup {n}
        /\ \A i \in DOMAIN approvals : approvals'[i] = approvals[i]
        /\ approvals'[n].status = "pending"
    <3>1. /\ DOMAIN approvals' = DOMAIN approvals \cup {n}
          /\ \A i \in DOMAIN approvals : approvals'[i] = approvals[i]
          /\ approvals'[n] = NewApproval(req[s].tr, Head(req[s].todo), req[s].round)
      BY <1>1, CreatedStep
    <3> HIDE DEF n
    <3>. QED  BY <3>1 DEF NewApproval
  <2> HIDE DEF n
  <2>. QED  BY <2>1 DEF JointUncancelled
<1>2. CASE ApproveAct(s)
  <2> DEFINE n == req[s].appr
  <2>1. /\ DOMAIN approvals' = DOMAIN approvals
        /\ \A i \in DOMAIN approvals : i # n => approvals'[i] = approvals[i]
        /\ approvals'[n].status # "cancelled"
    BY <1>2, ActedStep
  <2>. QED  BY <2>1 DEF JointUncancelled
<1>3. ASSUME NEW i \in DOMAIN approvals, EscalateOne(s, i)
      PROVE  JointUncancelled'
  <2>1. CASE Cancels(s, i)
    <3>1. /\ DOMAIN approvals' = DOMAIN approvals
          /\ \A k \in DOMAIN approvals : k # i => approvals'[k] = approvals[k]
          /\ approvals'[i].tr = approvals[i].tr /\ Tr[approvals[i].tr].escalate # {}
          /\ approvals[i].tr \in Transitions
      BY <2>1, RowIs DEF Cancels, IInv
    <3>. QED  BY <3>1 DEF JointUncancelled, JointNotEscalated
  <2>. QED  BY <1>3, <2>1, EscalatedStep DEF JointUncancelled
<1>4. CASE UNCHANGED approvals
  BY <1>4 DEF JointUncancelled
<1>. QED  BY <1>1, <1>2, <1>3, <1>4, OpenedStep, MovedStep, StartedStep, AssignedStep,
             EnqueuedStep, SubmittedStep, ClosedStep, EndedStep, LookedStep, AdvancedStep DEF Works

(* With one request at work, its view is the one that counts.              *)
LEMMA WaitBy ==
    ASSUME NEW s \in Slots, \A q \in Slots : q # s => req'[q].pc = "idle", WaitFor(s)'
    PROVE  WaitInv'
<1>1. ASSUME NEW o \in Slots, o # s, \A q \in Slots : q # o => req'[q].pc = "idle"
      PROVE  WaitFor(o)'
  <2>1. req'[s].pc = "idle" /\ req'[o].pc = "idle"
    BY <1>1
  <2>. QED  BY <2>1 DEF WaitFor, WaitOf, Awaited, Rejected, Deciders
<1>. QED  BY <1>1 DEF WaitInv

(* Where a transition may begin, nothing has been rejected.                *)
LEMMA NothingRejected ==
    ASSUME RejectionEnds, WInv, ~overlapped, NEW s \in Slots,
           \A q \in Slots : q # s => req[q].pc = "idle", req[s].pc \notin {"close", "settle"},
           NEW t \in Transitions, state \in Tr[t].from
    PROVE  \A u \in Transitions : Rows(u, "rejected") = {}
<1>1. Rejected(req[s])
  BY DEF WInv, WaitInv, WaitFor
<1>2. ASSUME NEW u \in Transitions, NEW i \in Rows(u, "rejected") PROVE FALSE
  <2>1. state = Tr[u].reject_to
    BY <1>1, <1>2 DEF Rejected
  <2>2. Approved(u)
    BY <1>2 DEF WInv, AInv, RInv, RowKinds, RowKind, Rows
  <2>. QED  BY <2>1, <2>2 DEF RejectionEnds
<1>. QED  BY <1>2

LEMMA OpenedWait ==
    ASSUME WInv, NEW s \in Slots, Opens(s), ~overlapped'
    PROVE  WaitInv'
<1>1. /\ UNCHANGED <<state, pending, approvals>>
      /\ \A q \in Slots : q # s => req'[q] = req[q]
      /\ req'[s].pc \in {"transition", "act", "escalate"}
      /\ ~overlapped /\ \A q \in Slots : req[q].pc = "idle"
  BY OpenedStep DEF WInv, AInv, RInv
<1>2. WaitFor(s)
  BY <1>1 DEF WInv, WaitInv
<1>3. WaitFor(s)'
  BY <1>1, <1>2 DEF WaitFor, WaitOf, Awaited, Rejected, Rows, Deciders
<1>. QED  BY <1>1, <1>3, WaitBy

(* What a request of one at a time may rely on.                            *)
LEMMA Working ==
    ASSUME WInv, ~overlapped, NEW s \in Slots, Works(s)
    PROVE  /\ IInv /\ Frame(s) /\ WaitFor(s) /\ Apart /\ NoQueue /\ AlongOf(req[s])
           /\ \A q \in Slots : q # s => req'[q] = req[q] /\ req[q].pc = "idle"
<1>1. IInv /\ Frame(s)
  BY WorkSound DEF WInv, AInv, RInv, Sound
<1>2. \A q \in Slots : q # s => req'[q] = req[q] /\ req[q].pc = "idle"
  BY <1>1 DEF Frame
<1>. QED  BY <1>1, <1>2 DEF WInv, WaitInv, AInv, AlongInv, RInv, CInv, IInv, Alone

LEMMA MovedWait ==
    ASSUME RejectionEnds, WInv, ~overlapped, NEW s \in Slots, TransitionMove(s)
    PROVE  WaitInv'
<1>1. /\ req[s].pc = "transition" /\ req'[s] = Idle /\ pending' = None /\ UNCHANGED approvals
      /\ req[s].tr \in Transitions
  BY MovedStep DEF WInv, AInv, RInv
<1>2. /\ \A q \in Slots : q # s => req'[q] = req[q] /\ req[q].pc = "idle"
      /\ AlongOf(req[s])
  BY Working DEF Works
<1>3. state \in Tr[req[s].tr].from
  BY <1>1, <1>2 DEF AlongOf
<1>4. \A u \in Transitions : Rows(u, "rejected")' = {}
  BY <1>1, <1>2, <1>3, NothingRejected DEF Rows
<1>5. WaitFor(s)'
  BY <1>1, <1>4, IdleIs, WorkflowAssumption DEF WaitFor, WaitOf, Awaited, Rejected
<1>. QED  BY <1>2, <1>5, WaitBy

LEMMA StartedWait ==
    ASSUME RejectionEnds, WInv, ~overlapped, NEW s \in Slots, TransitionSubmit(s)
    PROVE  WaitInv'
<1>1. /\ req[s].pc = "transition" /\ req'[s].pc = "create" /\ UNCHANGED <<pending, approvals>>
      /\ req[s].tr \in Transitions
  BY StartedStep DEF WInv, AInv, RInv
<1>2. /\ \A q \in Slots : q # s => req'[q] = req[q] /\ req[q].pc = "idle"
      /\ AlongOf(req[s])
  BY Working DEF Works
<1>3. state \in Tr[req[s].tr].from
  BY <1>1, <1>2 DEF AlongOf
<1>4. \A u \in Transitions : Rows(u, "rejected")' = {}
  BY <1>1, <1>2, <1>3, NothingRejected DEF Rows
<1>5. WaitFor(s)'
  BY <1>1, <1>4 DEF WaitFor, WaitOf, Awaited, Rejected
<1>. QED  BY <1>2, <1>5, WaitBy

LEMMA GoesOnWait ==
    ASSUME WInv, ~overlapped, NEW s \in Slots, Create(s) \/ Assign(s)
    PROVE  WaitInv'
<1>1. PICK r \in Creating, r2 \in Request, n \in Nat :
        /\ r = req[s] /\ r2 = req'[s] /\ r.pc \in Making
        /\ UNCHANGED <<state, pending>>
        /\ \A i \in DOMAIN approvals : i \in DOMAIN approvals' /\ approvals'[i] = approvals[i]
        /\ \/ /\ r.pc = "create" /\ DOMAIN approvals' = DOMAIN approvals \cup {n}
              /\ approvals'[n] = NewApproval(r.tr, Head(r.todo), r.round)
           \/ r.pc = "assign" /\ DOMAIN approvals' = DOMAIN approvals
        /\ \/ r.pc = "create" /\ r2.pc = "assign" /\ r2.tr = r.tr /\ r2.round = r.round
                /\ r2.todo = r.todo /\ r2.then = r.then
           \/ GoesOn(r, r2)
        /\ After(r2) = r.then
  <2>1. Len(approvals) + 1 \in Nat
    BY LenProperties DEF WInv, AInv, RInv, IInv, TypeOK
  <2>2. req'[s] \in Request
    BY WorkSound DEF WInv, AInv, RInv, Works, Sound
  <2>. QED  BY <2>1, <2>2, CreatedStep, AssignedStep DEF WInv, AInv, RInv, Making
<1>2. /\ \A q \in Slots : q # s => req'[q] = req[q] /\ req[q].pc = "idle"
      /\ AlongOf(r) /\ WaitFor(s) /\ IInv
  BY <1>1, Working DEF Works
<1>3. PICK t \in Transitions : t = r.tr
  BY DEF Creating
<1>4. After(r) = r.then /\ r.then.pc \in {"idle", "enqueue", "submit", "escalate"}
  BY <1>1 DEF After, Creating, Submitting, Escalating, Idle
<1>5. /\ Live(t)
      /\ Submits(r) => pending = None
  BY <1>1, <1>2, <1>3 DEF AlongOf
<1>6. \A u \in Transitions : pending = u => u = t
  <2>1. \A q \in Slots : Submits(req[q]) => pending = None
    BY <1>1, <1>2, <1>5 DEF Submits, After, Making
  <2>. QED  BY <1>5, <2>1, WorkflowAssumption DEF Live
<1>7. Rows(t, "pending")' # {}
  <2>1. CASE r.pc = "create"
    <3>1. approvals'[n] = NewApproval(t, Head(r.todo), r.round) /\ n \in DOMAIN approvals'
      BY <1>1, <1>3, <2>1
    <3>2. approvals'[n].tr = t /\ approvals'[n].status = "pending"
      BY <3>1 DEF NewApproval
    <3>. QED  BY <3>1, <3>2 DEF Rows
  <2>2. CASE r.pc = "assign"
    <3>1. Rows(t, "pending") # {}
      BY <1>1, <1>2, <1>3, <2>2 DEF WaitFor, WaitOf
    <3>. QED  BY <1>1, <3>1 DEF Rows
  <2>. QED  BY <1>1, <2>1, <2>2 DEF Making
<1>8. r2.pc \in {"assign", "enqueue", "submit"} => r2.tr = t
  <2>1. RequestKind(r) /\ RowKinds'
    BY <1>1, KindsKept DEF WInv, AInv, RInv, RowKinds, Works
  <2>2. RequestKind(r2)
    BY <1>1, <2>1 DEF RowKinds
  <2>3. r2.pc \in {"enqueue", "submit"} => r2 = r.then /\ Submits(r)
    BY <1>1, <1>4 DEF GoesOn, Submits, After, Making
  <2>4. r2.pc = "assign" => r2.tr = r.tr
    BY <1>1, <1>4 DEF GoesOn
  <2>. QED  BY <1>3, <1>4, <2>1, <2>3, <2>4 DEF RequestKind
<1>9. r2.pc \notin {"waiting", "close", "settle"}
  BY <1>1, <1>4 DEF GoesOn
<1>10. WaitOf(req[s])'
  BY <1>1, <1>7, <1>8, <1>9 DEF WaitOf
<1>11. Awaited(req[s])'
  BY <1>1, <1>6, <1>7 DEF Awaited
<1>12. Rejected(req[s])'
  <2> SUFFICES ASSUME NEW u \in Transitions, NEW i \in Rows(u, "rejected")'
               PROVE  pending' = None /\ state' = Tr[u].reject_to
    BY DEF Rejected
  <2>1. i \in Rows(u, "rejected")
    <3>1. CASE i \in DOMAIN approvals
      BY <1>1, <3>1 DEF Rows
    <3>2. CASE i \notin DOMAIN approvals
      <4>1. approvals'[i] = NewApproval(r.tr, Head(r.todo), r.round)
        BY <1>1, <3>2 DEF Rows
      <4>2. approvals'[i].status = "pending"
        BY <4>1 DEF NewApproval
      <4>. QED  BY <4>2 DEF Rows
    <3>. QED  BY <3>1, <3>2
  <2>2. req[s].pc \notin {"close", "settle"}
    BY <1>1 DEF Making
  <2>. QED  BY <1>1, <1>2, <2>1, <2>2 DEF WaitFor, Rejected
<1>. QED  BY <1>2, <1>10, <1>11, <1>12, WaitBy DEF WaitFor

LEMMA WrittenWait ==
    ASSUME RejectionEnds, WInv, ~overlapped, NEW s \in Slots, Enqueue(s) \/ Submit(s)
    PROVE  WaitInv'
<1>1. /\ \A q \in Slots : q # s => req'[q] = req[q] /\ req[q].pc = "idle"
      /\ AlongOf(req[s]) /\ WaitFor(s) /\ IInv
  BY Working DEF Works
<1>2. /\ req[s].pc \in {"enqueue", "submit"} /\ UNCHANGED <<state, approvals>>
      /\ \/ req'[s].pc = "submit" /\ req'[s].tr = req[s].tr /\ UNCHANGED pending
         \/ req'[s].pc = "idle" /\ pending' = req[s].tr
  BY <1>1, EnqueuedStep, SubmittedStep, IdleIs
<1>3. PICK t \in Transitions : t = req[s].tr
  BY <1>1, <1>2, RequestKinds DEF IInv, TypeOK, Submitting
<1>4. pending = None /\ state \in Tr[t].from
  BY <1>1, <1>2, <1>3 DEF AlongOf, Submits, After, Making
<1>5. Rows(t, "pending") # {}
  BY <1>1, <1>2, <1>3 DEF WaitFor, WaitOf
<1>6. \A u \in Transitions : Rows(u, "rejected") = {}
  BY <1>1, <1>2, <1>4, NothingRejected
<1>7. WaitFor(s)'
  <2>1. \A u \in Transitions : Rows(u, "pending")' = Rows(u, "pending") /\ Rows(u, "rejected")' = {}
    BY <1>2, <1>6 DEF Rows
  <2>2. WaitOf(req[s])'
    BY <1>2, <1>3, <1>5, <2>1 DEF WaitOf
  <2>3. Awaited(req[s])'
    BY <1>2, <1>3, <1>4, <1>5, <2>1, WorkflowAssumption DEF Awaited
  <2>. QED  BY <2>1, <2>2, <2>3 DEF WaitFor, Rejected
<1>. QED  BY <1>1, <1>7, WaitBy

LEMMA ActedWait ==
    ASSUME WInv, ~overlapped, NEW s \in Slots, ApproveAct(s)
    PROVE  WaitInv'
<1>1. /\ \A q \in Slots : q # s => req'[q] = req[q] /\ req[q].pc = "idle"
      /\ WaitFor(s) /\ IInv
  BY Working DEF Works
<1>2. PICK n \in DOMAIN approvals : n = req[s].appr
  BY <1>1, ActedStep
<1>3. /\ UNCHANGED <<state, pending>> /\ req[s].pc = "act"
      /\ DOMAIN approvals' = DOMAIN approvals
      /\ \A i \in DOMAIN approvals : i # n => approvals'[i] = approvals[i]
      /\ req'[s].pc = "close" /\ req'[s].appr = n
  BY <1>1, <1>2, ActedStep
<1>4. WaitOf(req[s])' /\ Awaited(req[s])'
  BY <1>3 DEF WaitOf, Awaited, Deciders
<1>5. Rejected(req[s])'
  <2> SUFFICES ASSUME NEW u \in Transitions, NEW i \in Rows(u, "rejected")', i # n
               PROVE  pending' = None /\ state' = Tr[u].reject_to
    BY <1>3 DEF Rejected
  <2>1. i \in Rows(u, "rejected")
    BY <1>3 DEF Rows
  <2>. QED  BY <1>1, <1>3, <2>1 DEF WaitFor, Rejected
<1>. QED  BY <1>1, <1>4, <1>5, WaitBy DEF WaitFor

LEMMA EndedWait ==
    ASSUME WInv, ~overlapped, NEW s \in Slots, SettleReject(s) \/ SettleMove(s)
    PROVE  WaitInv'
<1>1. /\ \A q \in Slots : q # s => req'[q] = req[q] /\ req[q].pc = "idle"
      /\ WaitFor(s) /\ IInv
  BY Working DEF Works
<1>2. PICK t \in Transitions : t = Deciding(s)
  BY <1>1, EndedStep
<1>3. /\ req'[s].pc = "idle" /\ pending' = None /\ UNCHANGED approvals
      /\ \/ req[s].pc = "settle" /\ ~req[s].ok /\ state' = Tr[t].reject_to
         \/ req[s].pc = "move" /\ state' = Tr[t].to
  BY <1>1, <1>2, EndedStep, IdleIs
<1>4. /\ Live(t) /\ approvals[req[s].appr].tr = t
      /\ req[s].pc = "move" => Rows(t, "rejected") = {}
  BY <1>2, <1>3, Settling DEF WInv, Deciders
<1>5. \A q \in Slots : ~Submits(req[q])
  BY <1>1, <1>3 DEF Submits, After, Making
<1>6. pending = None => state = Tr[t].reject_to /\ Rows(t, "rejected") # {}
  BY <1>4, <1>5, WorkflowAssumption DEF Live
<1>7. Rejected(req[s])'
  <2> SUFFICES ASSUME NEW u \in Transitions, NEW i \in Rows(u, "rejected")'
               PROVE  state' = Tr[u].reject_to
    BY <1>3 DEF Rejected
  <2>1. i \in Rows(u, "rejected")
    BY <1>3 DEF Rows
  <2>2. \/ pending = None /\ state = Tr[u].reject_to
        \/ req[s].pc = "settle" /\ req[s].appr = i
    BY <1>1, <1>3, <2>1 DEF WaitFor, Rejected
  <2>3. CASE pending = None /\ state = Tr[u].reject_to
    BY <1>3, <1>4, <1>6, <2>3
  <2>4. CASE req[s].pc = "settle" /\ req[s].appr = i
    BY <1>3, <1>4, <2>1, <2>4 DEF Rows
  <2>. QED  BY <2>2, <2>3, <2>4
<1>8. WaitOf(req[s])' /\ Awaited(req[s])'
  BY <1>3, WorkflowAssumption DEF WaitOf, Awaited
<1>. QED  BY <1>1, <1>7, <1>8, WaitBy DEF WaitFor

LEMMA LookedWait ==
    ASSUME WInv, ~overlapped, NEW s \in Slots,
           ApproveClose(s) \/ SettleSearch(s) \/ SettleQueue(s) \/ SettleCount(s)
    PROVE  WaitInv'
<1>1. /\ \A q \in Slots : q # s => req'[q] = req[q] /\ req[q].pc = "idle"
      /\ WaitFor(s) /\ IInv /\ NoQueue /\ Apart
  BY Working DEF Works
<1>2. /\ UNCHANGED <<state, pending, approvals>>
      /\ req[s].pc \in {"close", "settle", "queue", "waiting", "count"}
  BY <1>1, ClosedStep, LookedStep
<1>3. PICK t \in Transitions : t = Deciding(s)
  BY <1>1, <1>2, DecidingIs DEF Approving
<1>4. /\ Live(t) /\ approvals[req[s].appr].tr = t
      /\ \A i \in PendingRows : approvals[i].tr = t /\ Joint(t)
      /\ approvals[req[s].appr].status =
           IF req[s].pc \in {"close", "settle"} /\ ~req[s].ok THEN "rejected" ELSE "approved"
  BY <1>2, <1>3, Settling DEF WInv, Deciders
<1>5. \A u \in Transitions : pending = u => u = t
  <2>1. \A q \in Slots : ~Submits(req[q])
    BY <1>1, <1>2 DEF Submits, After, Making
  <2>. QED  BY <1>4, <2>1, WorkflowAssumption DEF Live
<1>6. wf_queue = <<>>
  BY <1>1, <1>2 DEF NoQueue
<1>7. \/ /\ req[s].pc = "close" /\ req'[s].pc = "settle" /\ req'[s].appr = req[s].appr
      \/ /\ req[s].pc = "settle" /\ req[s].ok
         /\ \/ req'[s].pc = "queue"
            \/ req'[s].pc \in {"waiting", "idle"} /\ Rows(t, "pending") # {}
      \/ req[s].pc = "queue" /\ req'[s].pc = "count"
      \/ req[s].pc = "waiting" /\ req'[s].pc = "idle"
      \/ req[s].pc = "count" /\ req'[s].pc = "move"
      \/ req[s].pc = "count" /\ req'[s].pc = "idle" /\ ~Counted(s, t)
  <2>1. CASE ApproveClose(s)
    BY <1>1, <2>1, ClosedStep
  <2>2. CASE SettleSearch(s) \/ SettleQueue(s) \/ SettleCount(s)
    <3>1. LooksAt(s, req'[s])
      BY <1>1, <2>2, LookedStep
    <3>. QED  BY <1>3, <1>6, <3>1, IdleIs DEF LooksAt
  <2>. QED  BY <2>1, <2>2
<1>8. \A u : Rows(u, "pending")' = Rows(u, "pending") /\ Rows(u, "rejected")' = Rows(u, "rejected")
  BY <1>2 DEF Rows
<1>9. PendingRows' = PendingRows
  BY <1>2 DEF PendingRows
<1>10. Rejected(req[s])'
  <2> SUFFICES ASSUME NEW u \in Transitions, NEW i \in Rows(u, "rejected")
               PROVE  \/ pending = None /\ state = Tr[u].reject_to
                      \/ req'[s].pc \in {"close", "settle"} /\ req'[s].appr = i
    BY <1>2, <1>8 DEF Rejected
  <2>1. \/ pending = None /\ state = Tr[u].reject_to
        \/ req[s].pc \in {"close", "settle"} /\ req[s].appr = i
    BY <1>1 DEF WaitFor, Rejected
  <2>2. approvals[i].status = "rejected"
    BY DEF Rows
  <2>. QED  BY <1>4, <1>7, <2>1, <2>2
<1>11. WaitOf(req[s])'
  <2>1. Rows(t, "pending") # {} => PendingRows # {}
    BY DEF Rows, PendingRows
  <2>2. req'[s].pc \notin {"assign", "enqueue", "submit"}
    BY <1>7
  <2>3. req'[s].pc = "waiting" => PendingRows' # {}
    BY <1>7, <1>9, <2>1
  <2>. QED  BY <2>2, <2>3 DEF WaitOf
<1>12. Awaited(req[s])'
  <2> SUFFICES ASSUME pending = t, req'[s].pc = "idle"
               PROVE  Rows(t, "pending") # {}
    BY <1>2, <1>5, <1>7, <1>8 DEF Awaited, Deciders
  <2>1. CASE req[s].pc = "settle"
    BY <1>7, <2>1
  <2>2. CASE req[s].pc = "waiting"
    <3>1. PendingRows # {}
      BY <1>1, <2>2 DEF WaitFor, WaitOf
    <3>. QED  BY <1>4, <3>1 DEF PendingRows, Rows
  <2>3. CASE req[s].pc = "count"
    <3>1. ~Counted(s, t)
      BY <1>7, <2>3
    <3>2. Rows(t, "rejected") = {}
      <4>1. Rejected(req[s]) /\ pending # None
        BY <1>1, WorkflowAssumption DEF WaitFor
      <4>. QED  BY <2>3, <4>1 DEF Rejected
    <3>3. Tr[t].strategy = "all" => Rows(t, "cancelled") = {}
      <4>1. \A i \in Rows(t, "cancelled") : Approved(t)
        BY DEF WInv, AInv, RInv, RowKinds, RowKind, Rows
      <4>. QED  BY <4>1 DEF WInv, JointUncancelled, Joint, Rows
    <3>. QED  BY <3>1, <3>2, <3>3 DEF Counted
  <2>. QED  BY <1>7, <2>1, <2>2, <2>3
<1>. QED  BY <1>1, <1>10, <1>11, <1>12, WaitBy DEF WaitFor

LEMMA EscalatedWait ==
    ASSUME WInv, ~overlapped, NEW s \in Slots, NEW i \in DOMAIN approvals, EscalateOne(s, i)
    PROVE  WaitInv'
<1>1. /\ \A q \in Slots : q # s => req'[q] = req[q] /\ req[q].pc = "idle"
      /\ WaitFor(s) /\ IInv
  BY Working DEF Works
<1>2. /\ UNCHANGED <<state, pending>> /\ req[s].pc = "escalate"
      /\ \/ UNCHANGED approvals /\ req'[s].pc \in {"idle", "escalate"}
         \/ Cancels(s, i)
  BY <1>1, EscalatedStep
<1>3. CASE UNCHANGED approvals /\ req'[s].pc \in {"idle", "escalate"}
  <2>1. WaitFor(s)'
    BY <1>1, <1>2, <1>3 DEF WaitFor, WaitOf, Awaited, Rejected, Rows, Deciders
  <2>. QED  BY <1>1, <2>1, WaitBy
<1>4. CASE Cancels(s, i)
  <2>1. /\ DOMAIN approvals' = DOMAIN approvals /\ req'[s].pc = "create"
        /\ \A k \in DOMAIN approvals : k # i => approvals'[k] = approvals[k]
        /\ approvals'[i].status = "cancelled"
    BY <1>4 DEF Cancels
  <2>2. \A u : Rows(u, "rejected")' \subseteq Rows(u, "rejected")
    BY <2>1 DEF Rows
  <2>3. WaitFor(s)'
    BY <1>1, <1>2, <2>1, <2>2 DEF WaitFor, WaitOf, Awaited, Rejected
  <2>. QED  BY <1>1, <2>3, WaitBy
<1>. QED  BY <1>2, <1>3, <1>4

LEMMA WaitInit == Init => WInv
<1> SUFFICES ASSUME Init PROVE WInv
  OBVIOUS
<1>1. /\ approvals = <<>> /\ pending = None /\ req = [s \in Slots |-> Idle]
  BY DEF Init
<1>2. DOMAIN approvals = {} /\ \A s \in Slots : req[s].pc = "idle"
  BY <1>1, IdleIs
<1>3. JointUncancelled
  BY <1>2 DEF JointUncancelled
<1>4. \A s \in Slots : WaitFor(s)
  BY <1>1, <1>2, WorkflowAssumption DEF WaitFor, WaitOf, Awaited, Rejected, Rows
<1>. QED  BY <1>1, <1>3, <1>4, AlongInit DEF WInv, WaitInv

LEMMA JointlyToo == RejectionEnds => JointRejectionEnds
BY DEF RejectionEnds, JointRejectionEnds, Joint

LEMMA WaitKept ==
    ASSUME RejectionEnds, JointNotEscalated, WInv, [Next]_vars
    PROVE  WInv'
<1>1. AInv'
  BY AlongKept, JointlyToo DEF WInv
<1>2. CASE UNCHANGED vars
  <2>1. UNCHANGED <<state, pending, approvals, req, overlapped>>
    BY <1>2 DEF vars
  <2>2. JointUncancelled'
    BY <2>1 DEF WInv, JointUncancelled
  <2>3. \A s \in Slots : WaitFor(s)' = WaitFor(s)
    BY <2>1 DEF WaitFor, WaitOf, Awaited, Rejected, Rows, PendingRows
  <2>4. WaitInv'
    BY <2>1, <2>3 DEF WInv, WaitInv
  <2>. QED  BY <1>1, <2>2, <2>4 DEF WInv
<1>3. CASE Next
  <2>1. PICK s \in Slots : Opens(s) \/ Works(s)
    BY <1>3, StepsOf DEF WInv, AInv, RInv
  <2>2. JointUncancelled'
    BY <2>1, UncancelledKept DEF WInv, AInv, RInv
  <2>3. WaitInv'
    <3>1. CASE overlapped'
      BY <3>1, <2>1 DEF WaitInv
    <3>2. CASE Opens(s) /\ ~overlapped'
      BY <3>2, OpenedWait
    <3>3. CASE Works(s) /\ ~overlapped'
      <4>1. ~overlapped
        BY <3>3, WorkSound DEF WInv, AInv, RInv, Sound, Frame
      <4>2. ~Advance(s)
        BY <3>3, <4>1, Working, Others, AdvancedStep
      <4>. QED  BY <3>3, <4>1, <4>2, MovedWait, StartedWait, GoesOnWait, WrittenWait, ActedWait,
                   EndedWait, LookedWait, EscalatedWait DEF Works
    <3>. QED  BY <2>1, <3>1, <3>2, <3>3
  <2>. QED  BY <1>1, <2>2, <2>3 DEF WInv
<1>. QED  BY <1>2, <1>3

(* One request at a time, an instance that waits for an approval has one   *)
(* somebody can still give: whatever the definition, if a rejection ends   *)
(* the matter and what all must sign is not escalated.                     *)
THEOREM IsNeverStuck ==
    ASSUME RejectionEnds, JointNotEscalated
    PROVE  Spec => []NeverStuck
<1>1. WInv => NeverStuck
  <2> SUFFICES ASSUME WInv, AtRest, ~overlapped, pending # None
               PROVE  Rows(pending, "pending") # {}
    BY DEF NeverStuck
  <2>1. PICK s \in Slots : TRUE
    BY DEF WInv, WaitInv
  <2>2. \A q \in Slots : req[q].pc = "idle"
    BY IdleIs DEF AtRest
  <2>3. pending \in Transitions
    BY DEF WInv, AInv, RInv, IInv, TypeOK
  <2>. QED  BY <2>2, <2>3 DEF WInv, WaitInv, WaitFor, Awaited, Deciders
<1>2. Spec => []WInv
  BY WaitInit, WaitKept, PTL DEF Spec
<1>. QED  BY <1>1, <1>2, PTL
-----------------------------------------------------------------------------
(* Tasks.                                                                  *)

(* One request at a time: whoever still has to sign has a task, or is just *)
(* being given it; and several who have to sign, or are still to be asked, *)
(* are several users.                                                      *)
Lone(u, v) == u \notin {None, Root, v}
Separate == \A i, j \in PendingRows : i # j => Lone(approvals[i].user, approvals[j].user)
Given(u) == u \in task \/ \E s \in Slots : req[s].pc = "assign" /\ Head(req[s].todo).user = u
Tasked == \A i \in PendingRows : approvals[i].user # None =>
    approvals[i].who = {approvals[i].user} /\ Given(approvals[i].user)
Addressed(q) ==
    /\ \A k \in DOMAIN q : q[k].user # None => q[k].who = {q[k].user}
    /\ \A k, l \in DOMAIN q : k # l => Lone(q[k].user, q[l].user)
    /\ \A k \in DOMAIN q : \A i \in PendingRows :
         Lone(q[k].user, approvals[i].user) /\ Lone(approvals[i].user, q[k].user)
TaskOf(r) ==
    /\ r.pc = "act" => UserMayActOnApproval(r.appr, r.user)
    /\ r.pc = "close" => \A i \in PendingRows : approvals[i].user # r.user
    /\ r.pc \in Making => Addressed(ToAsk(r))
TaskInv == ~overlapped => Separate /\ Tasked /\ \A s \in Slots : TaskOf(req[s])

TInv == AInv /\ TaskInv

LEMMA TaskBy ==
    ASSUME NEW s \in Slots, \A q \in Slots : q # s => req'[q].pc = "idle",
           Separate', Tasked', TaskOf(req[s])'
    PROVE  TaskInv'
<1>1. \A q \in Slots : q # s => TaskOf(req[q])'
  BY DEF TaskOf, Making
<1>. QED  BY <1>1 DEF TaskInv

(* What a request of one at a time may rely on here.                       *)
LEMMA Tasking ==
    ASSUME TInv, ~overlapped, NEW s \in Slots, Works(s)
    PROVE  /\ IInv /\ Apart /\ NoQueue /\ AlongOf(req[s]) /\ Unsigned
           /\ Separate /\ Tasked /\ TaskOf(req[s])
           /\ \A q \in Slots : q # s => req'[q] = req[q] /\ req[q].pc = "idle"
<1>1. IInv /\ Frame(s)
  BY WorkSound DEF TInv, AInv, RInv, Sound
<1>2. \A q \in Slots : q # s => req'[q] = req[q] /\ req[q].pc = "idle"
  BY <1>1 DEF Frame
<1>. QED  BY <1>1, <1>2 DEF TInv, TaskInv, AInv, AlongInv, RInv, CInv, IInv, Alone

(* Several approvers of one transition are several users.                  *)
LEMMA ResolveUsers ==
    ASSUME NEW t \in Transitions, NEW specs \in Resolve(t)
    PROVE  /\ \A k \in DOMAIN specs : specs[k].user # None => specs[k].who = {specs[k].user}
           /\ (Joint(t) /\ JointWithoutRoot) =>
                \A k, l \in DOMAIN specs : k # l => Lone(specs[k].user, specs[l].user)
<1> DEFINE g == Tr[t].group
           each == [i \in DOMAIN g |-> OneUser(g[i])]
<1>1. g \in Seq(Users) /\ IsInjective(g)
  BY WorkflowAssumption DEF TransitionDef
<1>2. \A i \in DOMAIN g : g[i] \in Users
  BY <1>1, LenProperties, ElementOfSeq
<1>3. \/ \E u : specs = <<OneUser(u)>>
      \/ specs = each
      \/ \E us : specs = <<Group(us)>>
  BY DEF Resolve
<1>4. CASE \E u : specs = <<OneUser(u)>>
  <2>1. PICK u : specs = <<OneUser(u)>>
    BY <1>4
  <2>2. DOMAIN specs = {1} /\ specs[1].user = u /\ specs[1].who = {u}
    BY <2>1 DEF OneUser
  <2>. QED  BY <2>2
<1>5. CASE \E us : specs = <<Group(us)>>
  <2>1. PICK us : specs = <<Group(us)>>
    BY <1>5
  <2>2. DOMAIN specs = {1} /\ specs[1].user = None
    BY <2>1 DEF Group
  <2>. QED  BY <2>2
<1>6. CASE specs = each
  <2>1. DOMAIN specs = DOMAIN g /\ \A k \in DOMAIN g : specs[k].user = g[k] /\ specs[k].who = {g[k]}
    BY <1>6 DEF OneUser
  <2>2. Joint(t) /\ JointWithoutRoot => \A k \in DOMAIN g : g[k] # Root
    BY DEF JointWithoutRoot, ToSet
  <2>3. \A k, l \in DOMAIN g : k # l => g[k] # g[l]
    BY <1>1 DEF IsInjective
  <2> HIDE DEF g, each
  <2>. QED  BY <1>2, <2>1, <2>2, <2>3, WorkflowAssumption DEF Lone
<1>. QED  BY <1>3, <1>4, <1>5, <1>6

LEMMA StartedTask ==
    ASSUME JointRejectionEnds, JointWithoutRoot, TInv, ~overlapped, NEW s \in Slots,
           TransitionSubmit(s)
    PROVE  TaskInv'
<1>1. PICK t \in Transitions : t = req[s].tr
  BY StartedStep DEF TInv, AInv, RInv
<1>2. /\ req[s].pc = "transition" /\ Approved(t) /\ UNCHANGED <<approvals, task>>
      /\ req'[s].pc = "create"
      /\ \E specs \in Resolve(t) :
           req'[s].todo = IF Tr[t].strategy = "sequential" THEN <<Head(specs)>> ELSE specs
  BY <1>1, StartedStep DEF TInv, AInv, RInv
<1>3. \A q \in Slots : q # s => req'[q] = req[q] /\ req[q].pc = "idle"
  BY Tasking DEF Works
<1>4. PendingRows = {}
  BY <1>2, <1>3, NothingLeft DEF TInv
<1>5. PendingRows' = {}
  BY <1>2, <1>4 DEF PendingRows
<1>6. PICK specs \in Resolve(t) :
        req'[s].todo = IF Tr[t].strategy = "sequential" THEN <<Head(specs)>> ELSE specs
  BY <1>2
<1>7. /\ \A k \in DOMAIN specs : specs[k].user # None => specs[k].who = {specs[k].user}
      /\ Joint(t) => \A k, l \in DOMAIN specs : k # l => Lone(specs[k].user, specs[l].user)
  BY ResolveUsers
<1>8. specs \in Seq(Assignee) /\ specs # <<>>
  BY ResolveGives
<1>9. Addressed(req[s].todo)'
  <2>1. CASE Tr[t].strategy = "sequential"
    <3> DEFINE h == Head(specs)
    <3>1. h = specs[1] /\ 1 \in DOMAIN specs
      BY <1>8, ListIs
    <3>2. h.user # None => h.who = {h.user}
      BY <1>7, <3>1
    <3> HIDE DEF h
    <3>3. req'[s].todo = <<h>>
      BY <1>6, <2>1 DEF h
    <3>4. DOMAIN <<h>> = {1} /\ <<h>>[1] = h
      OBVIOUS
    <3>. QED  BY <1>5, <3>2, <3>3, <3>4 DEF Addressed
  <2>2. CASE Tr[t].strategy = "all"
    <3>1. Joint(t) /\ req'[s].todo = specs
      BY <1>2, <1>6, <2>2 DEF Joint
    <3>. QED  BY <1>5, <1>7, <3>1 DEF Addressed
  <2>3. CASE Tr[t].strategy \notin {"sequential", "all"}
    <3>1. req'[s].todo = specs /\ Len(specs) = 1
      BY <1>6, <2>3, ResolveOne
    <3>2. DOMAIN specs = 1..1
      BY <1>8, <3>1, ListIs
    <3>3. \A k, l \in DOMAIN specs : k = l
      BY <3>2
    <3>. QED  BY <1>5, <1>7, <3>1, <3>3 DEF Addressed
  <2>. QED  BY <2>1, <2>2, <2>3
<1>10. TaskOf(req[s])'
  BY <1>2, <1>9 DEF TaskOf, ToAsk
<1>11. Separate' /\ Tasked'
  BY <1>5 DEF Separate, Tasked
<1>. QED  BY <1>3, <1>10, <1>11, TaskBy

LEMMA CreatedTask ==
    ASSUME TInv, ~overlapped, NEW s \in Slots, Create(s)
    PROVE  TaskInv'
<1>1. PICK r \in Creating, h \in Assignee, n \in Nat :
        /\ r = req[s] /\ h = Head(r.todo) /\ r.pc = "create" /\ UNCHANGED task
        /\ DOMAIN approvals' = DOMAIN approvals \cup {n} /\ n \notin DOMAIN approvals
        /\ approvals'[n] = NewApproval(r.tr, h, r.round)
        /\ \A i \in DOMAIN approvals : approvals'[i] = approvals[i]
        /\ \/ h.user # None /\ req'[s].pc = "assign" /\ req'[s].todo = r.todo
           \/ h.user = None /\ GoesOn(r, req'[s])
  <2>1. Len(approvals) + 1 \in Nat
    BY LenProperties DEF TInv, AInv, RInv, IInv, TypeOK
  <2>2. req[s] \in Creating /\ Head(req[s].todo) \in Assignee /\ req[s].tr \in Transitions
        /\ req[s].round \in Nat
    <3>1. req[s] \in Creating
      BY CreatedStep DEF TInv, AInv, RInv
    <3>. QED  BY <3>1, ListIs DEF Creating
  <2>3. NewApproval(req[s].tr, Head(req[s].todo), req[s].round).user = Head(req[s].todo).user
    BY <2>2, NewApprovalIs
  <2>. QED  BY <2>1, <2>2, <2>3, CreatedStep DEF TInv, AInv, RInv
<1>2. /\ Separate /\ Tasked /\ TaskOf(r)
      /\ \A q \in Slots : q # s => req'[q] = req[q] /\ req[q].pc = "idle"
  BY <1>1, Tasking DEF Works
<1>3. Addressed(r.todo)
  BY <1>1, <1>2 DEF TaskOf, Making, ToAsk
<1>4. /\ r.todo \in Seq(Assignee) /\ r.todo # <<>> /\ r.then.pc \notin Making \cup {"act", "close"}
      /\ r.tr \in Transitions /\ r.round \in Nat
  BY DEF Creating, Submitting, Escalating, Idle, Making
<1>5. /\ 1 \in DOMAIN r.todo /\ r.todo[1] = h
      /\ \A k \in DOMAIN Tail(r.todo) :
           k + 1 \in DOMAIN r.todo /\ Tail(r.todo)[k] = r.todo[k + 1] /\ k + 1 # 1
      /\ \A k, l \in DOMAIN Tail(r.todo) : k # l => k + 1 # l + 1
  BY <1>1, <1>4, ListIs
<1>6. approvals'[n].user = h.user /\ approvals'[n].who = h.who
  BY <1>1, <1>4, NewApprovalIs
<1>7. \A i \in PendingRows' : i = n \/ (i \in PendingRows /\ approvals'[i] = approvals[i])
  BY <1>1 DEF PendingRows
<1>8. Separate'
  BY <1>2, <1>3, <1>5, <1>6, <1>7 DEF Separate, Addressed
<1>9. Tasked'
  <2>1. h.user # None => h.who = {h.user} /\ Given(h.user)'
    BY <1>1, <1>3, <1>5 DEF Addressed, Given
  <2>2. ASSUME NEW u, Given(u) PROVE Given(u)'
    BY <1>1, <1>2, <2>2 DEF Given
  <2>. QED  BY <1>2, <1>6, <1>7, <2>1, <2>2 DEF Tasked
<1>10. Addressed(Tail(r.todo))'
  <2> DEFINE q == Tail(r.todo)
  <2>1. \A k \in DOMAIN q : q[k].user # None => q[k].who = {q[k].user}
    BY <1>3, <1>5 DEF Addressed
  <2>2. \A k, l \in DOMAIN q : k # l => Lone(q[k].user, q[l].user)
    BY <1>3, <1>5 DEF Addressed
  <2>3. \A k \in DOMAIN q : Lone(q[k].user, h.user) /\ Lone(h.user, q[k].user)
    BY <1>3, <1>5 DEF Addressed
  <2>4. \A k \in DOMAIN q : \A i \in PendingRows :
          Lone(q[k].user, approvals[i].user) /\ Lone(approvals[i].user, q[k].user)
    BY <1>3, <1>5 DEF Addressed
  <2> HIDE DEF q
  <2>5. \A k \in DOMAIN q : \A i \in PendingRows' :
          Lone(q[k].user, approvals'[i].user) /\ Lone(approvals'[i].user, q[k].user)
    BY <1>6, <1>7, <2>3, <2>4
  <2>6. Addressed(q)'
    BY <2>1, <2>2, <2>5 DEF Addressed
  <2>. QED  BY <2>6 DEF q
<1>11. TaskOf(req[s])'
  <2>1. req'[s].pc \in Making => ToAsk(req'[s]) = Tail(r.todo)
    BY <1>1, <1>4 DEF GoesOn, ToAsk, Making
  <2>2. req'[s].pc \notin {"act", "close"}
    BY <1>1, <1>4 DEF GoesOn
  <2>. QED  BY <1>10, <2>1, <2>2 DEF TaskOf
<1>. QED  BY <1>2, <1>8, <1>9, <1>11, TaskBy

LEMMA AssignedTask ==
    ASSUME TInv, ~overlapped, NEW s \in Slots, Assign(s)
    PROVE  TaskInv'
<1>1. PICK r \in Creating : r = req[s]
  BY AssignedStep DEF TInv, AInv, RInv
<1>2. /\ r.pc = "assign" /\ task' = task \cup {Head(r.todo).user}
      /\ UNCHANGED approvals /\ GoesOn(r, req'[s])
  BY <1>1, AssignedStep DEF TInv, AInv, RInv
<1>3. /\ Separate /\ Tasked /\ TaskOf(r)
      /\ \A q \in Slots : q # s => req'[q] = req[q] /\ req[q].pc = "idle"
  BY <1>1, Tasking DEF Works
<1>4. r.then.pc \notin Making \cup {"act", "close"}
  BY DEF Creating, Submitting, Escalating, Idle, Making
<1>5. PendingRows' = PendingRows
  BY <1>2 DEF PendingRows
<1>6. ASSUME NEW u, Given(u) PROVE Given(u)'
  BY <1>1, <1>2, <1>3, <1>6 DEF Given
<1>7. Separate' /\ Tasked'
  BY <1>2, <1>3, <1>5, <1>6 DEF Separate, Tasked
<1>8. Addressed(Tail(r.todo))
  BY <1>2, <1>3 DEF TaskOf, Making, ToAsk
<1>9. Addressed(Tail(r.todo))'
  BY <1>2, <1>5, <1>8 DEF Addressed
<1>10. req'[s].pc \in Making => ToAsk(req'[s]) = Tail(r.todo)
  BY <1>2, <1>4 DEF GoesOn, ToAsk
<1>11. req'[s].pc \notin {"act", "close"}
  BY <1>2, <1>4 DEF GoesOn
<1>12. TaskOf(req[s])'
  BY <1>9, <1>10, <1>11 DEF TaskOf
<1>. QED  BY <1>3, <1>7, <1>12, TaskBy

LEMMA ActedTask ==
    ASSUME TInv, ~overlapped, NEW s \in Slots, ApproveAct(s)
    PROVE  TaskInv'
<1>1. PICK n \in DOMAIN approvals, u \in Users : n = req[s].appr /\ u = req[s].user
  BY ActedStep DEF TInv, AInv, RInv
<1>2. /\ DOMAIN approvals' = DOMAIN approvals /\ UNCHANGED task
      /\ \A i \in DOMAIN approvals : i # n => approvals'[i] = approvals[i]
      /\ approvals'[n].status # "pending" /\ approvals[n].status = "pending"
      /\ req[s].pc = "act" /\ req'[s].pc = "close" /\ req'[s].user = u
  BY <1>1, ActedStep DEF TInv, AInv, RInv
<1>3. /\ Separate /\ Tasked /\ TaskOf(req[s])
      /\ \A q \in Slots : q # s => req'[q] = req[q] /\ req[q].pc = "idle"
  BY Tasking DEF Works
<1>4. n \in PendingRows
  BY <1>2 DEF PendingRows
<1>5. \A i \in PendingRows' : i \in PendingRows /\ i # n /\ approvals'[i] = approvals[i]
  BY <1>2 DEF PendingRows
<1>6. u = Root \/ u \in approvals[n].who
  BY <1>1, <1>2, <1>3 DEF TaskOf, UserMayActOnApproval
<1>7. ASSUME NEW i \in PendingRows' PROVE approvals'[i].user # u
  <2>1. Lone(approvals[n].user, approvals[i].user) /\ Lone(approvals[i].user, approvals[n].user)
    BY <1>3, <1>4, <1>5 DEF Separate
  <2>2. approvals[n].who = {approvals[n].user}
    BY <1>3, <1>4, <2>1 DEF Tasked, Lone
  <2>. QED  BY <1>5, <1>6, <2>1, <2>2 DEF Lone
<1>8. ASSUME NEW v, Given(v) PROVE Given(v)'
  BY <1>2, <1>3, <1>8 DEF Given
<1>9. Separate' /\ Tasked'
  BY <1>3, <1>5, <1>8 DEF Separate, Tasked
<1>10. TaskOf(req[s])'
  BY <1>2, <1>7 DEF TaskOf, Making
<1>. QED  BY <1>3, <1>9, <1>10, TaskBy

LEMMA ClosedTask ==
    ASSUME TInv, ~overlapped, NEW s \in Slots, ApproveClose(s)
    PROVE  TaskInv'
<1>1. /\ req[s].pc = "close" /\ req'[s].pc = "settle" /\ UNCHANGED approvals
      /\ task' = task \ {req[s].user}
  BY ClosedStep DEF TInv, AInv, RInv
<1>2. /\ Separate /\ Tasked /\ TaskOf(req[s])
      /\ \A q \in Slots : q # s => req'[q] = req[q] /\ req[q].pc = "idle"
  BY Tasking DEF Works
<1>3. PendingRows' = PendingRows
  BY <1>1 DEF PendingRows
<1>4. \A i \in PendingRows : approvals[i].user # req[s].user
  BY <1>1, <1>2 DEF TaskOf
<1>5. ASSUME NEW v, Given(v), v # req[s].user PROVE Given(v)'
  BY <1>1, <1>2, <1>5 DEF Given
<1>6. Separate' /\ Tasked'
  BY <1>1, <1>2, <1>3, <1>4, <1>5 DEF Separate, Tasked
<1>7. TaskOf(req[s])'
  BY <1>1 DEF TaskOf, Making
<1>. QED  BY <1>2, <1>6, <1>7, TaskBy

LEMMA EscalatedTask ==
    ASSUME JointNotEscalated, TInv, ~overlapped, NEW s \in Slots, NEW i \in DOMAIN approvals,
           EscalateOne(s, i)
    PROVE  TaskInv'
<1>1. /\ UNCHANGED task /\ approvals[i].status = "pending" /\ req[s].pc = "escalate"
      /\ \/ UNCHANGED approvals /\ req'[s].pc \in {"idle", "escalate"}
         \/ Cancels(s, i)
  BY EscalatedStep DEF TInv, AInv, RInv
<1>2. /\ Separate /\ Tasked /\ Unsigned
      /\ \A q \in Slots : q # s => req'[q] = req[q] /\ req[q].pc = "idle"
  BY Tasking DEF Works
<1>3. ASSUME NEW v, Given(v) PROVE Given(v)'
  BY <1>1, <1>2, <1>3 DEF Given
<1>4. CASE UNCHANGED approvals /\ req'[s].pc \in {"idle", "escalate"}
  <2>1. PendingRows' = PendingRows
    BY <1>4 DEF PendingRows
  <2>2. Separate' /\ Tasked'
    BY <1>2, <1>3, <1>4, <2>1 DEF Separate, Tasked
  <2>3. TaskOf(req[s])'
    BY <1>4 DEF TaskOf, Making
  <2>. QED  BY <1>2, <2>2, <2>3, TaskBy
<1>5. CASE Cancels(s, i)
  <2>1. PICK t \in Transitions : t = approvals[i].tr
    BY RowIs DEF TInv, AInv, RInv, IInv
  <2>2. /\ DOMAIN approvals' = DOMAIN approvals /\ Tr[t].escalate # {}
        /\ \A k \in DOMAIN approvals : k # i => approvals'[k] = approvals[k]
        /\ approvals'[i].status = "cancelled"
        /\ req'[s].pc = "create" /\ req'[s].todo = <<Group(Tr[t].escalate)>>
    BY <1>5, <2>1 DEF Cancels
  <2>3. ~Joint(t) /\ i \in PendingRows
    BY <1>1, <2>2 DEF JointNotEscalated, PendingRows
  <2>4. \A k \in PendingRows : k = i
    BY <1>2, <2>1, <2>3 DEF Unsigned
  <2>5. PendingRows' = {}
    BY <2>2, <2>4 DEF PendingRows
  <2>6. Separate' /\ Tasked'
    BY <2>5 DEF Separate, Tasked
  <2>7. Addressed(req[s].todo)'
    <3> DEFINE g == Group(Tr[t].escalate)
    <3>1. g.user = None
      BY DEF Group
    <3> HIDE DEF g
    <3>2. DOMAIN <<g>> = {1} /\ <<g>>[1] = g /\ req'[s].todo = <<g>>
      BY <2>2 DEF g
    <3>. QED  BY <2>5, <3>1, <3>2 DEF Addressed
  <2>8. TaskOf(req[s])'
    BY <2>2, <2>7 DEF TaskOf, ToAsk
  <2>. QED  BY <1>2, <2>6, <2>8, TaskBy
<1>. QED  BY <1>1, <1>4, <1>5

(* Nothing else touches rows or tasks.                                     *)
LEMMA OtherTask ==
    ASSUME TInv, NEW s \in Slots, UNCHANGED <<approvals, task>>, ~overlapped,
           \A q \in Slots : q # s => req'[q] = req[q] /\ req[q].pc = "idle",
           req[s].pc # "assign", req'[s].pc \notin {"close"} \cup Making,
           req'[s].pc = "act" => UserMayActOnApproval(req'[s].appr, req'[s].user)
    PROVE  TaskInv'
<1>1. PendingRows' = PendingRows
  BY DEF PendingRows
<1>2. ASSUME NEW v, Given(v) PROVE Given(v)'
  BY <1>2 DEF Given
<1>3. Separate' /\ Tasked'
  BY <1>1, <1>2 DEF TInv, TaskInv, Separate, Tasked
<1>4. TaskOf(req[s])'
  BY DEF TaskOf, UserMayActOnApproval
<1>. QED  BY <1>3, <1>4, TaskBy

LEMMA OtherStepsTask ==
    ASSUME TInv, ~overlapped, NEW s \in Slots,
           \/ TransitionMove(s) \/ Enqueue(s) \/ Submit(s) \/ SettleReject(s) \/ SettleMove(s)
           \/ SettleSearch(s) \/ SettleQueue(s) \/ SettleCount(s)
    PROVE  TaskInv'
<1>1. /\ IInv /\ Apart /\ NoQueue
      /\ \A q \in Slots : q # s => req'[q] = req[q] /\ req[q].pc = "idle"
  BY Tasking DEF Works
<1>2. CASE TransitionMove(s) \/ Enqueue(s) \/ Submit(s) \/ SettleReject(s) \/ SettleMove(s)
  <2>1. /\ UNCHANGED <<approvals, task>> /\ req'[s].pc \in {"idle", "submit"}
        /\ req[s].pc # "assign"
    BY <1>1, <1>2, MovedStep, EnqueuedStep, SubmittedStep, EndedStep, IdleIs
  <2>. QED  BY <1>1, <2>1, OtherTask DEF Making
<1>3. CASE SettleSearch(s) \/ SettleQueue(s) \/ SettleCount(s)
  <2>1. /\ UNCHANGED <<approvals, task>> /\ LooksAt(s, req'[s])
        /\ req[s].pc \in {"settle", "queue", "waiting", "count"}
    BY <1>1, <1>3, LookedStep
  <2>2. req'[s].pc \in {"idle", "queue", "waiting", "count", "move", "advance"}
    BY <2>1, IdleIs DEF LooksAt
  <2>. QED  BY <1>1, <2>1, <2>2, OtherTask DEF Making
<1>. QED  BY <1>2, <1>3

LEMMA TaskInit == Init => TInv
<1> SUFFICES ASSUME Init PROVE TInv
  OBVIOUS
<1>1. approvals = <<>> /\ req = [s \in Slots |-> Idle]
  BY DEF Init
<1>2. PendingRows = {} /\ \A s \in Slots : req[s].pc = "idle"
  BY <1>1, IdleIs DEF PendingRows
<1>3. TaskInv
  BY <1>2 DEF TaskInv, Separate, Tasked, TaskOf, Making
<1>. QED  BY <1>3, AlongInit DEF TInv

LEMMA TaskKept ==
    ASSUME JointRejectionEnds, JointNotEscalated, JointWithoutRoot, TInv, [Next]_vars
    PROVE  TInv'
<1>1. AInv'
  BY AlongKept DEF TInv
<1>2. CASE UNCHANGED vars
  <2>1. UNCHANGED <<approvals, task, req, overlapped>>
    BY <1>2 DEF vars
  <2>2. PendingRows' = PendingRows /\ \A u : Given(u)' = Given(u)
    BY <2>1 DEF PendingRows, Given
  <2>3. \A q : Addressed(q)' = Addressed(q)
    BY <2>1, <2>2 DEF Addressed
  <2>4. \A s \in Slots : TaskOf(req[s])' = TaskOf(req[s])
    BY <2>1, <2>2, <2>3 DEF TaskOf, UserMayActOnApproval
  <2>5. TaskInv'
    BY <2>1, <2>2, <2>4 DEF TInv, TaskInv, Separate, Tasked
  <2>. QED  BY <1>1, <2>5 DEF TInv
<1>3. CASE Next
  <2> SUFFICES ASSUME ~overlapped' PROVE TaskInv'
    BY <1>1 DEF TInv, TaskInv
  <2>1. PICK s \in Slots : Opens(s) \/ Works(s)
    BY <1>3, StepsOf DEF TInv, AInv, RInv
  <2>2. CASE Opens(s)
    <3>1. /\ UNCHANGED <<approvals, task>> /\ ~overlapped /\ req[s].pc = "idle"
          /\ \A q \in Slots : q # s => req'[q] = req[q] /\ req[q].pc = "idle"
          /\ req'[s].pc \in {"transition", "act", "escalate"}
          /\ req'[s].pc = "act" => UserMayActOnApproval(req'[s].appr, req'[s].user)
      BY <2>2, OpenedStep DEF TInv, AInv, RInv
    <3>. QED  BY <3>1, OtherTask DEF Making
  <2>3. CASE Works(s)
    <3>1. ~overlapped
      BY <2>3, WorkSound DEF TInv, AInv, RInv, Sound, Frame
    <3>2. ~Advance(s)
      BY <2>3, <3>1, Tasking, Others, AdvancedStep
    <3>. QED  BY <2>3, <3>1, <3>2, StartedTask, CreatedTask, AssignedTask, ActedTask, ClosedTask,
                 EscalatedTask, OtherStepsTask DEF Works
  <2>. QED  BY <2>1, <2>2, <2>3
<1>. QED  BY <1>2, <1>3

(* One request at a time, an approver who still has to sign has an open    *)
(* task: whatever the definition, if a rejection by one of several signers *)
(* is final, and they are ordinary users and not escalated.                *)
THEOREM ApproversKeepTheirTasks ==
    ASSUME JointRejectionEnds, JointNotEscalated, JointWithoutRoot
    PROVE  Spec => []TaskWhileWaiting
<1>1. TInv => TaskWhileWaiting
  <2> SUFFICES ASSUME TInv, AtRest, ~overlapped, NEW i \in PendingRows, approvals[i].user # None
               PROVE  approvals[i].user \in task
    BY DEF TaskWhileWaiting, PendingRows
  <2>1. \A s \in Slots : req[s].pc = "idle"
    BY IdleIs DEF AtRest
  <2>. QED  BY <2>1 DEF TInv, TaskInv, Tasked, Given
<1>2. Spec => []TInv
  BY TaskInit, TaskKept, PTL DEF Spec
<1>. QED  BY <1>1, <1>2, PTL
=============================================================================
