---------------------------- MODULE CronDispatch ----------------------------
(***************************************************************************)
(* Scheduled jobs (modules/base/models/ir_cron.py), the worker that runs   *)
(* them (`cron_loop` in pyvelm/cli.py), the administrator's "Run now"      *)
(* button, and the job that drains the outgoing mail                       *)
(* (modules/base/models/mail_message.py).                                  *)
(*                                                                         *)
(* Nothing claims a job or a message: a runner reads, acts, and writes     *)
(* what it did afterwards. Times are kept relative to the clock: next[j]   *)
(* is how far ahead job j's nextcall is, and Clock brings them nearer.     *)
(***************************************************************************)
EXTENDS Integers, SequencesExt

CONSTANTS
    JobList,    \* the jobs in the order a search lists them
    Mailer,     \* the one whose action is dispatch_outgoing
    Removable,  \* the ones whose target model some process may not have
    Switched,   \* the ones administrators switch on and off
    Delta,      \* the interval of each job, in clock ticks
    Messages,   \* mail.message rows with a recipient
    Limit,      \* dispatch_outgoing's limit
    Workers,    \* `pyvelm cron` processes
    Admins,     \* requests for "Run now"
    None,       \* NULL
    MaxLag,     \* bound: how late a job or a tick gets before the clock waits
    MaxFaults,  \* bound: deaths of a runner, and writes of a message's state that fail
    MaxClicks   \* bound: interventions of administrators

Jobs == ToSet(JobList)
Runners == Workers \cup Admins

ASSUME CronAssumption ==
    /\ JobList \in Seq(Jobs) /\ IsInjective(JobList) /\ Mailer \in Jobs
    /\ Removable \subseteq Jobs \ {Mailer} /\ Switched \subseteq Jobs
    /\ Delta \in [Jobs -> Nat \ {0}]
    /\ Limit \in Nat \ {0} /\ MaxLag \in Nat \ {0} /\ MaxFaults \in Nat /\ MaxClicks \in Nat
    /\ Workers \cap Admins = {} /\ None \notin Int /\ IsFiniteSet(Messages)

VARIABLES
    next,        \* ir.cron.nextcall, relative to the clock
    active,      \* ir.cron.active, as the set of active jobs
    mail,        \* mail.message.state
    run,         \* what each runner is doing
    runs,        \* history: executions of a job since its nextcall was written
    delivered,   \* history: successful backend.send calls for a message
    overlapped,  \* history: two runners have been busy at once
    faults,      \* history: deaths so far
    unmarked,    \* history: writes of a message's state that failed so far
    clicks       \* history: interventions of administrators so far

vars == <<next, active, mail, run, runs, delivered, overlapped, faults, unmarked, clicks>>

Most == MaxFaults + 2
Count(n) == IF n < Most THEN n + 1 ELSE n      \* histories saturate

(* A runner: `todo` are the jobs it has still to look at, the first being  *)
(* the one it is at, `age` how long ago it took `now`, `slot` the nextcall *)
(* it read, `batch` the messages it has still to send, `ok` the outcome of *)
(* the last send. It is "raised" when the mailer has raised.                *)
Idle == [pc |-> "idle", todo |-> <<>>, age |-> 0, slot |-> None, batch |-> <<>>, ok |-> FALSE]
Start(todo) == [Idle EXCEPT !.pc = "jobs", !.todo = todo]
Job(r) == Head(run[r].todo)

TypeOK ==
    /\ next \in [Jobs -> Int \cup {None}]
    /\ \A j \in Jobs : next[j] /= None => next[j] <= Delta[j]
    /\ active \subseteq Jobs
    /\ mail \in [Messages -> {"none", "outgoing", "sent", "failed"}]
    /\ \A r \in Runners :
         /\ run[r].pc \in {"idle", "jobs", "mail", "mark", "raised", "advance"}
         /\ run[r].todo \in Seq(Jobs) /\ (run[r].pc = "idle" <=> run[r].todo = <<>>)
         /\ run[r].age \in 0 .. MaxLag
         /\ run[r].batch \in Seq(Messages) /\ Len(run[r].batch) <= Limit
         /\ run[r].pc = "mark" => run[r].batch /= <<>>
    /\ runs \in [Jobs -> 0 .. Most] /\ delivered \in [Messages -> 0 .. Most]
    /\ overlapped \in BOOLEAN /\ clicks \in 0 .. MaxClicks
    /\ faults \in Nat /\ unmarked \in Nat /\ faults + unmarked <= MaxFaults

(* Freshly seeded jobs have no nextcall.                                   *)
Init ==
    /\ next = [j \in Jobs |-> None] /\ active = Jobs
    /\ mail = [m \in Messages |-> "none"]
    /\ run = [r \in Runners |-> Idle]
    /\ runs = [j \in Jobs |-> 0] /\ delivered = [m \in Messages |-> 0]
    /\ overlapped = FALSE /\ faults = 0 /\ unmarked = 0 /\ clicks = 0

Records == <<next, active, mail>>
Becomes(r, x) ==
    run' = [run EXCEPT ![r] = x] /\ UNCHANGED <<overlapped, faults, unmarked, clicks>>
Begin(r, x) ==
    /\ run[r] = Idle
    /\ run' = [run EXCEPT ![r] = x]
    /\ overlapped' = (overlapped \/ \E o \in Runners : run[o] /= Idle)
    /\ UNCHANGED <<Records, runs, delivered, faults, unmarked>>

(* On to the next job; after the last one the runner is idle.              *)
Done(r) ==
    IF Len(run[r].todo) = 1 THEN Idle
    ELSE [Start(Tail(run[r].todo)) EXCEPT !.age = run[r].age]
-----------------------------------------------------------------------------
(* The periodic runner: one search per tick, then every job in turn; a     *)
(* job's nextcall is read when its turn comes, `active` is not read again. *)

(* The active jobs in the order of the list.                               *)
Position(j) == CHOOSE i \in DOMAIN JobList : JobList[i] = j
ActiveJobs ==
    {todo \in SetToSeqs(active) :
        \A i, k \in DOMAIN todo : i < k => Position(todo[i]) < Position(todo[k])}

Tick(w) ==
    /\ active /= {}
    /\ \E todo \in ActiveJobs : Begin(w, Start(todo))
    /\ UNCHANGED clicks

Due(r) == next[Job(r)] /= None => next[Job(r)] <= -run[r].age

NotDue(w) ==
    /\ w \in Workers /\ run[w].pc = "jobs" /\ ~Due(w)
    /\ Becomes(w, Done(w))
    /\ UNCHANGED <<Records, runs, delivered>>

(* The registry of this process lacks the target model: the schedule       *)
(* advances all the same.                                                  *)
SkipMissing(w) ==
    /\ w \in Workers /\ run[w].pc = "jobs" /\ Due(w) /\ Job(w) \in Removable
    /\ Becomes(w, [run[w] EXCEPT !.pc = "advance", !.slot = next[Job(w)]])
    /\ UNCHANGED <<Records, runs, delivered>>

(* The same refusal when an administrator asks: nothing is done.           *)
Refuse(a) ==
    /\ a \in Admins /\ run[a].pc = "jobs" /\ Job(a) \in Removable
    /\ Becomes(a, Done(a))
    /\ UNCHANGED <<Records, runs, delivered>>

(* Mutant: rows are taken whatever their state.                            *)
BatchesOfAny ==
    LET known == {m \in Messages : mail[m] /= "none"}
    IN  IF known = {} THEN {<<>>} ELSE {<<m>> : m \in known}

(* Mutant: the whole queue is taken at once.                               *)
BatchesOfAll == SetToSeqs({m \in Messages : mail[m] = "outgoing"})

(* The search of dispatch_outgoing has no order.                           *)
Batches ==
    LET out == {m \in Messages : mail[m] = "outgoing"}
        size == IF Cardinality(out) < Limit THEN Cardinality(out) ELSE Limit
    IN  UNION {SetToSeqs(ms) : ms \in kSubset(size, out)}

(* Mutant: an exception of the action ends the tick.                       *)
AfterActionOrRaise(r, ok) ==
    IF ok THEN [run[r] EXCEPT !.pc = "advance", !.slot = next[Job(r)]] ELSE Idle

(* An action that raises is reported, and the schedule advances. Only of   *)
(* the mailer is it told apart whether it raised.                          *)
AfterAction(r, ok) ==
    [run[r] EXCEPT !.pc = IF ok \/ Job(r) /= Mailer THEN "advance" ELSE "raised",
                   !.slot = next[Job(r)]]

(* The action of the mailer raises when there is no backend or the search  *)
(* fails; it has done its part when there is nothing to send.              *)
Execute(r) ==
    /\ run[r].pc = "jobs"
    /\ r \in Workers => Due(r)
    /\ runs' = [runs EXCEPT ![Job(r)] = Count(@)]
    /\ \/ /\ Job(r) = Mailer
          /\ \E b \in Batches \ {<<>>} :
               Becomes(r, [run[r] EXCEPT !.pc = "mail", !.slot = next[Mailer], !.batch = b])
       \/ \E ok \in BOOLEAN :
            /\ Job(r) = Mailer /\ ok => <<>> \in Batches
            /\ Becomes(r, AfterAction(r, ok))
    /\ UNCHANGED <<Records, delivered>>

Send(r) ==
    /\ run[r].pc = "mail"
    /\ \E ok \in BOOLEAN :
         /\ Becomes(r, [run[r] EXCEPT !.pc = "mark", !.ok = ok])
         /\ delivered' = IF ok THEN [delivered EXCEPT ![Head(run[r].batch)] = Count(@)]
                               ELSE delivered
    /\ UNCHANGED <<Records, runs>>

(* Mutant: a message that could not be sent stays in the queue.            *)
OutcomeOrQueued(ok) == IF ok THEN "sent" ELSE "outgoing"

(* Mutant: the outcome of the send is not looked at.                       *)
OutcomeSent(ok) == "sent"

Outcome(ok) == IF ok THEN "sent" ELSE "failed"

Mark(r) ==
    /\ run[r].pc = "mark"
    /\ mail' = [mail EXCEPT ![Head(run[r].batch)] = Outcome(run[r].ok)]
    /\ LET rest == Tail(run[r].batch)
       IN  Becomes(r, [run[r] EXCEPT !.pc = IF rest = <<>> THEN "advance" ELSE "mail",
                                     !.batch = rest, !.ok = FALSE])
    /\ UNCHANGED <<next, active, runs, delivered>>

(* An exception outside the `try` around the send ends the batch: reading  *)
(* the attachments raises before it, writing the outcome after it.         *)
RaiseInBatch(r) ==
    /\ \/ run[r].pc = "mail" /\ UNCHANGED unmarked
       \/ run[r].pc = "mark" /\ faults + unmarked < MaxFaults /\ unmarked' = unmarked + 1
    /\ run' = [run EXCEPT ![r].pc = "raised", ![r].batch = <<>>, ![r].ok = FALSE]
    /\ UNCHANGED <<Records, runs, delivered, overlapped, faults, clicks>>

(* The periodic runner counts from the nextcall it read, "Run now" from    *)
(* the time the action ended.                                              *)
NextCall(r) ==
    Delta[Job(r)] + (IF r \in Admins THEN 0
                     ELSE IF run[r].slot = None THEN -run[r].age ELSE run[r].slot)

(* Mutant: nextcall is not written.                                        *)
AdvanceNothing(r) ==
    /\ run[r].pc \in {"raised", "advance"}
    /\ Becomes(r, Done(r))
    /\ UNCHANGED <<Records, runs, delivered>>

Advance(r) ==
    /\ run[r].pc \in {"raised", "advance"}
    /\ next' = [next EXCEPT ![Job(r)] = NextCall(r)]
    /\ runs' = [runs EXCEPT ![Job(r)] = 0]
    /\ Becomes(r, Done(r))
    /\ UNCHANGED <<active, mail, delivered>>

(* The process dies, or a statement fails where nothing catches it: the    *)
(* tick is over. cron_loop, or the supervisor, starts the next one.        *)
Die(r) ==
    /\ run[r] /= Idle /\ faults + unmarked < MaxFaults
    /\ run' = [run EXCEPT ![r] = Idle]
    /\ faults' = faults + 1
    /\ UNCHANGED <<Records, runs, delivered, overlapped, unmarked, clicks>>
-----------------------------------------------------------------------------
(* Administrators, those who queue messages, and time.                     *)

Click == clicks < MaxClicks /\ clicks' = clicks + 1

RunNow(a, j) == Click /\ Begin(a, Start(<<j>>))

Queue(m) ==
    /\ mail[m] = "none"
    /\ mail' = [mail EXCEPT ![m] = "outgoing"]
    /\ UNCHANGED <<next, active, run, runs, delivered, overlapped, faults, unmarked, clicks>>

(* "restart delivery manually by flipping `state`" (docs/deployment.md:192)*)
Requeue(m) ==
    /\ Click /\ mail[m] = "failed"
    /\ mail' = [mail EXCEPT ![m] = "outgoing"]
    /\ UNCHANGED <<next, active, run, runs, delivered, overlapped, faults, unmarked>>

Switch(j) ==
    /\ Click
    /\ active' = IF j \in active THEN active \ {j} ELSE active \cup {j}
    /\ UNCHANGED <<next, mail, run, runs, delivered, overlapped, faults, unmarked>>

Later(t) == IF t = None THEN None ELSE t - 1

Clock ==
    /\ \A j \in Jobs : next[j] /= None => next[j] > -MaxLag
    /\ \A w \in Workers : run[w].age < MaxLag
    /\ next' = [j \in Jobs |-> Later(next[j])]
    /\ run' = [r \in Runners |->
                 IF r \in Workers /\ run[r] /= Idle
                 THEN [run[r] EXCEPT !.age = @ + 1, !.slot = Later(@)] ELSE run[r]]
    /\ UNCHANGED <<active, mail, runs, delivered, overlapped, faults, unmarked, clicks>>

Continue(r) ==
    \/ NotDue(r) \/ SkipMissing(r) \/ Refuse(r)
    \/ Execute(r) \/ Send(r) \/ Mark(r) \/ RaiseInBatch(r) \/ Advance(r)

Next ==
    \/ \E w \in Workers : Tick(w)
    \/ \E r \in Runners : Continue(r) \/ Die(r)
    \/ \E a \in Admins, j \in Jobs : RunNow(a, j)
    \/ \E m \in Messages : Queue(m) \/ Requeue(m)
    \/ \E j \in Switched : Switch(j)
    \/ Clock

(* A worker ticks for ever, a runner goes on unless it dies, time passes.  *)
Fairness ==
    /\ \A w \in Workers : WF_vars(Tick(w) \/ Continue(w))
    /\ \A a \in Admins : WF_vars(Continue(a))
    /\ WF_vars(Clock)

Spec == Init /\ [][Next]_vars /\ Fairness
-----------------------------------------------------------------------------
(* Properties.                                                             *)

(* While runners do not overlap, a job is executed once for every nextcall,*)
(* and once more for every death between the action and the write that     *)
(* advances nextcall.                                                      *)
SlotRunsOnce == ~overlapped => \A j \in Jobs : runs[j] <= 1 + faults

(* While runners do not overlap, a message is delivered once, and once more*)
(* for every death between the send and the write of its state and every   *)
(* such write that fails, requeued or not.                                 *)
MailSentOnce == ~overlapped => \A m \in Messages : delivered[m] <= 1 + faults + unmarked

(* Whatever overlaps or dies, a message marked "sent" has been delivered   *)
(* at least once.                                                          *)
SentMeansDelivered == \A m \in Messages : mail[m] = "sent" => delivered[m] > 0

(* "Once a row hits `sent` or `failed` the dispatcher leaves it alone"     *)
(* (docs/deployment.md:189), while runners do not overlap.                 *)
MailStateTerminal ==
    [][~overlapped' => \A m \in Messages :
         mail[m] \in {"sent", "failed"} =>
           mail'[m] \in {mail[m]} \cup (IF run' = run THEN {"outgoing"} ELSE {})]_vars

(* A runner is through with the action of j and about to advance it.       *)
Served(j) == \E r \in Runners : run[r].pc \in {"raised", "advance"} /\ Job(r) = j

(* A job that is due gets its turn, whatever the actions of the jobs before*)
(* it do ("we don't want a flaky job to wedge the queue", ir_cron.py:95),  *)
(* unless it is switched off.                                              *)
DueJobsRun ==
    \A j \in Jobs :
      (j \in active /\ (next[j] /= None => next[j] <= 0)) ~> (Served(j) \/ j \notin active)

(* The runner is about to report that the dispatcher raised.               *)
DispatchRaised == \E r \in Runners : run[r].pc = "raised" /\ Job(r) = Mailer

(* A message that cannot be sent does not stay in the queue, nor keep      *)
(* others in it, as long as the dispatcher is switched on: one that stays  *)
(* outgoing for ever does so because dispatches go on raising (nothing     *)
(* catches what dispatch_outgoing raises outside the send's `try` except   *)
(* the runner, which advances the schedule).                               *)
MailLeavesQueue ==
    \A m \in Messages :
      mail[m] = "outgoing" ~> (mail[m] /= "outgoing" \/ Mailer \notin active \/ DispatchRaised)
=============================================================================
