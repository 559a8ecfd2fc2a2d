------------------------- MODULE CronDispatchProofs -------------------------
(***************************************************************************)
(* Proofs about CronDispatch, for any jobs, messages, runners and bounds.  *)
(***************************************************************************)
EXTENDS CronDispatch, SequenceTheorems, FiniteSetTheorems, TLAPS

(* What a runner holds. No proof needs to know which jobs it has to do.    *)
Batch(b) ==
    /\ b \in Seq(Messages) /\ b # <<>>
    /\ \A i, k \in 1..Len(b) : i # k => b[i] # b[k]
Phases == {"idle", "jobs", "mail", "mark", "raised", "advance"}

(* Deaths, and states of messages that could not be written.               *)
Lost == faults + unmarked
Holding(todo, age, slot, batch) ==
    [pc : Phases, todo : {todo}, age : {age}, slot : {slot}, batch : {batch}, ok : BOOLEAN]
RunnerOK(x) ==
    /\ x \in Holding(x.todo, x.age, x.slot, x.batch)
    /\ x.pc = "idle" => x = Idle
    /\ x.pc \in {"mail", "mark"} => Batch(x.batch)

Shape ==
    /\ run = [r \in Runners |-> run[r]] /\ \A r \in Runners : RunnerOK(run[r])
    /\ mail \in [Messages -> {"none", "outgoing", "sent", "failed"}]
    /\ runs \in [Jobs -> Nat] /\ delivered \in [Messages -> Nat]
    /\ overlapped \in BOOLEAN
    /\ faults \in Nat /\ unmarked \in Nat /\ Lost <= MaxFaults

(* One runner at a time.                                                   *)
Alone ==
    ~overlapped =>
        \A r, o \in Runners : run[r] # Idle /\ run[o] # Idle => r = o

(* The execution that makes one more than the deaths is still to be        *)
(* entered in nextcall.                                                    *)
Past(r, j) == run[r].pc \in {"mail", "mark", "raised", "advance"} /\ Job(r) = j
RunsInv ==
    ~overlapped =>
        \A j \in Jobs : \/ runs[j] <= faults
                        \/ runs[j] <= 1 + faults /\ \E r \in Runners : Past(r, j)

(* What a runner has still to send, or to mark, is in the queue.           *)
BatchQueued ==
    ~overlapped =>
        \A r \in Runners : run[r].pc \in {"mail", "mark"} =>
            \A i \in 1..Len(run[r].batch) : mail[run[r].batch[i]] = "outgoing"

(* The delivery that makes one more than what has been lost is, or is      *)
(* about to be, entered in the message's state.                            *)
Sent(r, m) == run[r].pc = "mark" /\ run[r].ok /\ Head(run[r].batch) = m
MailInv ==
    ~overlapped =>
        \A m \in Messages :
            \/ delivered[m] <= Lost
            \/ /\ delivered[m] <= 1 + Lost
               /\ mail[m] = "sent" \/ \E r \in Runners : Sent(r, m)

SentInv ==
    /\ SentMeansDelivered
    /\ \A r \in Runners, m \in Messages : Sent(r, m) => delivered[m] > 0

IInv == Shape /\ Alone /\ RunsInv /\ BatchQueued /\ MailInv /\ SentInv
-----------------------------------------------------------------------------
(* Histories, batches and runners.                                         *)

(* A history goes up by one at most, and is not back at zero.              *)
LEMMA Counts ==
    ASSUME NEW n \in Nat
    PROVE  Count(n) \in Nat /\ Count(n) <= n + 1 /\ Count(n) > 0
BY CronAssumption DEF Count, Most

(* A batch is a list of queued messages, none twice.                       *)
LEMMA BatchesGive ==
    ASSUME NEW b \in Batches, b # <<>>
    PROVE  /\ Batch(b)
           /\ \A i \in 1..Len(b) : mail[b[i]] = "outgoing"
<1> DEFINE out == {m \in Messages : mail[m] = "outgoing"}
           size == IF Cardinality(out) < Limit THEN Cardinality(out) ELSE Limit
<1>1. PICK ms \in kSubset(size, out) : b \in SetToSeqs(ms)
  BY DEF Batches
<1>2. ms \subseteq out /\ out \subseteq Messages
  BY <1>1 DEF kSubset
<1>3. IsFiniteSet(ms) /\ Cardinality(ms) \in Nat
  BY <1>2, CronAssumption, FS_Subset, FS_CardinalityType
<1>4. /\ b \in [1..Cardinality(ms) -> ms]
      /\ \A i, k \in 1..Cardinality(ms) : i # k => b[i] # b[k]
  BY <1>1 DEF SetToSeqs
<1>5. Len(b) = Cardinality(ms) /\ b \in Seq(Messages)
  BY <1>2, <1>3, <1>4, SeqDef
<1>. QED  BY <1>2, <1>3, <1>4, <1>5 DEF Batch

(* The first of a batch, and what is left after it.                        *)
LEMMA BatchParts ==
    ASSUME NEW b, Batch(b)
    PROVE  /\ Len(b) \in Nat /\ Head(b) \in Messages /\ Head(b) = b[1] /\ 1 \in 1..Len(b)
           /\ Tail(b) # <<>> => Batch(Tail(b))
           /\ \A i \in 1..Len(Tail(b)) :
                i + 1 \in 1..Len(b) /\ Tail(b)[i] = b[i + 1] /\ Tail(b)[i] # Head(b)
<1>1. Len(b) \in Nat /\ Len(b) # 0 /\ b \in [1..Len(b) -> Messages]
  BY LenProperties, EmptySeq DEF Batch
<1>2. /\ Tail(b) \in Seq(Messages) /\ Head(b) \in Messages /\ Head(b) = b[1]
      /\ Len(Tail(b)) = Len(b) - 1
      /\ \A i \in 1..Len(Tail(b)) : Tail(b)[i] = b[i + 1]
  BY <1>1, HeadTailProperties DEF Batch
<1>3. \A i \in 1..Len(Tail(b)) : i + 1 \in 1..Len(b) /\ i + 1 # 1
  BY <1>1, <1>2
<1>4. 1 \in 1..Len(b)
  BY <1>1
<1>5. \A i, k \in 1..Len(Tail(b)) : i # k => Tail(b)[i] # Tail(b)[k]
  <2>1. TAKE i, k \in 1..Len(Tail(b))
  <2>2. HAVE i # k
  <2>3. i + 1 # k + 1 /\ i + 1 \in 1..Len(b) /\ k + 1 \in 1..Len(b)
    BY <1>1, <1>2, <2>2
  <2>. QED  BY <1>2, <2>3 DEF Batch
<1>. QED  BY <1>1, <1>2, <1>3, <1>4, <1>5 DEF Batch

(* Runners that are idle, begin, and go on to the next job.                *)
LEMMA IdleOK == RunnerOK(Idle) /\ Idle.pc = "idle"
BY DEF RunnerOK, Holding, Phases, Idle

LEMMA StartOK ==
    ASSUME NEW todo
    PROVE  RunnerOK(Start(todo)) /\ Start(todo).pc = "jobs"
<1>1. Start(todo) \in Holding(todo, 0, None, <<>>) /\ Start(todo).pc = "jobs"
  <2>1. Idle \in Holding(<<>>, 0, None, <<>>)
    BY DEF Idle, Holding, Phases
  <2>. QED  BY <2>1 DEF Start, Holding, Phases
<1>. QED  BY <1>1 DEF RunnerOK, Holding

LEMMA DoneOK ==
    ASSUME NEW r \in Runners
    PROVE  RunnerOK(Done(r)) /\ Done(r).pc \in {"idle", "jobs"}
<1> DEFINE tl == Tail(run[r].todo)
           s == Start(tl)
           y == [s EXCEPT !.age = run[r].age]
<1>1. s \in Holding(s.todo, s.age, s.slot, s.batch) /\ s.pc = "jobs"
  BY StartOK DEF RunnerOK
<1> HIDE DEF s
<1>2. y \in Holding(s.todo, run[r].age, s.slot, s.batch) /\ y.pc = "jobs"
  BY <1>1 DEF Holding, Phases
<1>3. RunnerOK(y) /\ y.pc = "jobs"
  BY <1>2 DEF RunnerOK, Holding
<1>4. Done(r) \in {Idle, y}
  BY DEF Done, s
<1>. QED  BY <1>3, <1>4, IdleOK

(* Busy runners.                                                           *)
LEMMA Busy ==
    ASSUME Shape, NEW r \in Runners
    PROVE  run[r] = Idle <=> run[r].pc = "idle"
BY IdleOK DEF Shape, RunnerOK

(* A step of one runner leaves the others alone.                           *)
LEMMA OneRunner ==
    ASSUME Shape, NEW r \in Runners, NEW y, RunnerOK(y), run' = [run EXCEPT ![r] = y]
    PROVE  /\ run' = [q \in Runners |-> run'[q]] /\ \A q \in Runners : RunnerOK(run'[q])
           /\ run'[r] = y /\ \A q \in Runners : q # r => run'[q] = run[q]
BY DEF Shape

(* While runners do not overlap, the others are idle.                      *)
LEMMA OthersIdle ==
    ASSUME Shape, Alone, ~overlapped, NEW r \in Runners, run[r] # Idle
    PROVE  \A q \in Runners : q # r => run[q] = Idle /\ run[q].pc = "idle"
BY IdleOK DEF Alone

LEMMA AloneKept ==
    ASSUME Shape, Alone, NEW r \in Runners, run[r] # Idle,
           NEW y, run' = [run EXCEPT ![r] = y], RunnerOK(y), UNCHANGED overlapped
    PROVE  Alone'
BY OneRunner DEF Alone
-----------------------------------------------------------------------------
(* Steps of a runner that neither sends nor marks a message.               *)
LEMMA PassingKeeps ==
    ASSUME IInv, NEW r \in Runners, run[r].pc \notin {"idle", "mark"},
           NEW y, RunnerOK(y), y.pc # "mark",
           y.pc = "mail" => \A i \in 1..Len(y.batch) : mail[y.batch[i]] = "outgoing",
           run' = [run EXCEPT ![r] = y], UNCHANGED <<mail, delivered, overlapped, faults, unmarked>>
    PROVE  Alone' /\ BatchQueued' /\ MailInv' /\ SentInv'
<1>1. Shape /\ run[r] # Idle
  BY Busy DEF IInv
<1>2. run'[r] = y /\ \A q \in Runners : q # r => run'[q] = run[q]
  BY <1>1, OneRunner
<1>3. \A q \in Runners, m \in Messages : Sent(q, m) <=> Sent(q, m)'
  BY <1>2 DEF Sent
<1>4. Alone'
  BY <1>1, AloneKept DEF IInv
<1>5. BatchQueued'
  BY <1>2 DEF IInv, BatchQueued
<1>6. MailInv'
  BY <1>3 DEF IInv, MailInv, Lost
<1>7. SentInv'
  BY <1>3 DEF IInv, SentInv, SentMeansDelivered
<1>. QED  BY <1>4, <1>5, <1>6, <1>7

(* Before it executes, nothing is owed.                                    *)
LEMMA NothingOwed ==
    ASSUME Shape, Alone, RunsInv, ~overlapped, NEW r \in Runners, run[r] # Idle,
           NEW j \in Jobs, ~Past(r, j)
    PROVE  runs[j] <= faults
BY OthersIdle DEF RunsInv, Past

LEMMA NotDueInv ==
    ASSUME IInv, NEW w \in Runners, NotDue(w) \/ SkipMissing(w) \/ Refuse(w)
    PROVE  IInv'
<1>1. Shape /\ Alone /\ RunsInv /\ run[w].pc = "jobs" /\ run[w] # Idle
  BY Busy DEF IInv, NotDue, SkipMissing, Refuse
<1>2. UNCHANGED <<mail, runs, delivered, overlapped, faults, unmarked>>
  BY DEF NotDue, SkipMissing, Refuse, Becomes, Records
<1> DEFINE z == [run[w] EXCEPT !.pc = "advance", !.slot = next[Job(w)]]
<1>3. RunnerOK(z) /\ z.pc = "advance"
  <2>1. z \in Holding(run[w].todo, run[w].age, next[Job(w)], run[w].batch)
        /\ z.pc = "advance"
    BY <1>1 DEF Shape, RunnerOK, Holding, Phases
  <2>. QED  BY <2>1 DEF RunnerOK, Holding
<1>4. PICK y : RunnerOK(y) /\ y.pc \in {"idle", "jobs", "advance"} /\ run' = [run EXCEPT ![w] = y]
  BY <1>3, DoneOK DEF NotDue, SkipMissing, Refuse, Becomes
<1>5. Alone' /\ BatchQueued' /\ MailInv' /\ SentInv'
  BY <1>1, <1>2, <1>4, PassingKeeps
<1>6. Shape'
  BY <1>1, <1>2, <1>4, OneRunner DEF Shape, Lost
<1>7. RunsInv'
  <2>1. \A j \in Jobs : ~Past(w, j)
    BY <1>1 DEF Past
  <2>. QED  BY <1>1, <1>2, <2>1, NothingOwed DEF RunsInv
<1>. QED  BY <1>5, <1>6, <1>7 DEF IInv

LEMMA AdvanceInv ==
    ASSUME IInv, NEW r \in Runners, Advance(r)
    PROVE  IInv'
<1>1. Shape /\ Alone /\ RunsInv /\ run[r].pc \in {"raised", "advance"} /\ run[r] # Idle
  BY Busy DEF IInv, Advance
<1>2. /\ UNCHANGED <<mail, delivered, overlapped, faults, unmarked>>
      /\ runs' = [runs EXCEPT ![Job(r)] = 0] /\ run' = [run EXCEPT ![r] = Done(r)]
  BY DEF Advance, Becomes
<1>3. RunnerOK(Done(r)) /\ Done(r).pc \in {"idle", "jobs", "advance"}
  BY DoneOK
<1>4. Alone' /\ BatchQueued' /\ MailInv' /\ SentInv'
  BY <1>1, <1>2, <1>3, PassingKeeps
<1>5. Shape'
  BY <1>1, <1>2, <1>3, OneRunner DEF Shape, Lost
<1>6. RunsInv'
  <2>1. SUFFICES ASSUME ~overlapped, NEW j \in Jobs PROVE runs'[j] <= faults
    BY <1>2 DEF RunsInv
  <2>2. CASE j = Job(r)
    BY <1>1, <1>2, <2>2, CronAssumption DEF Shape
  <2>3. CASE j # Job(r)
    <3>1. runs[j] <= faults
      BY <1>1, <2>1, <2>3, NothingOwed DEF Past
    <3>. QED  BY <1>1, <1>2, <2>3, <3>1 DEF Shape
  <2>. QED  BY <2>2, <2>3
<1>. QED  BY <1>4, <1>5, <1>6 DEF IInv

(* What a runner holds once an action has returned, or raised.             *)
LEMMA AfterActionGives ==
    ASSUME NEW r, RunnerOK(run[r]), NEW ok \in BOOLEAN
    PROVE  /\ AfterAction(r, ok) \in Holding(run[r].todo, run[r].age, next[Job(r)], run[r].batch)
           /\ AfterAction(r, ok).pc \in {"raised", "advance"}
BY DEF RunnerOK, Holding, Phases, AfterAction

LEMMA ExecuteInv ==
    ASSUME IInv, NEW r \in Runners, Execute(r)
    PROVE  IInv'
<1>1. Shape /\ Alone /\ RunsInv /\ run[r].pc = "jobs" /\ run[r] # Idle /\ RunnerOK(run[r])
  BY Busy DEF IInv, Execute, Shape
<1>2. UNCHANGED <<mail, delivered, overlapped, faults, unmarked>>
      /\ runs' = [runs EXCEPT ![Job(r)] = Count(@)]
  BY DEF Execute, Becomes, Records
<1>3. PICK y : /\ RunnerOK(y) /\ y.pc \in {"mail", "raised", "advance"} /\ y.todo = run[r].todo
               /\ y.pc = "mail" => \A i \in 1..Len(y.batch) : mail[y.batch[i]] = "outgoing"
               /\ run' = [run EXCEPT ![r] = y]
  <2>1. ASSUME NEW b \in Batches \ {<<>>},
               Becomes(r, [run[r] EXCEPT !.pc = "mail", !.slot = next[Mailer], !.batch = b])
        PROVE  \E y : /\ RunnerOK(y) /\ y.pc = "mail" /\ y.todo = run[r].todo
                      /\ \A i \in 1..Len(y.batch) : mail[y.batch[i]] = "outgoing"
                      /\ run' = [run EXCEPT ![r] = y]
    <3> DEFINE y == [run[r] EXCEPT !.pc = "mail", !.slot = next[Mailer], !.batch = b]
    <3>1. run' = [run EXCEPT ![r] = y]
      BY <2>1 DEF Becomes
    <3>2. y \in Holding(run[r].todo, run[r].age, next[Mailer], b) /\ y.pc = "mail"
      BY <1>1 DEF RunnerOK, Holding, Phases
    <3> HIDE DEF y
    <3>3. y.batch = b /\ y.todo = run[r].todo
      BY <3>2 DEF Holding
    <3>4. RunnerOK(y)
      BY <3>2, <3>3, BatchesGive DEF RunnerOK, Holding
    <3>5. \A i \in 1..Len(y.batch) : mail[y.batch[i]] = "outgoing"
      BY <3>3, BatchesGive
    <3>. QED  BY <3>1, <3>2, <3>3, <3>4, <3>5
  <2>2. ASSUME NEW ok \in BOOLEAN, Becomes(r, AfterAction(r, ok))
        PROVE  \E y : /\ RunnerOK(y) /\ y.pc \in {"raised", "advance"} /\ y.todo = run[r].todo
                      /\ run' = [run EXCEPT ![r] = y]
    <3> DEFINE y == AfterAction(r, ok)
    <3>1. /\ y \in Holding(run[r].todo, run[r].age, next[Job(r)], run[r].batch)
          /\ y.pc \in {"raised", "advance"}
      BY <1>1, AfterActionGives
    <3>2. run' = [run EXCEPT ![r] = y]
      BY <2>2 DEF Becomes
    <3> HIDE DEF y
    <3>3. RunnerOK(y) /\ y.todo = run[r].todo
      BY <3>1 DEF RunnerOK, Holding
    <3>. QED  BY <3>1, <3>2, <3>3
  <2>3. \/ \E b \in Batches \ {<<>>} :
              Becomes(r, [run[r] EXCEPT !.pc = "mail", !.slot = next[Mailer], !.batch = b])
        \/ \E ok \in BOOLEAN : Becomes(r, AfterAction(r, ok))
    BY DEF Execute
  <2>. QED  BY <2>1, <2>2, <2>3
<1>4. Alone' /\ BatchQueued' /\ MailInv' /\ SentInv'
  BY <1>1, <1>2, <1>3, PassingKeeps
<1>5. Shape'
  BY <1>1, <1>2, <1>3, OneRunner, Counts DEF Shape, Lost
<1>6. RunsInv'
  <2>1. SUFFICES ASSUME ~overlapped, NEW j \in Jobs
                 PROVE  runs'[j] <= faults \/ (runs'[j] <= 1 + faults /\ Past(r, j)')
    BY <1>2 DEF RunsInv
  <2>2. runs[j] <= faults /\ runs[j] \in Nat /\ faults \in Nat
    BY <1>1, <2>1, NothingOwed DEF Past, Shape
  <2>3. CASE j = Job(r)
    <3>1. Past(r, j)'
      BY <1>1, <1>3, <2>3, OneRunner DEF Past, Job
    <3>2. runs'[j] = Count(runs[j])
      BY <1>1, <1>2, <2>3 DEF Shape
    <3>. QED  BY <2>2, <3>1, <3>2, Counts
  <2>4. CASE j # Job(r)
    BY <1>1, <1>2, <2>2, <2>4 DEF Shape
  <2>. QED  BY <2>3, <2>4
<1>. QED  BY <1>4, <1>5, <1>6 DEF IInv

(* While a runner is at its batch, what has been delivered but for deaths  *)
(* is marked, or is what it has just sent.                                 *)
LEMMA BatchOwes ==
    ASSUME IInv, ~overlapped, NEW r \in Runners, run[r].pc \in {"mail", "mark"},
           NEW m \in Messages, ~Sent(r, m), mail[m] # "sent"
    PROVE  delivered[m] <= Lost
<1>1. Shape /\ Alone /\ run[r] # Idle
  BY Busy DEF IInv
<1>2. \A q \in Runners : ~Sent(q, m)
  BY <1>1, OthersIdle DEF Sent
<1>. QED  BY <1>2 DEF IInv, MailInv

(* The jobs of a runner that goes on with its batch stay what they were.   *)
LEMMA BatchRuns ==
    ASSUME Shape, RunsInv, NEW r \in Runners, NEW y, RunnerOK(y),
           y.todo = run[r].todo, y.pc \in {"mail", "mark", "raised", "advance"},
           run' = [run EXCEPT ![r] = y], UNCHANGED <<runs, overlapped, faults, unmarked>>
    PROVE  RunsInv'
<1>1. run'[r] = y /\ \A q \in Runners : q # r => run'[q] = run[q]
  BY OneRunner
<1>2. \A q \in Runners, j \in Jobs : Past(q, j) => Past(q, j)'
  BY <1>1 DEF Past, Job
<1>. QED  BY <1>2 DEF RunsInv

LEMMA SendInv ==
    ASSUME IInv, NEW r \in Runners, Send(r)
    PROVE  IInv'
<1> DEFINE m0 == Head(run[r].batch)
<1>1. /\ Shape /\ Alone /\ RunsInv /\ run[r].pc = "mail" /\ run[r] # Idle
      /\ RunnerOK(run[r]) /\ Batch(run[r].batch)
  BY Busy DEF IInv, Send, Shape, RunnerOK
<1>2. UNCHANGED <<mail, runs, overlapped, faults, unmarked>>
  BY DEF Send, Becomes, Records
<1>3. PICK ok \in BOOLEAN :
        /\ run' = [run EXCEPT ![r] = [run[r] EXCEPT !.pc = "mark", !.ok = ok]]
        /\ delivered' = IF ok THEN [delivered EXCEPT ![m0] = Count(@)] ELSE delivered
  BY DEF Send, Becomes
<1> DEFINE y == [run[r] EXCEPT !.pc = "mark", !.ok = ok]
<1>4. y \in Holding(run[r].todo, run[r].age, run[r].slot, run[r].batch)
      /\ y.pc = "mark" /\ y.ok = ok
  BY <1>1 DEF RunnerOK, Holding, Phases
<1>5. run' = [run EXCEPT ![r] = y]
  BY <1>3
<1> HIDE DEF y
<1>6. /\ RunnerOK(y) /\ y.pc = "mark" /\ y.ok = ok
      /\ y.batch = run[r].batch /\ y.todo = run[r].todo
  BY <1>1, <1>4 DEF RunnerOK, Holding
<1>7. run'[r] = y /\ \A q \in Runners : q # r => run'[q] = run[q]
  BY <1>1, <1>5, <1>6, OneRunner
<1>8. m0 \in Messages /\ mail[m0] \in {"none", "outgoing", "sent", "failed"}
      /\ 1 \in 1..Len(run[r].batch) /\ m0 = run[r].batch[1]
  BY <1>1, BatchParts DEF Shape
<1> HIDE DEF m0
<1>9. \A m \in Messages :
        /\ delivered[m] \in Nat /\ delivered'[m] \in Nat
        /\ delivered[m] > 0 => delivered'[m] > 0
        /\ ok /\ m = m0 => delivered'[m] > 0 /\ delivered'[m] <= delivered[m] + 1
        /\ ~(ok /\ m = m0) => delivered'[m] = delivered[m]
  BY <1>1, <1>3, Counts DEF Shape
<1>10. Shape'
  <2>1. delivered' \in [Messages -> Nat]
    BY <1>1, <1>3, Counts DEF Shape
  <2>. QED  BY <1>1, <1>2, <1>5, <1>6, <2>1, OneRunner DEF Shape, Lost
<1>11. \A m \in Messages : Sent(r, m)' <=> ok /\ m = m0
  BY <1>6, <1>7 DEF Sent, m0
<1>12. \A q \in Runners, m \in Messages : q # r => (Sent(q, m)' <=> Sent(q, m))
  BY <1>7 DEF Sent
<1>13. Alone' /\ RunsInv'
  BY <1>1, <1>2, <1>5, <1>6, AloneKept, BatchRuns
<1>14. BatchQueued'
  BY <1>1, <1>2, <1>6, <1>7 DEF IInv, BatchQueued
<1>15. MailInv'
  <2>1. SUFFICES ASSUME ~overlapped, NEW m \in Messages
                 PROVE  \/ delivered'[m] <= Lost
                        \/ delivered'[m] <= 1 + Lost /\ (mail[m] = "sent" \/ Sent(r, m)')
    BY <1>2 DEF MailInv, Lost
  <2>2. Lost \in Nat
    BY <1>1 DEF Shape, Lost
  <2>3. mail[m] # "sent" => delivered[m] <= Lost
    BY <1>1, <2>1, BatchOwes DEF Sent
  <2>4. mail[m0] = "outgoing"
    BY <1>1, <1>8, <2>1 DEF IInv, BatchQueued
  <2>5. mail[m] = "sent" => delivered[m] <= 1 + Lost
    BY <1>9, <2>1, <2>2 DEF IInv, MailInv
  <2>. QED  BY <1>9, <1>11, <2>2, <2>3, <2>4, <2>5
<1>16. SentInv'
  BY <1>2, <1>9, <1>11, <1>12 DEF IInv, SentInv, SentMeansDelivered
<1>. QED  BY <1>10, <1>13, <1>14, <1>15, <1>16 DEF IInv

LEMMA MarkInv ==
    ASSUME IInv, NEW r \in Runners, Mark(r)
    PROVE  IInv'
<1> DEFINE b == run[r].batch
           m0 == Head(b)
<1>1. /\ Shape /\ Alone /\ RunsInv /\ run[r].pc = "mark" /\ run[r] # Idle
      /\ RunnerOK(run[r]) /\ Batch(b)
  BY Busy DEF IInv, Mark, Shape, RunnerOK
<1>2. UNCHANGED <<runs, delivered, overlapped, faults, unmarked>>
      /\ mail' = [mail EXCEPT ![m0] = Outcome(run[r].ok)]
  BY DEF Mark, Becomes
<1> DEFINE y == [run[r] EXCEPT !.pc = IF Tail(b) = <<>> THEN "advance" ELSE "mail",
                               !.batch = Tail(b), !.ok = FALSE]
<1>3. run' = [run EXCEPT ![r] = y]
  BY DEF Mark, Becomes
<1>4. /\ y \in Holding(run[r].todo, run[r].age, run[r].slot, Tail(b))
      /\ y.pc = IF Tail(b) = <<>> THEN "advance" ELSE "mail"
  BY <1>1 DEF RunnerOK, Holding, Phases
<1> HIDE DEF y
<1>5. /\ RunnerOK(y) /\ y.pc \in {"mail", "advance"}
      /\ y.batch = Tail(b) /\ y.todo = run[r].todo
  <2>1. y.batch = Tail(b) /\ y.todo = run[r].todo /\ y.pc \in {"mail", "advance"}
    BY <1>4 DEF Holding
  <2>2. y.pc \in {"mail", "mark"} => Batch(y.batch)
    BY <1>1, <1>4, <2>1, BatchParts
  <2>3. y \in Holding(y.todo, y.age, y.slot, y.batch)
    BY <1>4 DEF Holding
  <2>. QED  BY <2>1, <2>2, <2>3 DEF RunnerOK
<1>6. run'[r] = y /\ \A q \in Runners : q # r => run'[q] = run[q]
  BY <1>1, <1>3, <1>5, OneRunner
<1>7. /\ m0 \in Messages /\ 1 \in 1..Len(b) /\ m0 = b[1] /\ Len(b) \in Nat
      /\ \A i \in 1..Len(Tail(b)) :
           i + 1 \in 1..Len(b) /\ Tail(b)[i] = b[i + 1] /\ Tail(b)[i] # m0
  BY <1>1, BatchParts
<1>8. /\ mail'[m0] = Outcome(run[r].ok)
      /\ \A m \in Messages : m # m0 => mail'[m] = mail[m]
      /\ Outcome(run[r].ok) \in {"sent", "failed"}
      /\ Outcome(run[r].ok) = "sent" => run[r].ok
      /\ ~run[r].ok => Outcome(run[r].ok) = "failed"
      /\ run[r].ok => Outcome(run[r].ok) = "sent"
  BY <1>1, <1>2, <1>7 DEF Shape, Outcome
<1>9. Shape'
  <2>1. mail' \in [Messages -> {"none", "outgoing", "sent", "failed"}]
    BY <1>1, <1>2, <1>8 DEF Shape
  <2>. QED  BY <1>1, <1>2, <1>3, <1>5, <2>1, OneRunner DEF Shape, Lost
<1>10. /\ \A m \in Messages : ~Sent(r, m)' /\ (Sent(r, m) <=> run[r].ok /\ m = m0)
       /\ \A q \in Runners, m \in Messages : q # r => (Sent(q, m)' <=> Sent(q, m))
  <2>1. \A m \in Messages : ~Sent(r, m)'
    BY <1>5, <1>6 DEF Sent
  <2>2. \A m \in Messages : Sent(r, m) <=> run[r].ok /\ m = m0
    BY Zenon, <1>1 DEF Sent
  <2>3. \A q \in Runners, m \in Messages : q # r => (Sent(q, m)' <=> Sent(q, m))
    BY <1>6 DEF Sent
  <2>. QED  BY <2>1, <2>2, <2>3
<1>11. Alone' /\ RunsInv'
  BY <1>1, <1>2, <1>3, <1>5, AloneKept, BatchRuns
<1>12. BatchQueued'
  <2>1. SUFFICES ASSUME ~overlapped, NEW q \in Runners, run'[q].pc \in {"mail", "mark"},
                        NEW i \in 1..Len(run'[q].batch)
                 PROVE  mail'[run'[q].batch[i]] = "outgoing"
    BY <1>2 DEF BatchQueued
  <2>2. q = r
    BY <1>1, <1>6, <2>1, OthersIdle
  <2>3. /\ run'[q].batch[i] = Tail(b)[i] /\ i + 1 \in 1..Len(b)
        /\ Tail(b)[i] = b[i + 1] /\ b[i + 1] # m0
    BY <1>5, <1>6, <1>7, <2>1, <2>2
  <2>4. mail[b[i + 1]] = "outgoing"
    BY <1>1, <2>1, <2>3 DEF IInv, BatchQueued
  <2>5. b[i + 1] \in Messages
    BY <1>1, <2>3 DEF Batch
  <2>. QED  BY <1>8, <2>3, <2>4, <2>5
<1>13. MailInv'
  <2>1. SUFFICES ASSUME ~overlapped, NEW m \in Messages
                 PROVE  delivered[m] <= Lost \/ (delivered[m] <= 1 + Lost /\ mail'[m] = "sent")
    BY <1>2 DEF MailInv, Lost
  <2>2. Lost \in Nat /\ delivered[m] \in Nat
    BY <1>1 DEF Shape, Lost
  <2>3. delivered[m] <= 1 + Lost
    BY <2>1, <2>2 DEF IInv, MailInv
  <2>4. ~Sent(r, m) /\ mail[m] # "sent" => delivered[m] <= Lost
    BY <1>1, <2>1, BatchOwes
  <2>5. mail[m0] = "outgoing"
    BY <1>1, <1>7, <2>1 DEF IInv, BatchQueued
  <2>6. CASE m = m0
    <3>1. CASE run[r].ok
      BY <1>8, <2>3, <2>6, <3>1
    <3>2. CASE ~run[r].ok
      <4>1. ~Sent(r, m) /\ mail[m] # "sent"
        BY <2>5, <2>6, <3>2 DEF Sent
      <4>. QED  BY <2>4, <4>1
    <3>. QED  BY <3>1, <3>2
  <2>7. CASE m # m0
    <3>1. mail'[m] = mail[m] /\ ~Sent(r, m)
      BY <1>8, <1>10, <2>7
    <3>. QED  BY <2>3, <2>4, <3>1
  <2>. QED  BY <2>6, <2>7
<1>14. SentInv'
  <2>1. \A m \in Messages : Sent(r, m) \/ mail[m] = "sent" => delivered[m] > 0
    BY DEF IInv, SentInv, SentMeansDelivered
  <2>2. \A m \in Messages : mail'[m] = "sent" => Sent(r, m) \/ mail[m] = "sent"
    BY <1>8, <1>10
  <2>3. \A q \in Runners, m \in Messages : Sent(q, m)' => Sent(q, m)
    BY <1>10
  <2>. QED  BY <1>2, <2>1, <2>2, <2>3 DEF IInv, SentInv, SentMeansDelivered
<1>. QED  BY <1>9, <1>11, <1>12, <1>13, <1>14 DEF IInv

LEMMA DieInv ==
    ASSUME IInv, NEW r \in Runners, Die(r)
    PROVE  IInv'
<1>1. /\ Shape /\ Alone /\ run[r] # Idle /\ run' = [run EXCEPT ![r] = Idle]
      /\ Lost < MaxFaults /\ faults' = faults + 1
      /\ UNCHANGED <<mail, runs, delivered, overlapped, unmarked>>
  BY DEF IInv, Die, Records, Lost
<1>2. run'[r] = Idle /\ \A q \in Runners : q # r => run'[q] = run[q]
  BY <1>1, IdleOK, OneRunner
<1>3. faults \in Nat /\ faults' \in Nat /\ Lost \in Nat /\ Lost' = Lost + 1 /\ Lost' <= MaxFaults
  BY <1>1, CronAssumption DEF Shape, Lost
<1>4. Shape'
  BY <1>1, <1>3, IdleOK, OneRunner DEF Shape
<1>5. Alone'
  BY <1>1, IdleOK, AloneKept
<1>6. RunsInv'
  <2>1. SUFFICES ASSUME ~overlapped, NEW j \in Jobs PROVE runs[j] <= faults'
    BY <1>1 DEF RunsInv
  <2>2. runs[j] \in Nat /\ runs[j] <= 1 + faults
    BY <1>1, <1>3, <2>1 DEF IInv, RunsInv, Shape
  <2>. QED  BY <1>1, <1>3, <2>2
<1>7. MailInv'
  <2>1. SUFFICES ASSUME ~overlapped, NEW m \in Messages PROVE delivered[m] <= Lost'
    BY <1>1 DEF MailInv
  <2>2. delivered[m] \in Nat /\ delivered[m] <= 1 + Lost
    BY <1>1, <1>3, <2>1 DEF IInv, MailInv, Shape
  <2>. QED  BY <1>1, <1>3, <2>2
<1>8. \A q \in Runners : run'[q].pc \in {"mail", "mark"} => q # r /\ run'[q] = run[q]
  BY <1>2, IdleOK
<1>9. BatchQueued'
  BY <1>1, <1>8 DEF IInv, BatchQueued
<1>10. SentInv'
  BY <1>1, <1>8 DEF IInv, SentInv, SentMeansDelivered, Sent
<1>. QED  BY <1>4, <1>5, <1>6, <1>7, <1>9, <1>10 DEF IInv

(* An exception in the batch loses the rest of it. What was sent and not   *)
(* marked is one more that has been lost.                                  *)
LEMMA RaiseInv ==
    ASSUME IInv, NEW r \in Runners, RaiseInBatch(r)
    PROVE  IInv'
<1> DEFINE y == [run[r] EXCEPT !.pc = "raised", !.batch = <<>>, !.ok = FALSE]
<1>1. /\ Shape /\ Alone /\ RunsInv /\ run[r].pc \in {"mail", "mark"} /\ run[r] # Idle
      /\ RunnerOK(run[r])
  BY Busy DEF IInv, RaiseInBatch, Shape
<1>2. run' = [run EXCEPT ![r] = y] /\ UNCHANGED <<mail, runs, delivered, overlapped, faults>>
  BY DEF RaiseInBatch, Records
<1>3. y \in Holding(run[r].todo, run[r].age, run[r].slot, <<>>) /\ y.pc = "raised"
  BY <1>1 DEF RunnerOK, Holding, Phases
<1> HIDE DEF y
<1>4. RunnerOK(y) /\ y.pc = "raised" /\ y.todo = run[r].todo
  BY <1>3 DEF RunnerOK, Holding
<1>5. run'[r] = y /\ \A q \in Runners : q # r => run'[q] = run[q]
  BY <1>1, <1>2, <1>4, OneRunner
<1>6. /\ faults' \in Nat /\ unmarked' \in Nat /\ Lost \in Nat /\ Lost' \in Nat
      /\ Lost' <= MaxFaults /\ Lost <= Lost'
      /\ (run[r].pc = "mark" => Lost' = Lost + 1)
  <2>1. \/ run[r].pc = "mail" /\ unmarked' = unmarked
        \/ run[r].pc = "mark" /\ faults + unmarked < MaxFaults /\ unmarked' = unmarked + 1
    BY DEF RaiseInBatch
  <2>2. faults \in Nat /\ unmarked \in Nat /\ Lost <= MaxFaults /\ MaxFaults \in Nat
    BY <1>1, CronAssumption DEF Shape
  <2>. QED  BY <1>2, <2>1, <2>2 DEF Lost
<1>7. Shape'
  BY <1>1, <1>2, <1>4, <1>6, OneRunner DEF Shape
<1>8. Alone'
  BY <1>1, <1>2, <1>4, AloneKept
<1>9. RunsInv'
  BY <1>1, <1>2, <1>5, <1>4 DEF RunsInv, Past, Job
<1>10. BatchQueued'
  BY <1>2, <1>4, <1>5 DEF IInv, BatchQueued
<1>11. \A q \in Runners, m \in Messages : Sent(q, m)' <=> q # r /\ Sent(q, m)
  BY <1>4, <1>5 DEF Sent
<1>12. MailInv'
  <2>1. SUFFICES ASSUME ~overlapped, NEW m \in Messages
                 PROVE  \/ delivered[m] <= Lost'
                        \/ delivered[m] <= 1 + Lost' /\ mail[m] = "sent"
    BY <1>2 DEF MailInv
  <2>2. delivered[m] \in Nat /\ delivered[m] <= 1 + Lost
    BY <1>1, <1>6, <2>1 DEF IInv, MailInv, Shape
  <2>3. CASE run[r].pc = "mark"
    BY <1>6, <2>2, <2>3
  <2>4. CASE run[r].pc = "mail"
    <3>1. mail[m] # "sent" => delivered[m] <= Lost
      BY <1>1, <2>1, <2>4, BatchOwes DEF Sent
    <3>. QED  BY <1>6, <2>2, <3>1
  <2>. QED  BY <1>1, <2>3, <2>4
<1>13. SentInv'
  BY <1>2, <1>11 DEF IInv, SentInv, SentMeansDelivered
<1>. QED  BY <1>7, <1>8, <1>9, <1>10, <1>12, <1>13 DEF IInv

(* A runner that begins finds all others idle, or it overlaps.             *)
LEMMA BeginInv ==
    ASSUME IInv, NEW r \in Runners, NEW todo, Begin(r, Start(todo))
    PROVE  IInv'
<1> DEFINE y == Start(todo)
<1>1. RunnerOK(y) /\ y.pc = "jobs"
  BY StartOK
<1> HIDE DEF y
<1>2. /\ Shape /\ run[r] = Idle /\ run' = [run EXCEPT ![r] = y]
      /\ overlapped' = (overlapped \/ \E o \in Runners : run[o] # Idle)
      /\ UNCHANGED <<mail, runs, delivered, faults, unmarked>>
  BY DEF IInv, Begin, Records, y
<1>3. run'[r] = y /\ \A q \in Runners : q # r => run'[q] = run[q]
  BY <1>1, <1>2, OneRunner
<1>4. Shape'
  BY <1>1, <1>2, OneRunner DEF Shape, Lost
<1>5. ASSUME ~overlapped'
      PROVE  ~overlapped /\ \A q \in Runners : run[q] = Idle /\ run[q].pc = "idle"
  BY <1>2, <1>5, IdleOK
<1>6. Alone'
  BY <1>3, <1>5 DEF Alone
<1>7. RunsInv'
  BY <1>2, <1>5 DEF IInv, RunsInv, Past
<1>8. BatchQueued'
  BY <1>1, <1>3, <1>5 DEF BatchQueued
<1>9. \A q \in Runners, m \in Messages : Sent(q, m)' => Sent(q, m)
  BY <1>1, <1>3 DEF Sent
<1>10. MailInv'
  BY <1>2, <1>5 DEF IInv, MailInv, Sent, Lost
<1>11. SentInv'
  BY <1>2, <1>9 DEF IInv, SentInv, SentMeansDelivered
<1>. QED  BY <1>4, <1>6, <1>7, <1>8, <1>10, <1>11 DEF IInv

(* Steps of others than runners, and time.                                 *)
LEMMA QueueInv ==
    ASSUME IInv, NEW m \in Messages, mail[m] \in {"none", "failed"},
           mail' = [mail EXCEPT ![m] = "outgoing"],
           UNCHANGED <<run, runs, delivered, overlapped, faults, unmarked>>
    PROVE  IInv'
<1>1. /\ mail' \in [Messages -> {"none", "outgoing", "sent", "failed"}]
      /\ \A o \in Messages : mail'[o] = "sent" <=> mail[o] = "sent"
      /\ \A o \in Messages : mail[o] = "outgoing" => mail'[o] = "outgoing"
  BY DEF IInv, Shape
<1>2. Shape' /\ Alone' /\ RunsInv'
  BY <1>1 DEF IInv, Shape, Alone, RunsInv, Past, Job, Lost
<1>3. BatchQueued'
  <2>1. SUFFICES ASSUME ~overlapped, NEW q \in Runners, run[q].pc \in {"mail", "mark"},
                        NEW i \in 1..Len(run[q].batch)
                 PROVE  mail'[run[q].batch[i]] = "outgoing"
    BY DEF BatchQueued
  <2>2. run[q].batch[i] \in Messages
    BY <2>1 DEF IInv, Shape, RunnerOK, Batch
  <2>3. mail[run[q].batch[i]] = "outgoing"
    BY <2>1 DEF IInv, BatchQueued
  <2>. QED  BY <1>1, <2>2, <2>3
<1>4. MailInv' /\ SentInv'
  BY <1>1 DEF IInv, MailInv, SentInv, SentMeansDelivered, Sent, Lost
<1>. QED  BY <1>2, <1>3, <1>4 DEF IInv

LEMMA KeptInv ==
    ASSUME IInv, UNCHANGED <<mail, run, runs, delivered, overlapped, faults, unmarked>>
    PROVE  IInv'
BY DEF IInv, Shape, Alone, RunsInv, Past, Job, BatchQueued, MailInv, SentInv,
       SentMeansDelivered, Sent, Lost

LEMMA ClockInv ==
    ASSUME IInv, Clock
    PROVE  IInv'
<1>1. Shape /\ UNCHANGED <<mail, runs, delivered, overlapped, faults, unmarked>>
  BY DEF IInv, Clock
<1>2. /\ run' = [r \in Runners |-> run'[r]]
      /\ \A r \in Runners :
           /\ RunnerOK(run'[r]) /\ (run'[r] = Idle <=> run[r] = Idle)
           /\ run'[r].pc = run[r].pc /\ run'[r].todo = run[r].todo
           /\ run'[r].batch = run[r].batch /\ run'[r].ok = run[r].ok
  <2>1. run' = [r \in Runners |->
                 IF r \in Workers /\ run[r] # Idle
                 THEN [run[r] EXCEPT !.age = @ + 1, !.slot = Later(@)] ELSE run[r]]
    BY DEF Clock
  <2>2. ASSUME NEW r \in Runners
        PROVE  /\ RunnerOK(run'[r]) /\ (run'[r] = Idle <=> run[r] = Idle)
               /\ run'[r].pc = run[r].pc /\ run'[r].todo = run[r].todo
               /\ run'[r].batch = run[r].batch /\ run'[r].ok = run[r].ok
    <3> DEFINE x == run[r]
               y == [x EXCEPT !.age = x.age + 1, !.slot = Later(x.slot)]
    <3>1. RunnerOK(x)
      BY <1>1 DEF Shape
    <3>2. CASE r \in Workers /\ x # Idle
      <4>1. run'[r] = y
        BY <2>1, <3>2
      <4> HIDE DEF x
      <4>2. x.pc # "idle"
        BY <3>1, <3>2 DEF RunnerOK, x
      <4>3. /\ y \in Holding(x.todo, x.age + 1, Later(x.slot), x.batch)
            /\ y.pc = x.pc /\ y.ok = x.ok
        BY <3>1 DEF RunnerOK, Holding
      <4> HIDE DEF y
      <4>4. /\ y.todo = x.todo /\ y.batch = x.batch
            /\ y \in Holding(y.todo, y.age, y.slot, y.batch)
        BY <4>3 DEF Holding
      <4>5. y # Idle
        BY <4>2, <4>3, IdleOK
      <4>6. RunnerOK(y)
        BY <3>1, <4>2, <4>3, <4>4 DEF RunnerOK
      <4>. QED  BY <3>2, <4>1, <4>3, <4>4, <4>5, <4>6 DEF x
    <3>3. CASE ~(r \in Workers /\ x # Idle)
      BY <2>1, <3>1, <3>3
    <3>. QED  BY <3>2, <3>3
  <2>. QED  BY <2>1, <2>2
<1>4. Shape'
  BY <1>1, <1>2 DEF Shape, Lost
<1>5. Alone' /\ BatchQueued'
  BY <1>1, <1>2 DEF IInv, Alone, BatchQueued
<1>6. RunsInv'
  BY <1>1, <1>2 DEF IInv, RunsInv, Past, Job
<1>7. MailInv' /\ SentInv'
  BY <1>1, <1>2 DEF IInv, MailInv, SentInv, SentMeansDelivered, Sent, Lost
<1>. QED  BY <1>4, <1>5, <1>6, <1>7 DEF IInv
-----------------------------------------------------------------------------
(* The theorems.                                                           *)

LEMMA InitInv == Init => IInv
<1>1. SUFFICES ASSUME Init PROVE IInv
  OBVIOUS
<1>2. /\ run = [r \in Runners |-> run[r]] /\ \A r \in Runners : run[r] = Idle /\ run[r].pc = "idle"
      /\ mail = [m \in Messages |-> "none"] /\ runs = [j \in Jobs |-> 0]
      /\ delivered = [m \in Messages |-> 0] /\ overlapped = FALSE /\ faults = 0 /\ unmarked = 0
  BY <1>1, IdleOK DEF Init
<1>3. Shape
  <2>1. faults \in Nat /\ unmarked \in Nat /\ Lost <= MaxFaults
    BY <1>2, CronAssumption DEF Lost
  <2>2. \A r \in Runners : RunnerOK(run[r])
    BY <1>2, IdleOK
  <2>. QED  BY <1>2, <2>1, <2>2 DEF Shape
<1>4. Alone /\ RunsInv /\ BatchQueued
  BY <1>2 DEF Alone, RunsInv, BatchQueued
<1>5. MailInv /\ SentInv
  BY <1>2 DEF MailInv, SentInv, SentMeansDelivered, Sent, Lost
<1>. QED  BY <1>3, <1>4, <1>5 DEF IInv

LEMMA NextInv == IInv /\ [Next]_vars => IInv'
<1>1. SUFFICES ASSUME IInv, [Next]_vars PROVE IInv'
  OBVIOUS
<1>2. CASE UNCHANGED vars
  BY <1>1, <1>2, KeptInv DEF vars
<1>3. ASSUME NEW w \in Workers, Tick(w)
      PROVE  IInv'
  <2>1. PICK todo : w \in Runners /\ Begin(w, Start(todo))
    BY <1>3 DEF Tick, Runners
  <2>. QED  BY <1>1, <2>1, BeginInv
<1>4. ASSUME NEW r \in Runners, Continue(r) \/ Die(r)
      PROVE  IInv'
  BY <1>1, <1>4, NotDueInv, ExecuteInv, SendInv, MarkInv, RaiseInv, AdvanceInv, DieInv DEF Continue
<1>5. ASSUME NEW a \in Admins, NEW j \in Jobs, RunNow(a, j)
      PROVE  IInv'
  BY <1>1, <1>5, BeginInv DEF RunNow, Runners
<1>6. ASSUME NEW m \in Messages, Queue(m) \/ Requeue(m)
      PROVE  IInv'
  <2>1. /\ mail[m] \in {"none", "failed"} /\ mail' = [mail EXCEPT ![m] = "outgoing"]
        /\ UNCHANGED <<run, runs, delivered, overlapped, faults, unmarked>>
    BY <1>6 DEF Queue, Requeue
  <2>. QED  BY <1>1, <2>1, QueueInv
<1>7. ASSUME NEW j \in Switched, Switch(j)
      PROVE  IInv'
  BY <1>1, <1>7, KeptInv DEF Switch
<1>8. CASE Clock
  BY <1>1, <1>8, ClockInv
<1>. QED  BY <1>1, <1>2, <1>3, <1>4, <1>5, <1>6, <1>7, <1>8 DEF Next

LEMMA Inductive == Spec => []IInv
BY InitInv, NextInv, PTL DEF Spec

(* However many jobs, workers and deaths: while runners do not overlap, a  *)
(* job is executed once for every nextcall, but for one death each.        *)
THEOREM SlotsRunOnce == Spec => []SlotRunsOnce
<1>1. IInv => SlotRunsOnce
  <2>1. SUFFICES ASSUME IInv, ~overlapped, NEW j \in Jobs PROVE runs[j] <= 1 + faults
    BY DEF SlotRunsOnce
  <2>2. runs[j] \in Nat /\ faults \in Nat
    BY <2>1 DEF IInv, Shape
  <2>. QED  BY <2>1, <2>2 DEF IInv, RunsInv
<1>. QED  BY <1>1, Inductive, PTL

(* However large the queue and the batch: while runners do not overlap, a  *)
(* message is delivered once, but for one death or one state that could    *)
(* not be written each, requeued or not.                                   *)
THEOREM MailIsSentOnce == Spec => []MailSentOnce
<1>1. IInv => MailSentOnce
  <2>1. SUFFICES ASSUME IInv, ~overlapped, NEW m \in Messages
                 PROVE  delivered[m] <= 1 + faults + unmarked
    BY DEF MailSentOnce
  <2>2. delivered[m] \in Nat /\ faults \in Nat /\ unmarked \in Nat
    BY <2>1 DEF IInv, Shape
  <2>. QED  BY <2>1, <2>2 DEF IInv, MailInv, Lost
<1>. QED  BY <1>1, Inductive, PTL

(* Whatever runners overlap or die, what is marked "sent" has been sent.   *)
THEOREM SentIsDelivered == Spec => []SentMeansDelivered
<1>1. IInv => SentMeansDelivered
  BY DEF IInv, SentInv
<1>. QED  BY <1>1, Inductive, PTL

(* While runners do not overlap, the dispatcher leaves a message alone     *)
(* whose state is final.                                                   *)
THEOREM FinalStaysFinal == Spec => MailStateTerminal
<1> DEFINE Final == ~overlapped' => \A m \in Messages :
             mail[m] \in {"sent", "failed"} =>
               mail'[m] \in {mail[m]} \cup (IF run' = run THEN {"outgoing"} ELSE {})
<1>1. ASSUME IInv, Next PROVE Final
  <2>1. Shape
    BY <1>1 DEF IInv
  <2>2. ASSUME NEW r \in Runners, Mark(r), ~overlapped'
        PROVE  \A m \in Messages : mail[m] \in {"sent", "failed"} => mail'[m] = mail[m]
    <3>1. /\ run[r].pc = "mark" /\ ~overlapped
          /\ mail' = [mail EXCEPT ![Head(run[r].batch)] = Outcome(run[r].ok)]
      BY <2>2 DEF Mark, Becomes
    <3>2. 1 \in 1..Len(run[r].batch) /\ Head(run[r].batch) = run[r].batch[1]
      BY <2>1, <3>1, BatchParts DEF Shape, RunnerOK
    <3>3. mail[Head(run[r].batch)] = "outgoing"
      BY <1>1, <3>1, <3>2 DEF IInv, BatchQueued
    <3>. QED  BY <2>1, <3>1, <3>3 DEF Shape
  <2>3. ASSUME NEW m \in Messages, Queue(m) \/ Requeue(m)
        PROVE  /\ run' = run
               /\ \A o \in Messages : mail'[o] \in {mail[o], "outgoing"}
    BY <2>1, <2>3 DEF Queue, Requeue, Shape
  <2>4. \/ \E r \in Runners : Mark(r)
        \/ \E m \in Messages : Queue(m) \/ Requeue(m)
        \/ UNCHANGED mail
    BY <1>1 DEF Next, Tick, Continue, NotDue, SkipMissing, Refuse, RaiseInBatch, Execute, Send,
       Advance, Die, RunNow, Switch, Clock, Begin, Becomes, Records
  <2>. QED  BY <2>2, <2>3, <2>4
<1>2. IInv /\ [Next]_vars => [Final]_vars
  BY <1>1
<1>. QED  BY <1>2, Inductive, PTL DEF MailStateTerminal, Spec
-----------------------------------------------------------------------------
(* Types. A job is never put off by more than its interval, because a      *)
(* periodic runner that has passed the check of nextcall read one that is  *)
(* not ahead of the clock, and the clock only takes it further back.       *)

Owing(x) == x.pc \in {"mail", "mark", "raised", "advance"}
Fits(r, x) ==
    /\ x.todo \in Seq(Jobs) /\ (x.pc = "idle" <=> x.todo = <<>>)
    /\ x.age \in 0..MaxLag
    /\ x.batch \in Seq(Messages) /\ Len(x.batch) <= Limit
    /\ r \in Workers /\ Owing(x) /\ x.slot # None => x.slot \in Int /\ x.slot <= 0

Ahead(j, t) == t # None => t \in Int /\ t <= Delta[j]
TimesInv == next = [j \in Jobs |-> next[j]] /\ \A j \in Jobs : Ahead(j, next[j])
Counted ==
    /\ active \subseteq Jobs
    /\ runs \in [Jobs -> 0..Most] /\ delivered \in [Messages -> 0..Most]
    /\ clicks \in 0..MaxClicks
FitInv == \A r \in Runners : Fits(r, run[r])
TInv == IInv /\ TimesInv /\ Counted /\ FitInv

LEMMA TInvTypes == TInv => TypeOK
<1>1. SUFFICES ASSUME TInv PROVE TypeOK
  OBVIOUS
<1>2. next \in [Jobs -> Int \cup {None}] /\ \A j \in Jobs : next[j] # None => next[j] <= Delta[j]
  BY <1>1 DEF TInv, TimesInv, Ahead
<1>3. ASSUME NEW r \in Runners
      PROVE  /\ run[r].pc \in {"idle", "jobs", "mail", "mark", "raised", "advance"}
             /\ run[r].todo \in Seq(Jobs) /\ (run[r].pc = "idle" <=> run[r].todo = <<>>)
             /\ run[r].age \in 0 .. MaxLag
             /\ run[r].batch \in Seq(Messages) /\ Len(run[r].batch) <= Limit
             /\ run[r].pc = "mark" => run[r].batch # <<>>
  <2>1. RunnerOK(run[r]) /\ Fits(r, run[r])
    BY <1>1 DEF TInv, IInv, Shape, FitInv
  <2>2. run[r].pc \in {"idle", "jobs", "mail", "mark", "raised", "advance"}
    BY <2>1 DEF RunnerOK, Holding, Phases
  <2>3. run[r].pc = "mark" => run[r].batch # <<>>
    BY <2>1 DEF RunnerOK, Batch
  <2>. QED  BY <2>1, <2>2, <2>3 DEF Fits
<1>4. /\ active \subseteq Jobs
      /\ mail \in [Messages -> {"none", "outgoing", "sent", "failed"}]
      /\ runs \in [Jobs -> 0 .. Most] /\ delivered \in [Messages -> 0 .. Most]
      /\ overlapped \in BOOLEAN /\ clicks \in 0 .. MaxClicks
      /\ faults \in Nat /\ unmarked \in Nat /\ faults + unmarked <= MaxFaults
  BY <1>1 DEF TInv, IInv, Shape, Counted, Lost
<1>. QED  BY <1>2, <1>3, <1>4 DEF TypeOK

(* A history stays within its bound.                                       *)
LEMMA CountsUpToMost ==
    ASSUME NEW n \in 0..Most
    PROVE  Count(n) \in 0..Most /\ 0 \in 0..Most
BY CronAssumption DEF Count, Most

(* Runners that are idle, that start and that go on to the next job.       *)
LEMMA IdleFits == ASSUME NEW r PROVE Fits(r, Idle)
<1>1. Idle \in Holding(<<>>, 0, None, <<>>) /\ Idle.pc = "idle"
  BY DEF Idle, Holding, Phases
<1>2. Idle.todo = <<>> /\ Idle.age = 0 /\ Idle.batch = <<>>
  BY <1>1 DEF Holding
<1>3. <<>> \in Seq(Jobs) /\ <<>> \in Seq(Messages) /\ Len(<<>>) = 0
  BY EmptySeq
<1>. QED  BY <1>1, <1>2, <1>3, CronAssumption DEF Fits, Owing

LEMMA StartFits ==
    ASSUME NEW r, NEW todo \in Seq(Jobs), todo # <<>>, NEW age \in 0..MaxLag
    PROVE  Fits(r, Start(todo)) /\ Fits(r, [Start(todo) EXCEPT !.age = age])
<1>1. Idle \in Holding(<<>>, 0, None, <<>>)
  BY DEF Idle, Holding, Phases
<1>2. Start(todo) \in Holding(todo, 0, None, <<>>) /\ Start(todo).pc = "jobs"
  BY <1>1 DEF Start, Holding, Phases
<1> DEFINE x == Start(todo)
           y == [x EXCEPT !.age = age]
<1> HIDE DEF x
<1>3. y \in Holding(todo, age, None, <<>>) /\ y.pc = "jobs"
  BY <1>2 DEF Holding, Phases, x
<1> HIDE DEF y
<1>4. /\ x.todo = todo /\ x.age = 0 /\ x.batch = <<>> /\ x.pc = "jobs"
      /\ y.todo = todo /\ y.age = age /\ y.batch = <<>> /\ y.pc = "jobs"
  BY <1>2, <1>3 DEF Holding, x
<1>5. <<>> \in Seq(Messages) /\ Len(<<>>) = 0 /\ 0 \in 0..MaxLag /\ 0 <= Limit
  BY EmptySeq, CronAssumption
<1>6. Fits(r, x) /\ Fits(r, y)
  BY <1>4, <1>5 DEF Fits, Owing
<1>. QED  BY <1>6 DEF x, y

LEMMA DoneFits ==
    ASSUME TInv, NEW r \in Runners, run[r].pc # "idle"
    PROVE  Fits(r, Done(r)) /\ Job(r) \in Jobs
<1>1. /\ run[r].todo \in Seq(Jobs) /\ run[r].todo # <<>> /\ run[r].age \in 0..MaxLag
      /\ run[r].age = run[r].age
  BY DEF TInv, FitInv, Fits
<1>2. /\ Len(run[r].todo) \in Nat \ {0} /\ Head(run[r].todo) \in Jobs
      /\ Tail(run[r].todo) \in Seq(Jobs) /\ Len(Tail(run[r].todo)) = Len(run[r].todo) - 1
  BY <1>1, EmptySeq, LenProperties, HeadTailProperties
<1>3. CASE Len(run[r].todo) = 1
  BY <1>2, <1>3, IdleFits DEF Done, Job
<1>4. CASE Len(run[r].todo) # 1
  <2>1. Tail(run[r].todo) # <<>>
    <3>1. Len(Tail(run[r].todo)) # 0
      BY <1>2, <1>4
    <3>2. Len(<<>>) = 0
      OBVIOUS
    <3>. QED  BY <3>1, <3>2
  <2>2. Fits(r, [Start(Tail(run[r].todo)) EXCEPT !.age = run[r].age])
    BY <1>1, <1>2, <2>1, StartFits
  <2>. QED  BY <1>2, <1>4, <2>2 DEF Done, Job
<1>. QED  BY <1>3, <1>4

(* A step of one runner.                                                   *)
LEMMA OneFits ==
    ASSUME TInv, NEW r \in Runners, NEW y, Fits(r, y), run' = [run EXCEPT ![r] = y]
    PROVE  FitInv'
<1>1. \A q \in Runners : run'[q] = IF q = r THEN y ELSE run[q]
  BY DEF TInv, IInv, Shape
<1>2. \A q \in Runners : Fits(q, run'[q])
  BY <1>1 DEF TInv, FitInv
<1>. QED  BY <1>2 DEF FitInv, Fits, Owing

(* What does not touch the schedule, and counts right.                     *)
LEMMA SameTimes ==
    ASSUME TInv, UNCHANGED next
    PROVE  TimesInv'
BY DEF TInv, TimesInv, Ahead

(* A runner that changes phase, with its jobs and its age.                 *)
LEMMA PhaseFits ==
    ASSUME TInv, NEW r \in Runners, run[r].pc # "idle",
           NEW slot, NEW batch \in Seq(Messages), Len(batch) <= Limit,
           NEW y \in Holding(run[r].todo, run[r].age, slot, batch), y.pc # "idle",
           r \in Workers /\ slot # None => slot \in Int /\ slot <= 0
    PROVE  Fits(r, y)
<1>1. Fits(r, run[r])
  BY DEF TInv, FitInv
<1>2. y.todo = run[r].todo /\ y.age = run[r].age /\ y.batch = batch /\ y.slot = slot
  BY DEF Holding
<1>. QED  BY <1>1, <1>2 DEF Fits

(* What a runner that is at its turn has read of nextcall.                 *)
LEMMA SlotRead ==
    ASSUME TInv, NEW r \in Runners, run[r].pc = "jobs", r \in Workers => Due(r)
    PROVE  r \in Workers /\ next[Job(r)] # None => next[Job(r)] \in Int /\ next[Job(r)] <= 0
<1>1. Job(r) \in Jobs
  BY DoneFits
<1>2. run[r].age \in 0..MaxLag
  BY DEF TInv, FitInv, Fits
<1>3. next[Job(r)] # None => next[Job(r)] \in Int
  BY <1>1 DEF TInv, TimesInv, Ahead
<1>. QED  BY <1>2, <1>3, CronAssumption DEF Due

LEMMA NotDueFits ==
    ASSUME TInv, NEW w \in Runners, NotDue(w) \/ SkipMissing(w) \/ Refuse(w)
    PROVE  TimesInv' /\ Counted' /\ FitInv'
<1>1. /\ RunnerOK(run[w]) /\ run[w].pc = "jobs"
      /\ UNCHANGED <<next, active, runs, delivered, clicks>>
      /\ run[w].batch \in Seq(Messages) /\ Len(run[w].batch) <= Limit
  BY DEF TInv, IInv, Shape, FitInv, Fits, NotDue, SkipMissing, Refuse, Becomes, Records
<1>2. TimesInv' /\ Counted'
  BY <1>1, SameTimes DEF TInv, Counted
<1>3. CASE NotDue(w) \/ Refuse(w)
  <2>1. Fits(w, Done(w)) /\ run' = [run EXCEPT ![w] = Done(w)]
    BY <1>1, <1>3, DoneFits DEF NotDue, Refuse, Becomes
  <2>. QED  BY <1>2, <2>1, OneFits
<1>4. CASE SkipMissing(w)
  <2> DEFINE y == [run[w] EXCEPT !.pc = "advance", !.slot = next[Job(w)]]
  <2>1. run' = [run EXCEPT ![w] = y] /\ Due(w) /\ w \in Workers
    BY <1>4 DEF SkipMissing, Becomes
  <2>2. y \in Holding(run[w].todo, run[w].age, next[Job(w)], run[w].batch) /\ y.pc = "advance"
    BY <1>1 DEF RunnerOK, Holding, Phases
  <2> HIDE DEF y
  <2>3. Fits(w, y)
    BY <1>1, <2>1, <2>2, SlotRead, PhaseFits
  <2>. QED  BY <1>2, <2>1, <2>3, OneFits
<1>. QED  BY <1>2, <1>3, <1>4

(* A batch is no longer than the limit.                                    *)
LEMMA BatchesFit ==
    ASSUME NEW b \in Batches
    PROVE  b \in Seq(Messages) /\ Len(b) <= Limit
<1> DEFINE out == {m \in Messages : mail[m] = "outgoing"}
           size == IF Cardinality(out) < Limit THEN Cardinality(out) ELSE Limit
<1>1. PICK ms \in kSubset(size, out) : b \in SetToSeqs(ms)
  BY DEF Batches
<1>2. Cardinality(ms) = size /\ ms \subseteq Messages /\ out \subseteq Messages
  BY <1>1 DEF kSubset
<1>3. IsFiniteSet(ms) /\ Cardinality(ms) \in Nat /\ Cardinality(out) \in Nat
  BY <1>2, CronAssumption, FS_Subset, FS_CardinalityType
<1>4. b \in [1..Cardinality(ms) -> ms]
  BY <1>1 DEF SetToSeqs
<1>5. size <= Limit
  BY <1>3, CronAssumption
<1> HIDE DEF size, out
<1>6. Len(b) = Cardinality(ms) /\ b \in Seq(Messages)
  BY <1>2, <1>3, <1>4, SeqDef
<1>. QED  BY <1>2, <1>5, <1>6

LEMMA ExecuteFits ==
    ASSUME TInv, NEW r \in Runners, Execute(r)
    PROVE  TimesInv' /\ Counted' /\ FitInv'
<1>1. /\ RunnerOK(run[r]) /\ run[r].pc = "jobs" /\ (r \in Workers => Due(r))
      /\ UNCHANGED <<next, active, delivered, clicks>> /\ runs' = [runs EXCEPT ![Job(r)] = Count(@)]
      /\ run[r].batch \in Seq(Messages) /\ Len(run[r].batch) <= Limit
  BY DEF TInv, IInv, Shape, FitInv, Fits, Execute, Becomes, Records
<1>2. Job(r) \in Jobs
  BY <1>1, DoneFits
<1>3. TimesInv'
  BY <1>1, SameTimes
<1>4. Counted'
  <2>1. runs \in [Jobs -> 0..Most]
    BY DEF TInv, Counted
  <2>2. Count(runs[Job(r)]) \in 0..Most
    BY <1>2, <2>1, CountsUpToMost
  <2>3. runs' \in [Jobs -> 0..Most]
    BY <1>1, <2>1, <2>2
  <2>. QED  BY <1>1, <2>3 DEF TInv, Counted
<1>5. ASSUME NEW b \in Batches, Job(r) = Mailer,
             Becomes(r, [run[r] EXCEPT !.pc = "mail", !.slot = next[Mailer], !.batch = b])
      PROVE  FitInv'
  <2> DEFINE y == [run[r] EXCEPT !.pc = "mail", !.slot = next[Mailer], !.batch = b]
  <2>1. y \in Holding(run[r].todo, run[r].age, next[Mailer], b) /\ y.pc # "idle"
    BY <1>1 DEF RunnerOK, Holding, Phases
  <2>2. run' = [run EXCEPT ![r] = y]
    BY <1>5 DEF Becomes
  <2> HIDE DEF y
  <2>3. Fits(r, y)
    BY <1>1, <1>5, <2>1, BatchesFit, SlotRead, PhaseFits
  <2>. QED  BY <2>2, <2>3, OneFits
<1>6. ASSUME NEW ok \in BOOLEAN, Becomes(r, AfterAction(r, ok))
      PROVE  FitInv'
  <2> DEFINE y == AfterAction(r, ok)
  <2>1. run' = [run EXCEPT ![r] = y]
    BY <1>6 DEF Becomes
  <2>2. y \in Holding(run[r].todo, run[r].age, next[Job(r)], run[r].batch) /\ y.pc # "idle"
    BY <1>1, AfterActionGives
  <2> HIDE DEF y
  <2>3. Fits(r, y)
    BY <1>1, <2>2, SlotRead, PhaseFits
  <2>. QED  BY <2>1, <2>3, OneFits
<1>7. \/ \E b \in Batches : /\ Job(r) = Mailer
                            /\ Becomes(r, [run[r] EXCEPT !.pc = "mail", !.slot = next[Mailer],
                                                         !.batch = b])
      \/ \E ok \in BOOLEAN : Becomes(r, AfterAction(r, ok))
  BY DEF Execute
<1>. QED  BY <1>3, <1>4, <1>5, <1>6, <1>7

LEMMA SendFits ==
    ASSUME TInv, NEW r \in Runners, Send(r)
    PROVE  TimesInv' /\ Counted' /\ FitInv'
<1>1. PICK ok \in BOOLEAN :
        /\ run' = [run EXCEPT ![r] = [run[r] EXCEPT !.pc = "mark", !.ok = ok]]
        /\ delivered' = IF ok THEN [delivered EXCEPT ![Head(run[r].batch)] = Count(@)]
                              ELSE delivered
  BY DEF Send, Becomes
<1>2. /\ RunnerOK(run[r]) /\ run[r].pc = "mail" /\ UNCHANGED <<next, active, runs, clicks>>
      /\ run[r].batch \in Seq(Messages) /\ Len(run[r].batch) <= Limit
      /\ r \in Workers /\ run[r].slot # None => run[r].slot \in Int /\ run[r].slot <= 0
  BY DEF TInv, IInv, Shape, FitInv, Fits, Owing, Send, Becomes, Records
<1>3. TimesInv'
  BY <1>2, SameTimes
<1>4. Counted'
  <2>1. Head(run[r].batch) \in Messages
    BY <1>2, BatchParts DEF RunnerOK
  <2>2. delivered \in [Messages -> 0..Most]
    BY DEF TInv, Counted
  <2>3. Count(delivered[Head(run[r].batch)]) \in 0..Most
    BY <2>1, <2>2, CountsUpToMost
  <2>4. delivered' \in [Messages -> 0..Most]
    BY <1>1, <2>1, <2>2, <2>3
  <2>. QED  BY <1>2, <2>4 DEF TInv, Counted
<1> DEFINE y == [run[r] EXCEPT !.pc = "mark", !.ok = ok]
<1>5. y \in Holding(run[r].todo, run[r].age, run[r].slot, run[r].batch) /\ y.pc = "mark"
  BY <1>2 DEF RunnerOK, Holding, Phases
<1>6. run' = [run EXCEPT ![r] = y]
  BY <1>1
<1> HIDE DEF y
<1>7. Fits(r, y)
  BY <1>2, <1>5, PhaseFits
<1>. QED  BY <1>3, <1>4, <1>6, <1>7, OneFits

LEMMA MarkFits ==
    ASSUME TInv, NEW r \in Runners, Mark(r)
    PROVE  TimesInv' /\ Counted' /\ FitInv'
<1> DEFINE rest == Tail(run[r].batch)
           y == [run[r] EXCEPT !.pc = IF rest = <<>> THEN "advance" ELSE "mail",
                               !.batch = rest, !.ok = FALSE]
<1>1. /\ RunnerOK(run[r]) /\ run[r].pc = "mark"
      /\ UNCHANGED <<next, active, runs, delivered, clicks>> /\ run' = [run EXCEPT ![r] = y]
      /\ run[r].batch \in Seq(Messages) /\ Len(run[r].batch) <= Limit
      /\ r \in Workers /\ run[r].slot # None => run[r].slot \in Int /\ run[r].slot <= 0
  BY DEF TInv, IInv, Shape, FitInv, Fits, Owing, Mark, Becomes
<1>2. TimesInv' /\ Counted'
  BY <1>1, SameTimes DEF TInv, Counted
<1>3. y \in Holding(run[r].todo, run[r].age, run[r].slot, rest) /\ y.pc # "idle"
  BY <1>1 DEF RunnerOK, Holding, Phases
<1>4. rest \in Seq(Messages) /\ Len(rest) <= Limit
  <2>1. run[r].batch # <<>> /\ Len(run[r].batch) \in Nat
    BY <1>1, LenProperties DEF RunnerOK, Batch
  <2>. QED  BY <1>1, <2>1, HeadTailProperties, CronAssumption
<1> HIDE DEF y, rest
<1>5. Fits(r, y)
  BY <1>1, <1>3, <1>4, PhaseFits
<1>. QED  BY <1>1, <1>2, <1>5, OneFits

(* A job is put off by its interval at most: what a worker counts from is  *)
(* the past, and "Run now" counts from now.                                *)
LEMMA NextCallAhead ==
    ASSUME TInv, NEW r \in Runners, run[r].pc \in {"raised", "advance"}
    PROVE  Job(r) \in Jobs /\ Ahead(Job(r), NextCall(r))
<1>1. Job(r) \in Jobs
  BY DoneFits
<1>2. Delta[Job(r)] \in Nat
  BY <1>1, CronAssumption
<1>3. /\ run[r].age \in 0..MaxLag
      /\ r \notin Admins /\ run[r].slot # None => run[r].slot \in Int /\ run[r].slot <= 0
  BY DEF TInv, FitInv, Fits, Owing, Runners
<1> DEFINE from == IF r \in Admins THEN 0
                   ELSE IF run[r].slot = None THEN -run[r].age ELSE run[r].slot
<1>4. from \in Int /\ from <= 0
  BY <1>3, CronAssumption
<1>5. NextCall(r) = Delta[Job(r)] + from
  BY DEF NextCall
<1> HIDE DEF from
<1>. QED  BY <1>1, <1>2, <1>4, <1>5 DEF Ahead

LEMMA AdvanceFits ==
    ASSUME TInv, NEW r \in Runners, Advance(r)
    PROVE  TimesInv' /\ Counted' /\ FitInv'
<1>1. /\ run[r].pc \in {"raised", "advance"} /\ next' = [next EXCEPT ![Job(r)] = NextCall(r)]
      /\ runs' = [runs EXCEPT ![Job(r)] = 0] /\ run' = [run EXCEPT ![r] = Done(r)]
      /\ UNCHANGED <<active, delivered, clicks>>
  BY DEF Advance, Becomes
<1>2. TimesInv'
  <2>1. Ahead(Job(r), NextCall(r)) /\ Job(r) \in Jobs
    BY <1>1, NextCallAhead
  <2>2. next = [j \in Jobs |-> next[j]] /\ \A j \in Jobs : Ahead(j, next[j])
    BY DEF TInv, TimesInv
  <2>3. /\ next' = [j \in Jobs |-> next'[j]]
        /\ \A j \in Jobs : next'[j] = IF j = Job(r) THEN NextCall(r) ELSE next[j]
    BY <1>1, <2>2
  <2>4. \A j \in Jobs : Ahead(j, next'[j])
    BY <2>1, <2>2, <2>3
  <2>. QED  BY <2>3, <2>4 DEF TimesInv, Ahead
<1>3. Counted'
  BY <1>1, CountsUpToMost, CronAssumption DEF TInv, Counted, Most
<1>4. Fits(r, Done(r))
  BY <1>1, DoneFits
<1>. QED  BY <1>1, <1>2, <1>3, <1>4, OneFits

LEMMA RaiseFits ==
    ASSUME TInv, NEW r \in Runners, RaiseInBatch(r)
    PROVE  TimesInv' /\ Counted' /\ FitInv'
<1> DEFINE y == [run[r] EXCEPT !.pc = "raised", !.batch = <<>>, !.ok = FALSE]
<1>1. /\ RunnerOK(run[r]) /\ run[r].pc \in {"mail", "mark"}
      /\ UNCHANGED <<next, active, runs, delivered, clicks>> /\ run' = [run EXCEPT ![r] = y]
      /\ r \in Workers /\ run[r].slot # None => run[r].slot \in Int /\ run[r].slot <= 0
  BY DEF TInv, IInv, Shape, FitInv, Fits, Owing, RaiseInBatch, Records
<1>2. TimesInv' /\ Counted'
  BY <1>1, SameTimes DEF TInv, Counted
<1>3. y \in Holding(run[r].todo, run[r].age, run[r].slot, <<>>) /\ y.pc # "idle"
  BY <1>1 DEF RunnerOK, Holding, Phases
<1> HIDE DEF y
<1>4. <<>> \in Seq(Messages) /\ Len(<<>>) <= Limit
  BY EmptySeq, CronAssumption
<1>5. Fits(r, y)
  BY <1>1, <1>3, <1>4, PhaseFits
<1>. QED  BY <1>1, <1>2, <1>5, OneFits

LEMMA DieFits ==
    ASSUME TInv, NEW r \in Runners, Die(r)
    PROVE  TimesInv' /\ Counted' /\ FitInv'
<1>1. run' = [run EXCEPT ![r] = Idle] /\ UNCHANGED <<next, active, runs, delivered, clicks>>
  BY DEF Die, Records
<1>2. TimesInv' /\ Counted'
  BY <1>1, SameTimes DEF TInv, Counted
<1>. QED  BY <1>1, <1>2, IdleFits, OneFits

(* The list of a tick: some jobs, all of them active.                      *)
LEMMA SomeJobs ==
    ASSUME active \subseteq Jobs, active # {}, NEW todo \in ActiveJobs
    PROVE  todo \in Seq(Jobs) /\ todo # <<>>
<1>1. IsFiniteSet(Jobs)
  <2>1. JobList \in [1..Len(JobList) -> Jobs] /\ Len(JobList) \in Nat
    BY CronAssumption, LenProperties
  <2>2. JobList \in Surjection(1..Len(JobList), Jobs)
    BY <2>1 DEF Surjection, Jobs, ToSet
  <2>3. IsFiniteSet(1..Len(JobList))
    BY <2>1, FS_Interval
  <2>. QED  BY <2>2, <2>3, FS_Surjection
<1>2. IsFiniteSet(active) /\ Cardinality(active) \in Nat /\ Cardinality(active) # 0
  BY <1>1, FS_Subset, FS_CardinalityType, FS_EmptySet
<1>3. todo \in [1..Cardinality(active) -> active]
  BY DEF ActiveJobs, SetToSeqs
<1>4. Len(todo) = Cardinality(active) /\ todo \in Seq(Jobs)
  BY <1>2, <1>3, SeqDef
<1>. QED  BY <1>2, <1>4

LEMMA BeginFits ==
    ASSUME TInv, NEW r \in Runners, NEW todo \in Seq(Jobs), todo # <<>>,
           Begin(r, Start(todo)), clicks' \in 0..MaxClicks
    PROVE  TimesInv' /\ Counted' /\ FitInv'
<1>1. run' = [run EXCEPT ![r] = Start(todo)] /\ UNCHANGED <<next, active, runs, delivered>>
  BY DEF Begin, Records
<1>2. TimesInv' /\ Counted'
  BY <1>1, SameTimes DEF TInv, Counted
<1>3. Fits(r, Start(todo))
  <2>1. 0 \in 0..MaxLag
    BY CronAssumption
  <2>. QED  BY <2>1, StartFits
<1>. QED  BY <1>1, <1>2, <1>3, OneFits

(* Time passes: nextcalls come nearer, and what workers have read of them. *)
LEMMA ClockFits ==
    ASSUME TInv, Clock
    PROVE  TimesInv' /\ Counted' /\ FitInv'
<1>1. /\ next' = [j \in Jobs |-> Later(next[j])]
      /\ run' = [r \in Runners |->
                   IF r \in Workers /\ run[r] # Idle
                   THEN [run[r] EXCEPT !.age = @ + 1, !.slot = Later(@)] ELSE run[r]]
      /\ UNCHANGED <<active, runs, delivered, clicks>>
      /\ \A w \in Workers : run[w].age < MaxLag
  BY DEF Clock
<1>2. TimesInv'
  <2>1. \A j \in Jobs : Ahead(j, Later(next[j]))
    <3>1. SUFFICES ASSUME NEW j \in Jobs PROVE Ahead(j, Later(next[j]))
      OBVIOUS
    <3>2. Ahead(j, next[j]) /\ Delta[j] \in Nat
      BY CronAssumption DEF TInv, TimesInv
    <3>. QED  BY <3>2 DEF Ahead, Later
  <2>. QED  BY <1>1, <2>1 DEF TimesInv, Ahead
<1>3. Counted'
  BY <1>1 DEF TInv, Counted
<1>4. ASSUME NEW r \in Runners
      PROVE  Fits(r, run'[r])
  <2> DEFINE x == run[r]
             y == [x EXCEPT !.age = x.age + 1, !.slot = Later(x.slot)]
  <2>1. RunnerOK(x) /\ Fits(r, x)
    BY DEF TInv, IInv, Shape, FitInv
  <2>2. CASE r \in Workers /\ x # Idle
    <3>1. run'[r] = y /\ x.age < MaxLag
      BY <1>1, <2>2
    <3> HIDE DEF x
    <3>2. y \in Holding(x.todo, x.age + 1, Later(x.slot), x.batch) /\ y.pc = x.pc
      BY <2>1 DEF RunnerOK, Holding
    <3> HIDE DEF y
    <3>3. y.todo = x.todo /\ y.age = x.age + 1 /\ y.slot = Later(x.slot) /\ y.batch = x.batch
      BY <3>2 DEF Holding
    <3>. QED  BY <2>1, <3>1, <3>2, <3>3, CronAssumption DEF Fits, Owing, Later
  <2>3. CASE ~(r \in Workers /\ x # Idle)
    BY <1>1, <2>1, <2>3
  <2>. QED  BY <2>2, <2>3
<1>5. FitInv'
  BY <1>4 DEF FitInv, Fits, Owing
<1>. QED  BY <1>2, <1>3, <1>5
-----------------------------------------------------------------------------
LEMMA TypesInit == Init => TInv
<1>1. SUFFICES ASSUME Init PROVE TInv
  OBVIOUS
<1>2. IInv
  BY <1>1, InitInv
<1>3. TimesInv
  BY <1>1 DEF Init, TimesInv, Ahead
<1>4. Counted
  <2>1. 0 \in 0..Most /\ 0 \in 0..MaxClicks
    BY CronAssumption DEF Most
  <2>. QED  BY <1>1, <2>1 DEF Init, Counted
<1>5. FitInv
  <2>1. \A r \in Runners : run[r] = Idle
    BY <1>1 DEF Init
  <2>. QED  BY <2>1, IdleFits DEF FitInv
<1>. QED  BY <1>2, <1>3, <1>4, <1>5 DEF TInv

LEMMA TypesNext == TInv /\ [Next]_vars => TInv'
<1>1. SUFFICES ASSUME TInv, [Next]_vars PROVE TInv'
  OBVIOUS
<1>2. IInv'
  BY <1>1, NextInv DEF TInv
<1>3. ASSUME UNCHANGED <<next, active, run, runs, delivered, clicks>>
      PROVE  TimesInv' /\ Counted' /\ FitInv'
  BY <1>1, <1>3 DEF TInv, TimesInv, Ahead, Counted, FitInv, Fits, Owing
<1>4. ASSUME Click
      PROVE  clicks' \in 0..MaxClicks
  BY <1>1, <1>4, CronAssumption DEF Click, TInv, Counted
<1>5. ASSUME NEW w \in Workers, Tick(w)
      PROVE  TimesInv' /\ Counted' /\ FitInv'
  <2>1. PICK todo \in ActiveJobs : Begin(w, Start(todo)) /\ UNCHANGED clicks /\ active # {}
    BY <1>5 DEF Tick
  <2>2. w \in Runners /\ todo \in Seq(Jobs) /\ todo # <<>> /\ clicks' \in 0..MaxClicks
    BY <1>1, <2>1, SomeJobs DEF TInv, Counted, Runners
  <2>. QED  BY <1>1, <2>1, <2>2, BeginFits
<1>6. ASSUME NEW a \in Admins, NEW j \in Jobs, RunNow(a, j)
      PROVE  TimesInv' /\ Counted' /\ FitInv'
  <2>1. a \in Runners /\ <<j>> \in Seq(Jobs) /\ <<j>> # <<>>
    BY DEF Runners
  <2>2. Begin(a, Start(<<j>>)) /\ clicks' \in 0..MaxClicks
    BY <1>4, <1>6 DEF RunNow
  <2>. QED  BY <1>1, <2>1, <2>2, BeginFits
<1>7. ASSUME NEW r \in Runners, Continue(r) \/ Die(r)
      PROVE  TimesInv' /\ Counted' /\ FitInv'
  BY <1>1, <1>7, NotDueFits, ExecuteFits, SendFits, MarkFits, RaiseFits,
     AdvanceFits, DieFits DEF Continue
<1>8. ASSUME NEW m \in Messages, Queue(m)
      PROVE  TimesInv' /\ Counted' /\ FitInv'
  BY <1>3, <1>8 DEF Queue
<1>9. ASSUME NEW m \in Messages, Requeue(m)
      PROVE  TimesInv' /\ Counted' /\ FitInv'
  <2>1. UNCHANGED <<next, active, run, runs, delivered>> /\ clicks' \in 0..MaxClicks
    BY <1>4, <1>9 DEF Requeue
  <2>. QED  BY <1>1, <2>1 DEF TInv, TimesInv, Ahead, Counted, FitInv, Fits, Owing
<1>10. ASSUME NEW j \in Switched, Switch(j)
       PROVE  TimesInv' /\ Counted' /\ FitInv'
  <2>1. UNCHANGED <<next, run, runs, delivered>> /\ clicks' \in 0..MaxClicks
    BY <1>4, <1>10 DEF Switch
  <2>2. active' \subseteq Jobs
    BY <1>1, <1>10, CronAssumption DEF Switch, TInv, Counted
  <2>. QED  BY <1>1, <2>1, <2>2 DEF TInv, TimesInv, Ahead, Counted, FitInv, Fits, Owing
<1>11. CASE Clock
  BY <1>1, <1>2, <1>11, ClockFits DEF TInv
<1>12. CASE UNCHANGED vars
  BY <1>2, <1>3, <1>12 DEF vars, TInv
<1>. QED  BY <1>1, <1>2, <1>5, <1>6, <1>7, <1>8, <1>9, <1>10, <1>11, <1>12 DEF Next, TInv

(* Whatever runners do: a job is never put off by more than its interval,  *)
(* a batch is never longer than the limit, and a runner that is idle is    *)
(* one with nothing left to do.                                            *)
THEOREM CronTypeCorrect == Spec => []TypeOK
BY TypesInit, TypesNext, TInvTypes, PTL DEF Spec
=============================================================================
