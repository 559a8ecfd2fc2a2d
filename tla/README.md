# pyvelm: TLA+ models, checks and proofs

pyvelm is a Python framework for business applications: an ORM with computed
fields, versioned modules, access rules, workflows with approvals, scheduled
jobs and outgoing mail, served over HTTP. This directory holds TLA+ models of
its core logic, the TLC runs that check them on small instances, and proofs for
every instance where there are some. Paths below are relative to `src/pyvelm/`
unless they start with `docs/`.

## 1. Inventory

| component | state | operations | what is hard |
|---|---|---|---|
| transactions (`env.py`, `database/adapter.py`) | connection, autocommit, savepoints, nesting depth per environment, value cache | enter, leave, fail, statement | nesting through sibling environments, failed statements whose exception is swallowed, a cache that does not roll back |
| computed fields and the cache (`model.py`, `fields.py`, `paths.py`, `registry.py`, `env.py`) | rows, cached cells, cached One2many tuples, the propagation queue | create, write, unlink, read, `notify_changed` | order of recomputation, stale cells, links that move |
| workflow engine (`workflow/engine.py`, `workflow/escalation.py`) | instance, approvals, tasks, queue of a sequential approval | start, apply_transition, approve, escalation | requests that overlap, several rounds of approval, the cron |
| cron and mail (`modules/base/models/ir_cron.py`, `mail_message.py`, `cli.py`) | `nextcall`, `active`, message state | tick, run now, dispatch, edits | no claim on a job, death between the action and its record, starvation |
| mail template editor (`static/src/mail_editor.js`, `codemirror_field.js`) | posted text, two editors, active tab, put-off callbacks, calls in flight, preview | type, insert, format, switch tabs, search, render, upload, change of model | which editor is read when, callbacks of a later frame, answers out of order |
| inline One2many grid (`static/pv_o2m_grid.js`, `render.py`) | rows with index, operation and sequence number, next index, drag, focus | add, delete, edit, drag, keyboard; draw, play back, apply commands | indices and numbers through many edits and redraws |
| datetime picker (`static/pv_datetime_picker.js`) | hidden value, label, draft, panel and its controls, a listener on the document | open, choose, apply, clear, dismiss | three copies of one value, a panel outside its form |
| code field (`static/src/code_editor.js`) | text, view | mount, type, format, sync | what htmx has read already |
| edit form (`web.py`, `render.py`) | stored record, requests in flight, what the page shows | edit, save, refuse, cancel, live refresh | answers that overtake each other, get lost, or replace a form that has been edited |
| module loader (`loader.py`, `migrations/`, `db_autogen.py`, `seeding.py`) | `ir_module`, schema, registry | load, install, migrate, uninstall | crash between modules, racing workers, downgrades |
| access control (`env.py`, `policy.py`, `ir_model_access.py`, `ir_rule.py`) | grants, rules, a cache per environment | check, inject, derive | stale cache, how rules combine |
| automation and server actions (`automation.py`) | rules | fire | errors are swallowed, user code |
| views and builders (`views.py`, `builders/`) | view trees | inherit, normalise | order of inheritance |
| domains, queries, database layer | none | compile | dialects |
| mail threads, templates, tracking | messages | post, render | text |
| sessions, web routes, rendering, reports, storage, scaffolding | per request | HTTP, formatting, files | input and output |

How they interact. A request gets an `Environment` on a connection of its own
(`web.py`, `get_env`). Everything it does goes through the ORM, whose writes run
on that connection, update the environment's cache and call `notify_changed`,
which recomputes stored fields at once and drops others from the cache.
`sudo`, `with_context` and `with_company` derive sibling environments that share
the connection and the cache. Handlers open `env.transaction()` blocks; outside
them every statement commits by itself. Workflows, cron and mail are records and
methods of models on top of that; the cron worker and the web processes meet in
the database only, and nothing locks a row. In the browser, htmx posts a form and
puts the server's answer in its place; the scripts under `static/` keep hidden
inputs up to date, which is all that the server gets to see, and start over with
every form that is swapped in.

What makes each part correct. Blocks take effect as a whole or not at all and
hand the connection back clean. A stored computed column equals what its method
would return, and the cache never holds a value the database has left behind. A
workflow moves on with the signatures its definition asks for and never waits
for nobody. A job runs when due and a message goes out once, as far as deaths
allow. What a form shows is what it posts and what is stored, and nothing a user
entered gets lost on the way. The module table tells the truth about the schema.
A user sees what grants and rules allow. `PROJECT.json` lists the hazards of the
modelled parts at their lines, with the properties aimed at them or the reason
why there is none yet; those nothing is said about are in section 6.

## 2. Modules

| module | models |
|---|---|
| `AtomicBlocks` | what `transaction()` promises: nested blocks over one store |
| `EnvTransaction` | `Environment.transaction()` over one connection, with the server's savepoints |
| `EnvTransactionProofs` | the theorems about it |
| `ComputeGraph` | dependency paths, their edges, the stored order (pure) |
| `ComputePropagation` | rows, cache, create, write, unlink, reads, `notify_changed` |
| `ComputePropagationProofs` | the theorems about the stored order, its cache and its types |
| `ComputeFreshnessProofs` | the theorems about what is recomputed |
| `WorkflowEngine` | one workflow instance, requests and the escalation cron |
| `WorkflowEngineProofs` | theorems about it: for any definition, and for those that meet a condition |
| `CronDispatch` | jobs, worker, Run now, mail dispatch |
| `CronDispatchProofs` | the theorems about it |
| `CodeField` | the text of a code field, formatting (pure) |
| `MailEditor` | the editor of mail templates, its callbacks and calls |
| `MailEditorProofs` | the theorems about it |
| `O2mGrid` | the table of lines in a form: rows, keyboard, drawing, commands |
| `DatetimePicker` | one datetime field |
| `CodeEditor` | one code field |
| `FormPage` | the three fields composed in the edit form of a record, with save and live refresh |
| `FormPageProofs` | the theorems about it |
| `FormLinesProofs` | the theorems about its lines: what a save stores, the keyboard, types |
| `MC...` | instances for TLC |

### EnvTransaction

`frames` is the stack of open `with` blocks (Python closes them in that order),
`depth` is `env._tx_depth` of every environment, `saves` the savepoints the
server has, latest last, `view` and `committed` what this connection and the
others read. `__enter__` is `EnterTx`, `EnterSavepoint` or, when the server
refuses SAVEPOINT, `EnterRefused`. `__exit__` is `Commit`, `CommitAborted`,
`Rollback`, `Release`, `RollbackTo` or `SavepointGone`, each with the `finally`
clause (`Pop`). The body may read, write, fail in a statement, raise, and catch.
The server is external and modelled from its use: a savepoint name means the
latest savepoint of that name, a failed statement aborts an open transaction, and
the COMMIT of an aborted one undoes it, with or without an error. `snap` in a
frame is a history value for the refinement. `TxEnvs` says which environments
open blocks: one (what callers are meant to do) or several.

`AtomicBlocks` is refined with `durable <- committed`, `failing <- exc` and
`entry` the views at entry of the open blocks.

### ComputeGraph and ComputePropagation

One model stands for all. It has plain columns, one Many2one (`Link`) to itself,
the One2many inverse, stored computed fields and lazy ones. A path is a sequence
of hops and a leaf. A compute method is represented by what matters about it: it
reads along its `@depends` paths and its result tells its inputs apart, so the
value of a computed field is the set of facts `<<record, column, value>>` it was
computed from. A result is right when these are the current facts. Compute
methods are application code, hence external.

`create`, `write` and `unlink` do their synchronous part in one action: the
statement, the cache entries, the One2many tuples, and for `create` the stored
fields in their order. The propagation then runs one turn of the loop of
`notify_changed` per `Propagate` action, so that properties can be stated half
way. `Load` is what a read leaves in the cache. `NewRequest` is a new environment.
`Orderly` says which classes and calls the propagation serves; the code asks for
nothing of the kind (section 5), and the theorems on up-to-date values do.

### WorkflowEngine

A request is in `req[s]`. Every search and every write of it commits by itself
and is an action of its own, in the code's order. A submission resolves the
approvers (`TransitionSubmit`), creates row and task one after another (`Create`,
`Assign`), stores the queue (`Enqueue`) and ends with the caller's write
(`Submit`). An approver's request records the decision (`ApproveAct`), closes
tasks (`ApproveClose`), and then moves the instance to the rejection's state
(`SettleReject`) or looks for pending rows, for the queue and for the other
decisions (`SettleSearch`, `SettleQueue`, `SettleCount`) before it moves
(`SettleMove`) or asks the next approver (`Advance`). The escalation cron searches
once (`EscalateOpen`) and, for one approval at a time, cancels the row
(`EscalateOne`) and then creates the other. One step is what a request reads
before its first write, and the closing of one user's tasks. What a request
itself has written it reads from its cache (`Counted`).

The API's routes open no transaction (`web.py:3427`, `3454`). The route of the
form does (`web.py:3249`): its writes become visible together, and as it has read
everything before the first of them, that is the case of the model in which
nobody steps in between.

Overlapping requests use two slots. `round`, `overlapped`, `crossed` (two requests
met, and not both were of approvers) and `signed` in a row are histories. Of
`stage_data` only `_wf_queue` is kept. Deadlines are abstract: an approval that
has one may be overdue whenever the cron looks. The module names conditions a
definition may meet (`OneWayIn`, `RejectionEnds`, `JointNotEscalated` and
others); the code asks for none of them, and some theorems are about the
definitions that do.

### CronDispatch

A runner is a `pyvelm cron` process or a request for Run now. Its record holds
the jobs still to do, the `nextcall` it read, the batch and the last outcome.
Times are relative to the clock, so that time can go on for ever in a finite
state space; `age` is how long ago a tick took its `now`. Sending a message and
writing its state are two actions, as are executing a job and writing `nextcall`.
A job whose model is missing is skipped by the worker (`SkipMissing`) and refused
to an administrator (`Refuse`).

An action that raises is caught by the runner, which advances the schedule
(`ir_cron.py:175`). Of the mailer it is told apart where it raises: before it has
a batch, as without an SMTP host (`mail.py:287`) or when the search fails
(`Execute`), and in the batch, when attachments are read or when the outcome is
written, both outside the `try` around the send (`RaiseInBatch`,
`mail_message.py:79`, `100`, `103`). `Die` ends a runner at any step.
Administrators flip `active`, requeue failed messages and press Run now. `runs`,
`delivered`, `faults` and `unmarked` (writes of an outcome that failed) are
histories.

### CodeField and MailEditor

A text is the set of pieces somebody wrote into it and whether it is on one line.
That is what the properties tell apart: a piece that was there and is gone has
been lost. TipTap's schema holds some pieces (`Rich`) and drops the others, and
prints on one line (`Parsed`); CodeMirror holds every text. `html` is what the
form posts. `mounts` is the queue of callbacks that `init` and `setTab` put off
by a tick and two animation frames; `loads`, `searches`, `renders` and `uploads`
are the calls in flight, each with what the code reads of it when it is answered.
An action is a handler up to its end or to its `await`; the answer's part, with
`catch` and `finally`, is the action `...Answered`. A search has two `await`s:
it checks `_previewSeq` after the first (`SearchAnswered`) and shows the list
after the second (`BodyRead`); what is between them is in `bodies`. The other
calls look at nothing between theirs. `syncAll` is `Synced`, since
every handler that calls it does so with another tab active. `crossed`,
`stray` and `overtaken` are histories: a call outlived its model, an image landed
on Source, the bodies being read when the newest search was sent.
TipTap, CodeMirror and the server's templates are external.

### O2mGrid, DatetimePicker, CodeEditor and FormPage

`rows` is the table body in the order of the screen; a row has the index its
inputs are named with, its operation, the id, the sequence number in units of
ten and its cells as one value. `line` says which line of the user a row stands
for and is a history. Operations of the keyboard are `Press` with a direction.
The server's side is in the same module: `FreshRows` and `Playbacks` are how a
table is drawn, from records or from a posted form, `NextAfter` the first index
left to the page, `apply_o2m_commands` what a save does.

`DatetimePicker` has one action per listener of `wirePicker`. `orphan` is the
panel that stays in the body of the page when a swap takes its field away.

`FormPage` extends the three and adds the stored record, the page's mode and two
requests in flight, a save and a live refresh, each with the form it was posted
with and how far it is: sent, refused or saved, drawn. Every swap draws the three
fields anew (`ShowRecord`, `ShowForm`, `ShowAgain`). `SaveRefused` may happen to
any save, because anything in the transaction may raise; `SaveCommitted` only to
one that parses. `lost`, `late`, `lines`, `moved` are histories the properties use
to name their exceptions, and `working` fixes the field the user works on, since
the fields share no state and their events commute. htmx is external: one save
and one live refresh at a time.

## 3. Runs

| run | bounds | result |
|---|---|---|
| `transaction` | 2 environments, 2 cells, 2 values, blocks 3 deep, 3 savepoints | all hold |
| `transaction_sibling` | the same | finding |
| `compute_links` | 2 records, 2 values, 2 operations between which reads happen freely; one- and two-hop Many2one paths; deletes with RESTRICT | all hold |
| `compute_children` | 3 records, 2 values, 1 operation from any consistent database; totals over children | all hold |
| `compute_order`, `compute_moved` | as above with one schema or write changed | findings |
| `workflow_two_step` | 3 users, 2 overlapping requests, 5 approval rows (3 once `crossed`), several rounds, escalation | all hold |
| `workflow_resubmit`, `workflow_in_turn` | 1 request at a time | findings |
| `cron_dispatch` | 2 jobs, 1 worker, 1 Run now, 2 messages in batches of 1, 1 death or failed write, 1 intervention | all hold, liveness too |
| `mail_editor` | 2 models, a piece TipTap holds and one it drops, 4 user events, 2 searches, 2 calls of a kind, 2 callbacks waiting | all hold, liveness too |
| `form_page` | 2 or 3 lines, 4 rows, 2 cells in a row, 6 user events, 1 lost answer | all hold |

Why the bounds are enough for the interesting cases. Three levels of blocks are
the least with a savepoint inside a savepoint and a third that reuses a released
name. In the compute runs the initial state is *any* database in order with an
empty cache, so one or two operations start from every shape of tree those
records form; two records suffice for cycles through both, and
three give a parent, a child and a grandchild for the fields over children. Two
requests are the least that overlap, and the rounds of the workflow runs include
a second submission after escalation and after a completed cycle. One message per
batch makes the batch limit bite with two messages, and one death at any step, or
one outcome that is not written, is what the counts `1 + faults` and
`1 + faults + unmarked` are about.

Four events of the editor are two switches of tabs with an edit between and after
them, or a search, a change of model and another search; answers and callbacks
come on top and at any time. Six events of the form are opening it, two or three
edits, a save, and edits and a second save after the answer. A record with two
lines that were never ordered and one with three that were give every case of
dragging (up, down, over a struck row), and a refused save, a live refresh and a
lost answer each happen before and after the others.

Every bound is a constant: `MaxNest`, `MaxSaves`; `MaxOps`; `MaxApprovals`;
`MaxLag`, `MaxFaults`, `MaxClicks`; `MaxMounts`, `MaxSearches`, `MaxCalls`,
`MaxActs`; `MaxRows`, `MaxLost` (`MaxFaults` is of deaths and failed writes
together). One is a constraint, `Bound` in `MCWorkflowEngine`: after a submission
or an escalation has met another request, when only `TypeOK` still says anything,
no more than three approvals are followed. Symmetry is used in the compute runs,
over records and values, and in `workflow_two_step`, over the slots; these runs
have no liveness property. `WorkflowTwoStep.cfg` and `WorkflowInTurn.cfg` switch
the deadlock check off: a rejected, filed or approved document is final there,
and the bound on approvals stops the rest. `MailEditor.cfg` and `FormPage.cfg` switch it off
because a user who has used up the events stops, and a destroyed editor is gone.

### What the passing runs show

* `AtomicWhileRegular`: as long as one environment opens blocks, every step of
  `transaction()` is a step of `AtomicBlocks`, failed statements and swallowed
  exceptions included. `CleanHandover` needs no such condition.
  `CacheLostOnlyByUndo`: the cache follows every statement and goes wrong only
  when a block is undone, which docs/modules.md:526 admits.
* `StoredUpToDate`, `LazyUpToDate`, `CacheMirrorsRows` for paths over Many2one
  and One2many links, in `Orderly` schemas (`OrderlyInstances` has TLC evaluate the
  condition: it tells the instances of the passing runs from those of findings 2
  and 3). `StaleIsPending` is the inductive idea behind them: whatever is stale
  half way is still reachable from the queue and has not been visited.
* `CompletedWhenSigned` holds however approvers overlap, at each of their searches
  and writes, until a submission or an escalation meets another request (below).
  The other workflow properties are about one request at a time, since nothing
  locks (an approver who reads before another writes can decide after it).
* `SlotRunsOnce`, `MailSentOnce`, `MailStateTerminal` are stated while runners do
  not overlap: the documents say that overlapping ones may double-fire
  (docs/deployment.md:157-165). `SentMeansDelivered` holds without the condition.
  A message goes out once more for every death between the send and its record,
  and for every record that could not be written, with nobody dying.
* `EditorsInOrder` and `EditsStay`: the two editors and the posted text of a mail
  template agree once callbacks have run, and no piece of text is lost between
  Write and Source. `NewestSearchWins` is as much of what `_previewSeq` is for as
  holds (see the exceptions below), and `SpinnersStop` says that dropping an old answer leaves no spinner behind.
* `KeysDistinct`, `StoredAsShown`, `CreatedOnce`: what a user did to the lines,
  in whatever order, is what the save does. `RedrawKeepsEdits`: a refused save
  loses nothing. `ShownIsPosted` and `PanelInOrder` relate the copies a field
  keeps of its value. `TabWalks` is the walk `pv_o2m_grid.js:5` promises, with its
  exception at the first cell.

### Behaviour the properties except

The properties above name these exceptions. They are what the code does; they
are listed here and not among the findings because no run is spent on them.

* Workflow. Nothing holds the check that an approval is complete
  (`engine.py:229`) and the move (`engine.py:234`) together. A request that stalls
  between them, while another completes the review and the instance is reset and
  submitted again, completes the new round without a signature. An approver may
  act while the rows of a submission are still being created
  (`engine.py:267`), or before `pending_transition` is written (`engine.py:139`),
  and between the two statements of an escalation (`escalation.py:47`, `49`)
  there is no pending row to be found: each can complete an approval too early, or
  leave the instance waiting for what has been decided. `CompletedWhenSigned`
  excepts these by `crossed`. An approval all must give and that is escalated never completes: the
  row that escalation cancels counts as unsigned for ever (`engine.py:490`,
  `escalation.py:49`), and the instance waits for nobody. The superuser may sign
  for anybody (`engine.py:199`); one who is an approver as well, and signs for
  another, closes a task of their own that is still open. A rejection left over
  from an approval several had to give can move an instance that has gone on. A
  state that two transitions lead to can be reached without the signatures one of
  them asks for.
* Mail. Where every dispatch raises, as without an SMTP host, the exception is
  swallowed and the schedule advances (`ir_cron.py:175`): the queue stays
  outgoing for ever, and only the process's stderr tells. `MailLeavesQueue`
  excepts it by name (`DispatchRaised`).
* Editor. Going from Source to Preview, and any request while on Preview, takes
  TipTap's text, so what was written on Source since the last visit to Write is
  overwritten (the comment at `mail_editor.js:689` says it is not): `setTab` calls
  `syncAll` again, through `renderPreview`, with Preview already active. A request
  in the two frames after a switch takes the old editor's text. An image that
  arrives on Source goes into TipTap and `html` and is overwritten there. What
  TipTap's schema cannot hold is dropped on Write. Answers for an old model are
  taken after the model has changed; `loadVariables` and `renderPreview` have no
  counter like `_previewSeq`. And that counter is looked at before the body of an
  answer is awaited (`mail_editor.js:411`, `:413`): a search whose body is slow
  replaces the list of a newer search that was answered in between, with the
  spinner off. `NewestSearchWins` excepts exactly the searches whose body was
  being read when the newest one was sent.
* Grid. A drag that ends outside leaves rows and numbers apart; a redraw shows the
  rows in the order of their indices, and the next edit renumbers to that order.
  Shift+Tab on the very first cell goes to the end of its row.
* Form. A lost answer, or an old live refresh that is drawn after a save, offers
  new lines for creation again. What is entered while a request is out is lost
  when its answer is drawn. A required value that was cleared comes back as the
  stored one. A draft that was dismissed reappears with the panel, and Apply in a
  panel left behind by a swap changes nothing.

### Fairness

`CronDispatch` and `MailEditor` have liveness properties. In the editor, the
browser runs the callbacks it was given, and each call is answered or fails
(`fetch` settles, and both ends are handled): weak fairness of `RunMount` and of
each kind of answer. What the user does is not fair. In `CronDispatch`, a worker's loop is
`while not shutdown` around `_tick`, with every exception of a tick caught
(`cli.py`, `cron_loop`), and a dead process is restarted by its supervisor: weak
fairness of its next step, a tick or the continuation of one. A request that has
begun goes on: weak fairness of `Continue`. Time passes: weak fairness of
`Clock`. This assumes that actions return; the SMTP client has no timeout
(`mail.py:236`), so a server that never answers stops the worker. Deaths, edits
and new messages are not fair. A clock bound (`MaxLag`)
makes time wait for a worker that lags; without it no finite instance exists.

## 4. Findings

1. `transaction_sibling`: a block opened through a sibling environment inside an
   open block is a transaction of its own on the same connection. Its failure
   undoes the outer block, its success commits it.
2. `compute_order`: a stored field declared before the stored field of the same
   record it reads stays stale after a write.
3. `compute_moved`: a child that moves leaves the old parent's stored total stale.
4. `workflow_resubmit`: after a rejection and a new submission, approvals never
   complete and the instance is stuck.
5. `workflow_in_turn`: a sequential approval completes after its first approver.

## 5. Proofs

`EnvTransactionProofs` proves, for all keys, values, environments and bounds and
from `EnvAssumption` only:

* `TypeCorrect` (`Spec => []TypeOK`), `HandoverIsClean`, `CacheLostOnlyByUndoHolds`;
* `AtomicWhileRegularHolds`, with `SavepointsMatch`;
* `OneOpenerImplementsBlocks`: when `TxEnvs` has one element, `Spec` implements
  `Blocks!SpecBlocks`.

The inductive invariant `IInv` has five parts. `TypeOK` alone is not preserved:
`Pop` takes one from a depth and must not reach -1, so `Counted` says that an
environment's depth is one more than the number on its topmost frame, and
`Stacked` that the frames of one environment carry 0, 1, 2, ... from the bottom
up. `Kinds` says that number 0 is the transaction. With them, leaving the last
frame of the stack leaves a frame of depth 1, which restores autocommit; and
`AutocommitClean` carries what autocommit means for the server.

For atomicity two more are needed. `Numbered`: while one environment opened the
lower frames, frame n has the savepoint numbered n - 1. `Recoverable`: for each
open savepoint block the server still has a savepoint with its number and the view at its
entry, and every later savepoint has a larger number. That is what makes
`ROLLBACK TO` by the latest of a name find the block's own savepoint although
earlier rollbacks leave savepoints of the same names behind.

`FormPageProofs` proves, for all records, values, texts and bounds and from the
modules' assumptions, `KeysStayDistinct`, `PanelStaysInOrder`,
`ShownIsAlwaysPosted` and `RedrawAlwaysKeepsEdits`. Its `IInv` is a conjunction of
one part per field, because an action of a field leaves the others alone, and
one for record and requests. `KeysDistinct` needs the rows of both requests in
it, since they come back as rows of the page; the proof for each operation of
the table says where each row of the new table comes from (`RemoveKeepsKeys`,
`MoveKeepsKeys`, `PlaybackInOrder`). `PanelInOrder` needs one thing more: a draft
without a date goes with an empty calendar, or opening the panel would show a
date the draft does not have. That rows drawn again are the same rows is a
counting argument: as many as there are, none twice.

`MailEditorProofs` proves `EditorsStayInOrder`, `EditsAlwaysStay`,
`NewestSearchAlwaysWins` and `PreviewStaysOfModel`. The editors are out of step
while callbacks are due, so `EditorInv` says which callback comes last
(`DueInv`): one for the active tab, unless that is Preview, and one that will
find no editor or come from another tab, so that it does bring the editor up to
date. `BodiesInv` says of the bodies being read what `NewestSearchWins` says of the
list. For the preview, `CallsInv` adds that all calls in flight are about the
form's model.

`CronDispatchProofs` proves `SlotsRunOnce`, `MailIsSentOnce`, `SentIsDelivered`,
`FinalStaysFinal` and `CronTypeCorrect`, for any jobs, messages, runners, batch
size and bounds. None of them is inductive. `RunsInv` says where the execution that makes one
more than the deaths is: with a runner that is past the action and has not
written `nextcall`; `Alone` says there is no second runner to be so, which is
where the condition on overlaps is used. Likewise `MailInv` says that the one
delivery more is marked `sent` already or is what a runner has just sent (or its
record could not be written, which `unmarked` counts), and
`BatchQueued` that everything a runner has still to send is in the queue, so
that it marks nothing that was final and sends nothing that was marked. For the types,
`TimesInv` says that no job is planned further ahead than its interval, and
`FitInv` that a worker past the check holds a `nextcall` that was due. `ActiveJobs`, which a
tick works through, is described by the order of the list and not as a filter of
it, for the same reason as `rowsIn`.

`WorkflowEngineProofs` proves `TypeCorrect` and `DecisionsAlwaysStand` for any
definition, users and number of requests. `TypeOK` needs `RowsExist`: requests
refer to approvals by number, and rows are only added. For decisions, `Alone`
says that while requests do not overlap there is one at most, and `Undecided`
that what it is about to decide or to cancel is still pending.

Its second half proves `CompletesWhenSigned`, `AlwaysAlongDefinition`,
`IsNeverStuck` and `ApproversKeepTheirTasks`. They are not true of every
definition, so each has as its hypothesis the conditions it needs, and the list
in section 3 says what happens without them; `TwoStepIsRegular` has TLC evaluate
them for the definition of `workflow_two_step`, where the four hold.

* `CompletesWhenSigned` needs `OneWayIn` (only one transition leads where an
  approval leads) and holds for any number of approvers that overlap, step by
  step: like the property it says nothing once a submission or an escalation has
  met another request. Its invariant `RInv` says of the time before that:
  submissions and escalations are alone (`Apart`), no queue survives (`NoQueue`),
  all rows of the last round are of the approval waited for and what its strategy
  asks for is among them or in the list of those still to be created (`RoundInv`,
  with `Asked` and `Coming`), and an approver who is past the searches has seen it
  signed (`SignedInv`). What an approver has found stays so while others only
  decide, since a signature is never taken back.
* `AlwaysAlongDefinition` needs `JointRejectionEnds`: a rejection by one of several
  signers leaves the others' rows pending, and they must not act on an instance
  that goes on. `AlongInv` says that what is unsigned is waited for or was rejected
  (`Live`) and is of a single transition, and of each stage of a request what it
  may still rely on (`AlongOf`).
* `IsNeverStuck` needs that every rejection is final (finding 4 is the contrary)
  and that joint approvals are not escalated. `WaitInv` follows the last signature
  from the action that gives it to the one that moves the instance, and the first
  row from its creation to the write that makes the instance wait for it.
* For `ApproversKeepTheirTasks`, `TaskInv` says that approvers with unsigned rows,
  and those still to be asked, are distinct (`Separate`, `Addressed`), so that
  closing the tasks of one leaves the others'; and that who has a row has a task
  or is just being given it (`Tasked`).

`FormLinesProofs` proves `LinesAreCreatedOnce`, `StoredIsAlwaysShown`,
`TabAlwaysWalks` and `FormTypeCorrect` from the invariants of `FormPageProofs`.

* `LinesAreCreatedOnce` is a count. `NumberInv` says that a new line never has
  the number of one that was there. `CountInv` says of a line some form still
  offers to create, in the page or in a request on its way, that it is stored at
  most once per answer lost or late; committing a save stores it once more, and
  from then on nothing is offered until the answer has been drawn or lost, which
  is where the exception comes from.
* `StoredIsAlwaysShown` needs three things of the page (`StoreInv`). `MatchInv`:
  a form that can still be saved, and that no answer lost or late made outdated,
  has exactly one row for each stored child. `SortInv`: while `moved` is false,
  the sequence numbers of the live rows say what their positions say. `IdsInv`:
  children have different ids, none newer than the last. Then the children a save
  leaves are one for each live row (`CommandsAre`), and the listing of the server
  has them in the order of these rows. That there is no other order it could
  list them in is a count again: the place of a child is the number of children
  that do not come after it (`PlaceInOrder`).
* `TabAlwaysWalks` and the cursor's part of `FormTypeCorrect` rest on what
  `rowsIn` gives. It is defined by ranks and not as a filter of the sequence,
  since the provers know nothing of `SelectSeq`; `RanksFill` says that a rank is a
  place and every place is taken, and `PlaceIs` that a row is found at its rank.

`ComputePropagationProofs` proves `CreateFollowsReads`, `CacheAlwaysMirrors` and
`ComputeTypeCorrect`, for any schema without cycles, any rows, any number of
operations, and any compute methods that read their paths.

* `CreateFollowsReads`: the order in which `create` computes stored fields has
  each of them once, after every stored field it reads, however the class
  declares them. (`write` has no such order, which is finding 2.) The order is a
  depth-first search, a function that calls itself for the fields read. The rank
  that a schema without cycles has gives what the provers need in place of an
  induction over data: that the function exists (`Visitable`), and that a visit
  appends only fields of at most its own field's rank (`VisitsGrow`), so that a
  field is still missing when what it reads has been visited.
* `CacheAlwaysMirrors`. `CacheMirrorsRows` is not inductive: a row slot that is
  empty may be filled by `create`, so `MirrorInv` has the mirror for empty slots
  too, and `RowsInv` that an empty slot is nobody's child. Each operation is then
  a view that mirrors turned into another (`LoadMirrors`, `ComputeMirrors`,
  `AssignMirrors`, ...). `create` computes its stored fields in a fold; the lemma
  about it (`ComputeAllMirrors`) is an induction over sets of numbers (`NatSet`),
  since the provers have no induction over predicates. Hypotheses: one session (a
  second one's writes do not reach the first one's cache, by design) and no
  deletes with `CASCADE`: the database deletes rows further down than the code invalidates.
  They are gone from the database, but the model gives their slots to new rows,
  which a server with serial ids does not. `SET NULL` is covered, which no run is.
* `ComputeTypeCorrect` is `TypeOK` for one session and every `ondelete`. `TypeInv`
  adds that rows link to rows that exist and that the queue is about such rows:
  `unlink` waits for an empty queue, and the walk back along a path stays among
  linked rows (`SourcesStay`, `FanOutIsTyped`). That what is computed is a set of
  facts is an induction over ranks once more (`SolutionIsFacts`), for a compute
  method that sees the cache (`ReadingIsFacts`) and for the truth
  (`TruthIsFacts`). A value may be told by the column of a stored field that is
  still empty, so facts are about every field and not about the plain ones only.

`ComputeFreshnessProofs` proves `StoredStaysUpToDate`, `LazyStaysUpToDate` and
`StaleStaysPending`: for any rows, values and number of operations of one
session, whatever is changed, `notify_changed` leaves no stored column and no
cached lazy field behind, and no stale one out of its reach half way. This is not
true of every class, because the queue is a plain list and a record is visited
once per field: a field that comes up before what it reads is recomputed too
early and then passed over. The hypothesis is `Orderly`. It gives each stored
field a tier, one above that of the stored fields it reads, and asks that

* a stored field reads stored fields of the tier below and no lazy ones, and is
  of tier 1 or 2 if it reads a plain column or walks a relation (`Tiered`): a
  third tier over a relation hears of a moved row at once, and may come up while
  the second is still waiting;
* tier 1 is declared before tier 2 (`Declared`; finding 2 is the contrary), and
  one `write()` of several columns does not notify for tier 2 before tier 1
  (`WritesInOrder`): the columns are notified in the order the caller names them.
  `CreatesInOrder` asks the same of a `create()` with a parent, for the rows that
  reach the new one by One2many paths;
* rows do not move and are not deleted where One2many paths are declared
  (finding 3), and deletes are restricted (`LinksStay`). `SET NULL` changes a
  column without telling anybody.

Besides, `None` is not itself a set of facts, so that NULL is told apart from what
a method returns; TLC's model value is not.

The inductive invariant is `DueInv`: the types, the mirror and `Due`, whose parts
are about the wrong cells, those that do not hold what their method would return.

* `Waiting`: a wrong cell has not been visited, and is in the queue or reads
  another wrong cell. Alone it is not inductive: a turn could recompute a cell
  from one that is still wrong, and mark it as visited.
* `Ahead` and `Near` exclude that. A wrong cell of the queue comes before every
  stored field of a higher tier, and no entry is more than one tier above any
  wrong cell, so what a turn computes reads right values only (`TurnComputes`),
  and what it adds at the end of the queue comes after all that is of its tier.
* `LazyDue`: a cached lazy field that is not right is in every set of cells that
  holds the queue and is closed under `Leads`, and has not been visited;
  `Followed`, that whatever a visited cell leads to has been queued, so that a
  visit does not cut the way to it.

Under every wrong cell there is then one of the queue (`WrongQueued`), so with an
empty queue there is none. The lemmas below are about the program's operators.
The order of `FanOut`'s entries, column by column and field by field in the order
declared, is `FanOutInOrder`. That the edges of the index lead back from whatever
a path reads to the record it starts from is `PathLeads`, and that a change of rows
therefore leads to all whose truth it changes, `TruthChangeIsDue`. For `create`,
each stored field is computed after those it reads (`CreateSteps`), which rests
on `CreateFollowsReads`, and the cells of the new row that are wrong all the same
read another row that is (`CreatedReadsWrong`).

`MailEditor`'s `TypeOK` (`EditorTypeCorrect`) needs that the calls in flight are
finitely many, so that a number is free for the next.

Only model-checked:

* liveness (`DueJobsRun`, `MailLeavesQueue`, `TabsMount`, `SpinnersStop`):
  fairness and ENABLED are out of the prover's reach;
* the findings, which are about single instances.

## 6. Not modelled

Rendering, HTTP, SQL text, DDL, templates, files, reports and scaffolding are
input, output and formatting; so is the read-only code display. Left out of the
form: creating a record, dialogs, tables without a sequence field, other kinds
of field; of the editors, menus, cursors and themes. Of the other modelled
components: Many2many paths, several models, two sessions that recompute the
same column; `start`, forms and hooks of workflows; edits of `nextcall` and jobs
without an action.

Hazards met while reading that no module reaches: links of deleted records
followed one level deep in the cache (`model.py:839`), Many2many paths that hear
of edits from one side only (`paths.py:179`), record patches left behind when no
approver is found (`workflow/engine.py:134`), two starts of a workflow for one
record (`engine.py:68`), an edit of `nextcall` while its action runs and a
negative interval (`ir_cron.py:189`, `41`), and in the loader and access control
a crash between two modules' installations (`loader.py:1009`), migrations chosen
by the version they end at (`618`), older code that writes its version over a
newer one (`1040`), workers that boot at once (`511`), grants cached for the life
of an environment (`env.py:249`) and rules of groups joined by AND (`378`).

## 7. Plan

1. `ModuleLoader`: install, upgrade and downgrade of versioned modules, one
   transaction per module, crashes between them, two workers booting, the choice
   of migrations (`loader.py`). Abstract specification: the recorded version and
   the schema agree. One run, one proof of the agreement.
2. `AccessControl`: grants, the cache per environment, record rules, checked
   against a reference definition of who sees what. One run.
3. `ComputePropagation` with SET NULL and CASCADE and with two sessions, in
   place of the less telling of the present runs.
