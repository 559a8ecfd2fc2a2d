----------------------------- MODULE MailEditor -----------------------------
(***************************************************************************)
(* The editor of mail templates (static/src/mail_editor.js, the Alpine     *)
(* component pvHtmlEditor): one text, `html`, that is posted with the form *)
(* through a hidden input, and two editors that are mounted on first use   *)
(* and live on: TipTap on the Write tab, CodeMirror on the Source tab. The *)
(* Preview tab renders the text on the server.                             *)
(*                                                                         *)
(* The browser runs one handler at a time; what interleaves is user        *)
(* events, callbacks put off to a later frame (`mounts`) and answers of    *)
(* the server (`loads`, `searches`, `renders`, `uploads`). A search waits  *)
(* twice, for its answer and then for the body of it (`bodies`), and looks *)
(* at the sequence number after the first wait only. TipTap and            *)
(* CodeMirror are external. TipTap parses by its schema and prints on one  *)
(* line (Parsed). setContent(html, false) of ensureWrite asks for no       *)
(* update; the bundled version takes that option in an object only         *)
(* (static/dist/mail_editor.js: `emitUpdate:t=!0`), so onUpdate runs.      *)
(*                                                                         *)
(* Left out: menus, labels and cursors; the text of queries and of error   *)
(* messages; flags that only show or hide a list.                          *)
(***************************************************************************)
EXTENDS Naturals, Sequences, FiniteSets, CodeField

CONSTANTS Models,       \* models a template can be for
          Bodies,       \* texts stored when the form opens
          MaxMounts,    \* callbacks waiting for a frame
          MaxSearches,  \* searches for a sample record
          MaxCalls,     \* calls of one kind in flight
          MaxActs       \* user events

Tabs == {"write", "source", "preview"}

ASSUME EditorAssumption ==
    /\ Bodies \subseteq Doc /\ None \notin Tabs
    /\ MaxMounts \in Nat /\ MaxSearches \in Nat /\ MaxActs \in Nat
    /\ MaxCalls \in Nat \ {0}

VARIABLES
    readonly, alive,                    \* display mode; not yet destroyed
    html, tab, tipTap, codeView, sourceAutoFormatted, mounts,
    uploads,                            \* image uploads in flight
    mailModel, variables, variablesLoading, loads,
    previewSeq, previewLoading, previewResults, searches,
    bodies,                             \* searches whose answer is being read
    previewRecord, previewRendering, previewRendered, previewError, renders,
    acts,                               \* user events so far
    stray,                              \* history: an upload landed on Source
    crossed,                            \* history: a call outlived its model
    overtaken                           \* history: bodies at the newest search

textVars == <<html, tab, tipTap, codeView, sourceAutoFormatted, mounts, stray>>
listVars == <<variables, variablesLoading, loads>>
searchVars == <<previewSeq, previewLoading, previewResults, searches, bodies, overtaken>>
renderVars == <<previewRecord, previewRendering, previewRendered, previewError, renders>>
modeVars == <<readonly, alive>>
vars == <<modeVars, textVars, uploads, mailModel, listVars, searchVars, renderVars, acts, crossed>>

OptDoc == Doc \union {None}
OptModel == Models \union {None}
Mount == [name : {"init", "write", "source"}, prev : Tabs \union {None}]
Load == [n : 1..MaxCalls, model : Models]
Search == [seq : 1..MaxSearches, model : Models]
Render == [n : 1..MaxCalls, model : Models, record : OptModel]

(* A call in flight has a number none of the others has.                   *)
Fresh(calls) == CHOOSE n \in 1..MaxCalls : \A c \in calls : c.n # n
Room(calls) == Cardinality(calls) < MaxCalls

(* What TipTap makes of a text and prints again.                           *)
Parsed(doc) == [toks |-> doc.toks \intersect Rich, flat |-> TRUE]

(* Mutant: the code view is read before it is there.                       *)
SyncedUnmounted(t) ==
    IF t = "source" THEN codeView ELSE IF tipTap # None THEN tipTap ELSE html

(* Mutant: TipTap is read whatever tab is active.                          *)
SyncedFromTipTap(t) ==
    IF tipTap # None THEN tipTap ELSE IF codeView # None THEN codeView ELSE html

(* What syncAll leaves in html when tab t is active.                       *)
Synced(t) ==
    IF t = "source" /\ codeView # None THEN codeView
    ELSE IF tipTap # None THEN tipTap
    ELSE IF codeView # None THEN codeView
    ELSE html

(* A user event.                                                           *)
Event == alive /\ acts < MaxActs /\ acts' = acts + 1

-----------------------------------------------------------------------------
(* Opening the form. Edit mode asks for the variables of the model and     *)
(* mounts TipTap two frames later; display mode renders the preview.       *)
Init ==
    /\ readonly \in BOOLEAN /\ alive = TRUE
    /\ html \in Bodies /\ mailModel \in OptModel
    /\ tab = IF readonly THEN "preview" ELSE "write"
    /\ tipTap = None /\ codeView = None /\ sourceAutoFormatted = FALSE
    /\ mounts = IF readonly THEN <<>> ELSE <<[name |-> "init", prev |-> None]>>
    /\ uploads = 0
    /\ variables = None
    /\ loads = IF readonly \/ mailModel = None THEN {} ELSE {[n |-> 1, model |-> mailModel]}
    /\ variablesLoading = (loads # {})
    /\ previewSeq = 0 /\ previewLoading = FALSE /\ previewResults = None
    /\ searches = {} /\ bodies = {} /\ overtaken = {}
    /\ renders = IF readonly /\ mailModel # None
                   THEN {[n |-> 1, model |-> mailModel, record |-> None]} ELSE {}
    /\ previewRendering = (renders # {})
    /\ previewRecord = None /\ previewRendered = None /\ previewError = FALSE
    /\ acts = 0 /\ stray = FALSE /\ crossed = FALSE

-----------------------------------------------------------------------------
(* The list of variables. An answer is taken whatever it answers.          *)
loadVariables(model) ==
    IF model = None
      THEN variables' = None /\ UNCHANGED <<variablesLoading, loads>>
      ELSE /\ Room(loads)
           /\ variablesLoading' = TRUE
           /\ loads' = loads \union {[n |-> Fresh(loads), model |-> model]}
           /\ UNCHANGED variables

LoadAnswered(call) ==
    /\ variables' \in {call.model, None}
    /\ variablesLoading' = FALSE
    /\ loads' = loads \ {call}
    /\ UNCHANGED <<modeVars, textVars, uploads, mailModel, searchVars, renderVars, acts, crossed>>

(* Mutant: the list of sample records is kept.                             *)
ResetRenderedOnly ==
    /\ previewRecord' = None /\ previewRendered' = None /\ previewError' = FALSE
    /\ UNCHANGED previewResults

(* What belongs to the old model goes with it.                             *)
ResetPreview ==
    /\ previewRecord' = None /\ previewResults' = None
    /\ previewRendered' = None /\ previewError' = FALSE

(* The model combobox of the form changes.                                 *)
ComboChange(model) ==
    /\ Event /\ ~readonly
    /\ model # mailModel /\ mailModel' = model
    /\ loadVariables(model)
    /\ ResetPreview
    /\ crossed' = (crossed \/ loads \union searches \union bodies \union renders # {})
    /\ UNCHANGED <<modeVars, textVars, uploads, previewSeq, previewLoading, searches, bodies,
                   overtaken, previewRendering, renders>>

-----------------------------------------------------------------------------
(* The preview. renderPreview first stores what the active tab shows.      *)
renderPreview(record) ==
    IF mailModel = None
      THEN previewError' = TRUE /\ UNCHANGED <<html, previewRendering, previewRendered, renders>>
      ELSE /\ Room(renders)
           /\ html' = Synced("preview")
           /\ previewRendering' = TRUE /\ previewError' = FALSE
           /\ renders' = renders \union
                  {[n |-> Fresh(renders), model |-> mailModel, record |-> record]}
           /\ UNCHANGED previewRendered

(* Mutant: a failed call does not end the rendering.                       *)
RenderAnsweredOrStuck(call) ==
    /\ \/ /\ previewRendered' = [model |-> call.model, record |-> call.record]
          /\ previewRendering' = FALSE
          /\ UNCHANGED previewError
       \/ /\ previewRendered' = None /\ previewError' = TRUE
          /\ UNCHANGED previewRendering
    /\ renders' = renders \ {call}
    /\ UNCHANGED <<modeVars, textVars, uploads, mailModel, listVars, searchVars,
                   previewRecord, acts, crossed>>

RenderAnswered(call) ==
    /\ \/ previewRendered' = [model |-> call.model, record |-> call.record]
          /\ UNCHANGED previewError
       \/ previewRendered' = None /\ previewError' = TRUE
    /\ previewRendering' = FALSE
    /\ renders' = renders \ {call}
    /\ UNCHANGED <<modeVars, textVars, uploads, mailModel, listVars, searchVars,
                   previewRecord, acts, crossed>>

(* The Render button, disabled while a call is out.                        *)
PressRender ==
    /\ Event /\ tab = "preview" /\ mailModel # None /\ ~previewRendering
    /\ renderPreview(previewRecord)
    /\ UNCHANGED <<modeVars, tab, tipTap, codeView, sourceAutoFormatted, mounts, stray, uploads,
                   mailModel, listVars, searchVars, previewRecord, crossed>>

(* openPreviewPicker and typing in the box send a search.                  *)
searchPreviewRecords ==
    /\ Event /\ tab = "preview" /\ mailModel # None /\ previewSeq < MaxSearches
    /\ previewSeq' = previewSeq + 1
    /\ previewLoading' = TRUE
    /\ searches' = searches \union {[seq |-> previewSeq + 1, model |-> mailModel]}
    /\ overtaken' = bodies
    /\ UNCHANGED <<modeVars, textVars, uploads, mailModel, listVars, previewResults, bodies,
                   renderVars, crossed>>

(* A search ends: the spinner is that of the newest one.                   *)
SearchOver(call) == previewLoading' = (previewLoading /\ call.seq # previewSeq)

(* A call or a body that failed empties the list of the newest search.     *)
SearchFailed(call) ==
    /\ previewResults' = IF call.seq = previewSeq THEN None ELSE previewResults
    /\ SearchOver(call)

(* Mutant: every answer is read.                                           *)
SearchTakenAnyway(call) ==
    \/ bodies' = bodies \union {call} /\ UNCHANGED <<previewResults, previewLoading>>
    \/ SearchFailed(call) /\ UNCHANGED bodies

(* The check after the first wait: only the answer of the newest search is *)
(* read further.                                                           *)
SearchTaken(call) ==
    \/ /\ call.seq = previewSeq
       /\ bodies' = bodies \union {call}
       /\ UNCHANGED <<previewResults, previewLoading>>
    \/ /\ call.seq # previewSeq
       /\ UNCHANGED <<bodies, previewResults, previewLoading>>
    \/ SearchFailed(call) /\ UNCHANGED bodies

SearchAnswered(call) ==
    /\ SearchTaken(call)
    /\ searches' = searches \ {call}
    /\ UNCHANGED <<modeVars, textVars, uploads, mailModel, listVars, previewSeq, overtaken,
                   renderVars, acts, crossed>>

(* The second wait is over: the list is replaced without another check. It *)
(* may be empty.                                                           *)
BodyRead(call) ==
    /\ \/ previewResults' \in {call, None} /\ SearchOver(call)
       \/ SearchFailed(call)
    /\ bodies' = bodies \ {call}
    /\ UNCHANGED <<modeVars, textVars, uploads, mailModel, listVars, previewSeq, searches,
                   overtaken, renderVars, acts, crossed>>

pickPreviewRecord ==
    /\ Event /\ tab = "preview" /\ mailModel # None /\ previewResults # None
    /\ previewRecord' = previewResults.model
    /\ renderPreview(previewResults.model)
    /\ UNCHANGED <<modeVars, tab, tipTap, codeView, sourceAutoFormatted, mounts, stray, uploads,
                   mailModel, listVars, searchVars, crossed>>

clearPreviewRecord ==
    /\ Event /\ tab = "preview" /\ previewRecord # None
    /\ previewRecord' = None /\ previewRendered' = None /\ previewError' = FALSE
    /\ UNCHANGED <<modeVars, textVars, uploads, mailModel, listVars, searchVars,
                   previewRendering, renders, crossed>>

-----------------------------------------------------------------------------
(* Tabs. The text of the tab one leaves is stored first; the editor of the *)
(* new tab is brought up to date two frames later. Going to Preview also   *)
(* renders, with the new tab already active.                               *)
setTab(name) ==
    /\ Event /\ ~readonly /\ tab # name
    /\ tab' = name
    /\ IF name = "preview"
         THEN UNCHANGED mounts
         ELSE /\ Len(mounts) < MaxMounts
              /\ mounts' = Append(mounts, [name |-> name, prev |-> tab])
    /\ IF name = "preview" /\ mailModel # None
         THEN renderPreview(previewRecord)
         ELSE /\ html' = Synced(tab)
              /\ UNCHANGED <<previewRendering, previewRendered, previewError, renders>>
    /\ stray' = FALSE
    /\ UNCHANGED <<modeVars, tipTap, codeView, sourceAutoFormatted, uploads, mailModel, listVars,
                   searchVars, previewRecord, crossed>>

ensureWrite(prev) ==
    /\ IF tipTap = None
         THEN tipTap' = Parsed(html) /\ UNCHANGED html
         ELSE IF prev \notin {None, "write"} /\ tipTap # html
         THEN tipTap' = Parsed(html) /\ html' = Parsed(html)
         ELSE UNCHANGED <<tipTap, html>>
    /\ UNCHANGED <<codeView, sourceAutoFormatted>>

(* Mutant: a view that is there already is shown as it was left.           *)
ensureSourceOnce(prev) ==
    /\ UNCHANGED <<tipTap, html, sourceAutoFormatted>>
    /\ codeView' = IF codeView = None THEN html ELSE codeView

(* Mutant: a view is only brought up to date, never mounted.               *)
ensureSourceLater(prev) ==
    /\ UNCHANGED <<tipTap, html, sourceAutoFormatted>>
    /\ codeView' = IF codeView = None THEN None ELSE html

(* A text that TipTap printed is laid out before it is shown.              *)
ensureSource(prev) ==
    /\ UNCHANGED tipTap
    /\ IF codeView = None
         THEN LET format == ~sourceAutoFormatted /\ htmlLooksMinified(html) IN
              /\ html' \in IF format THEN FormattedOrKept(html, "html") ELSE {html}
              /\ codeView' = html'
              /\ sourceAutoFormatted' = (sourceAutoFormatted \/ format)
         ELSE /\ UNCHANGED sourceAutoFormatted
              /\ IF prev \notin {None, "source"}
                   THEN /\ html' \in IF htmlLooksMinified(html)
                                       THEN FormattedOrKept(html, "html") ELSE {html}
                        /\ codeView' = html'
                   ELSE UNCHANGED <<html, codeView>>

(* The callback setTab or init put off. Only init's looks at the tab again. *)
RunMount ==
    /\ alive /\ mounts # <<>>
    /\ mounts' = Tail(mounts)
    /\ LET m == Head(mounts) IN
         IF m.name = "source" THEN ensureSource(m.prev)
         ELSE IF m.name = "write" \/ tab = "write" THEN ensureWrite(m.prev)
         ELSE UNCHANGED <<html, tipTap, codeView, sourceAutoFormatted>>
    /\ UNCHANGED <<modeVars, tab, stray, uploads, mailModel, listVars, searchVars, renderVars,
                   acts, crossed>>

-----------------------------------------------------------------------------
(* Edits. The user only adds: what is missing later, the program lost.     *)

(* Typing on Write, and every command of its toolbar: each ends with       *)
(* html = ed.getHTML(), also a command that changed no content.            *)
WriteEdit ==
    /\ Event /\ tab = "write" /\ tipTap # None
    /\ tipTap' \in {tipTap} \union {Insert(tipTap, t) : t \in Rich}
    /\ html' = tipTap'
    /\ UNCHANGED <<modeVars, tab, codeView, sourceAutoFormatted, mounts, stray, uploads, mailModel,
                   listVars, searchVars, renderVars, crossed>>

SourceEdit ==
    /\ Event /\ tab = "source" /\ codeView # None
    /\ \E t \in Tokens : codeView' = Insert(codeView, t)
    /\ html' = codeView' /\ stray' = FALSE
    /\ UNCHANGED <<modeVars, tab, tipTap, sourceAutoFormatted, mounts, uploads, mailModel,
                   listVars, searchVars, renderVars, crossed>>

(* The variable picker is shown on Source, mounted or not. What it inserts *)
(* is plain text, which both editors hold.                                 *)
insertVariable(t) ==
    /\ Event /\ ~readonly /\ tab = "source" /\ variables # None /\ ~variablesLoading
    /\ IF codeView # None
         THEN codeView' = Insert(codeView, t) /\ html' = codeView' /\ UNCHANGED tipTap
         ELSE IF tipTap # None
         THEN tipTap' = Insert(tipTap, t) /\ html' = tipTap' /\ UNCHANGED codeView
         ELSE html' = Insert(html, t) /\ UNCHANGED <<tipTap, codeView>>
    /\ stray' = FALSE
    /\ UNCHANGED <<modeVars, tab, sourceAutoFormatted, mounts, uploads, mailModel, listVars,
                   searchVars, renderVars, crossed>>

formatSourceHtml ==
    /\ Event /\ tab = "source" /\ codeView # None
    /\ codeView' \in applyFormatToView(codeView, "html")
    /\ html' = codeView' /\ stray' = FALSE
    /\ UNCHANGED <<modeVars, tab, tipTap, sourceAutoFormatted, mounts, uploads, mailModel,
                   listVars, searchVars, renderVars, crossed>>

(* syncAll on its own: any request of the page, the Copy button.           *)
SyncAll ==
    /\ Event /\ html' = Synced(tab)
    /\ stray' = (stray /\ html' = html)
    /\ UNCHANGED <<modeVars, tab, tipTap, codeView, sourceAutoFormatted, mounts, uploads, mailModel,
                   listVars, searchVars, renderVars, crossed>>

(* An image is uploaded and then inserted in the TipTap that was current   *)
(* when the file was chosen, whatever tab is active by then.               *)
handleImageFile ==
    /\ Event /\ tab = "write" /\ tipTap # None /\ uploads < MaxCalls
    /\ uploads' = uploads + 1
    /\ UNCHANGED <<modeVars, textVars, mailModel, listVars, searchVars, renderVars, crossed>>

UploadAnswered ==
    /\ uploads > 0 /\ uploads' = uploads - 1
    /\ \/ UNCHANGED textVars
       \/ /\ tipTap # None
          /\ \E t \in Rich : tipTap' = Insert(tipTap, t)
          /\ html' = tipTap'
          /\ stray' = (tab = "source")
          /\ UNCHANGED <<tab, codeView, sourceAutoFormatted, mounts>>
    /\ UNCHANGED <<modeVars, mailModel, listVars, searchVars, renderVars, acts, crossed>>

(* The fragment is swapped out: the editors go, and with them the refs a   *)
(* callback that is still due would mount into.                            *)
destroy ==
    /\ Event /\ alive' = FALSE
    /\ tipTap' = None /\ codeView' = None
    /\ UNCHANGED <<readonly, html, tab, sourceAutoFormatted, mounts, stray, uploads, mailModel,
                   listVars, searchVars, renderVars, crossed>>

-----------------------------------------------------------------------------
Answer ==
    \/ \E call \in loads : LoadAnswered(call)
    \/ \E call \in searches : SearchAnswered(call)
    \/ \E call \in bodies : BodyRead(call)
    \/ \E call \in renders : RenderAnswered(call)
    \/ UploadAnswered

User ==
    \/ \E name \in Tabs : setTab(name)
    \/ \E model \in OptModel : ComboChange(model)
    \/ PressRender \/ searchPreviewRecords \/ pickPreviewRecord \/ clearPreviewRecord
    \/ WriteEdit \/ SourceEdit \/ formatSourceHtml \/ SyncAll
    \/ \E t \in Rich : insertVariable(t)
    \/ handleImageFile \/ destroy

Next == Answer \/ RunMount \/ User

(* The browser runs its callbacks, the server answers or the call fails.   *)
Fairness ==
    /\ WF_vars(RunMount)
    /\ WF_vars(\E call \in loads : LoadAnswered(call))
    /\ WF_vars(\E call \in searches : SearchAnswered(call))
    /\ WF_vars(\E call \in bodies : BodyRead(call))
    /\ WF_vars(\E call \in renders : RenderAnswered(call))
    /\ WF_vars(UploadAnswered)

Spec == Init /\ [][Next]_vars /\ Fairness

-----------------------------------------------------------------------------
TypeOK ==
    /\ readonly \in BOOLEAN /\ alive \in BOOLEAN
    /\ html \in Doc /\ tab \in Tabs
    /\ tipTap \in OptDoc /\ codeView \in OptDoc /\ sourceAutoFormatted \in BOOLEAN
    /\ mounts \in Seq(Mount) /\ Len(mounts) <= MaxMounts + 1
    /\ uploads \in 0..MaxCalls
    /\ mailModel \in OptModel /\ variables \in OptModel
    /\ variablesLoading \in BOOLEAN /\ loads \subseteq Load
    /\ previewSeq \in 0..MaxSearches /\ previewLoading \in BOOLEAN
    /\ previewResults \in Search \union {None} /\ searches \subseteq Search
    /\ bodies \subseteq Search /\ overtaken \subseteq Search
    /\ previewRecord \in OptModel
    /\ previewRendering \in BOOLEAN /\ previewError \in BOOLEAN
    /\ previewRendered \in [model : Models, record : OptModel] \union {None}
    /\ renders \subseteq Render
    /\ acts \in 0..MaxActs /\ stray \in BOOLEAN /\ crossed \in BOOLEAN

(* What the user sees is what would be posted: once the callbacks have     *)
(* run, the editor of the active tab and html hold the same text (on Write *)
(* up to what TipTap cannot hold), unless an image landed while Source was *)
(* open. And a destroyed component keeps no editor (ensureWrite and        *)
(* ensureSource stop without a mount point).                               *)
EditorsInOrder ==
    /\ alive /\ mounts = <<>> =>
         /\ tab = "write" /\ tipTap # None => tipTap = Parsed(html)
         /\ tab = "source" /\ codeView # None /\ ~stray => codeView = html
    /\ ~alive => tipTap = None /\ codeView = None

(* No step loses a piece of text TipTap can hold: neither switching        *)
(* between Write and Source, nor formatting, nor a request of the page.    *)
(* The losses that do happen are excepted by name: on the way to Preview   *)
(* and on Preview syncAll takes TipTap's old text, before the callback of  *)
(* a switch has run the editors are out of date, and an image that lands   *)
(* on Source is overwritten.                                               *)
EditsStay ==
    [][\/ html.toks \ html'.toks \subseteq Tokens \ Rich
       \/ "preview" \in {tab, tab'} \/ mounts # <<>> \/ stray \/ stray']_vars

(* A list of sample records that is shown without the spinner answers the  *)
(* newest search, however the answers are ordered (the check of            *)
(* _previewSeq after the first await), or a search whose body was already  *)
(* being read when the newest one was sent: nothing is checked after the   *)
(* second await.                                                           *)
NewestSearchWins ==
    previewResults # None =>
        \/ previewLoading \/ previewResults.seq = previewSeq
        \/ previewResults \in overtaken

(* Preview state belongs to the model of the form (the reset in the        *)
(* combo-change handler) as long as no call outlived a change of model:    *)
(* the answers themselves are not checked against the model.               *)
PreviewOfModel ==
    ~crossed =>
        /\ ~variablesLoading => variables \in {None, mailModel}
        /\ previewResults # None => previewResults.model = mailModel
        /\ previewRecord \in {None, mailModel}
        /\ previewRendered # None =>
              previewRendered.model = mailModel /\ previewRendered.record \in {None, mailModel}

(* A tab one chose gets its editor, unless one leaves it first.            *)
TabsMount ==
    /\ (tab = "source" ~> codeView # None \/ tab # "source" \/ ~alive)
    /\ (tab = "write" ~> tipTap # None \/ tab # "write" \/ ~alive)

(* No spinner turns for ever: each has a call behind it that ends it.      *)
SpinnersStop ==
    /\ (previewLoading ~> ~previewLoading)
    /\ (previewRendering ~> ~previewRendering)
    /\ (variablesLoading ~> ~variablesLoading)
=============================================================================
