-------------------------- MODULE MailEditorProofs --------------------------
(***************************************************************************)
(* Proofs about MailEditor, for any texts, models and bounds.              *)
(***************************************************************************)
EXTENDS MailEditor, FiniteSetTheorems, SequenceTheorems, TLAPS

(* What the texts are. TipTap's is always one it has parsed.               *)
TextInv ==
    /\ html \in Doc /\ codeView \in OptDoc /\ tipTap \in OptDoc
    /\ tipTap # None => Parsed(tipTap) = tipTap
    /\ tab \in Tabs /\ mounts \in Seq(Mount)

(* The callback that is due last is for the active tab, and the one of     *)
(* init finds no TipTap.                                                   *)
Due(m) ==
    /\ m.name = "init" => Len(mounts) = 1 /\ tipTap = None /\ tab # "source"
    /\ m.name # "init" => m.prev \notin {None, m.name} /\ tab \in {m.name, "preview"}
DueInv == mounts # <<>> => Due(mounts[Len(mounts)])

(* Once it has run, the active tab has its editor with the text in it.     *)
SettledInv ==
    /\ alive /\ mounts = <<>> =>
         /\ tab = "write" => tipTap # None /\ tipTap = Parsed(html)
         /\ tab = "source" => codeView # None /\ (stray \/ codeView = html)
    /\ ~alive => tipTap = None /\ codeView = None

EditorInv == TextInv /\ DueInv /\ SettledInv

(* The calls in flight are about the model of the form.                    *)
CallsInv ==
    ~crossed =>
        /\ \A call \in loads \union searches \union bodies \union renders : call.model = mailModel
        /\ \A call \in renders : call.record \in {None, mailModel}

PreviewInv == PreviewOfModel /\ CallsInv

(* A body that is being read is of the newest search, or was being read    *)
(* when that one was sent.                                                 *)
BodiesInv == \A call \in bodies : call.seq = previewSeq \/ call \in overtaken

SearchInv == NewestSearchWins /\ BodiesInv
-----------------------------------------------------------------------------
(* Texts.                                                                  *)

(* Parsing twice is parsing once.                                          *)
LEMMA ParsedTwice ==
    ASSUME NEW doc \in Doc
    PROVE  Parsed(doc) \in Doc /\ Parsed(Parsed(doc)) = Parsed(doc)
BY FieldAssumption DEF Parsed, Doc

(* What TipTap can hold can be inserted in what it has parsed.             *)
LEMMA InsertParsed ==
    ASSUME NEW doc \in Doc, Parsed(doc) = doc, NEW t \in Rich
    PROVE  /\ Insert(doc, t) \in Doc /\ Parsed(Insert(doc, t)) = Insert(doc, t)
           /\ doc.toks \subseteq Insert(doc, t).toks
<1>1. t \in Tokens /\ doc.toks = doc.toks \intersect Rich /\ doc.flat = TRUE
  BY FieldAssumption DEF Parsed
<1>2. /\ Insert(doc, t) \in Doc
      /\ Insert(doc, t).toks = doc.toks \union {t} /\ Insert(doc, t).flat = doc.flat
  BY <1>1 DEF Insert, Doc
<1> DEFINE new == Insert(doc, t)
<1> HIDE DEF new
<1>3. new.toks \intersect Rich = new.toks /\ new.flat = TRUE
  BY <1>1, <1>2 DEF new
<1>4. new = [toks |-> new.toks, flat |-> new.flat]
  BY <1>2 DEF new, Doc
<1>5. Parsed(new) = new
  BY <1>3, <1>4 DEF Parsed
<1>. QED  BY <1>2, <1>5 DEF new

(* Inserting adds.                                                         *)
LEMMA InsertAdds ==
    ASSUME NEW doc \in Doc, NEW t \in Tokens
    PROVE  Insert(doc, t) \in Doc /\ doc.toks \subseteq Insert(doc, t).toks
BY DEF Insert, Doc

(* Formatting keeps every piece.                                           *)
LEMMA FormatKeeps ==
    ASSUME NEW doc \in Doc, NEW lang, NEW f \in FormattedOrKept(doc, lang)
    PROVE  f \in Doc /\ f.toks = doc.toks
<1>1. Tidy(doc) \in Doc /\ Tidy(doc).toks = doc.toks
  BY DEF Tidy, Doc
<1>2. f \in {doc, Tidy(doc)}
  BY FieldAssumption, <1>1 DEF FormattedOrKept, formatSource
<1>. QED  BY <1>1, <1>2

(* syncAll leaves a text; where the active tab has its editor, that one's. *)
LEMMA SyncedIsDoc ==
    ASSUME TextInv, NEW t \in Tabs
    PROVE  /\ Synced(t) \in Doc
           /\ t = "source" /\ codeView # None => Synced(t) = codeView
           /\ t = "write" /\ tipTap # None => Synced(t) = tipTap
BY DEF TextInv, Synced, OptDoc, Tabs

(* Callbacks: the last of those due.                                       *)
LEMMA AppendDue ==
    ASSUME mounts \in Seq(Mount), NEW m \in Mount
    PROVE  LET s == Append(mounts, m)
           IN  s \in Seq(Mount) /\ s # <<>> /\ s[Len(s)] = m
BY AppendProperties, LenProperties, EmptySeq

LEMMA TailDue ==
    ASSUME mounts \in Seq(Mount), mounts # <<>>
    PROVE  /\ Head(mounts) \in Mount
           /\ Tail(mounts) \in Seq(Mount)
           /\ Len(mounts) = 1 => Tail(mounts) = <<>>
           /\ Tail(mounts) = <<>> => Head(mounts) = mounts[Len(mounts)]
           /\ Tail(mounts) # <<>> =>
                Len(mounts) # 1 /\ Tail(mounts)[Len(Tail(mounts))] = mounts[Len(mounts)]
<1>1. Len(mounts) \in Nat /\ mounts \in [1..Len(mounts) -> Mount] /\ Len(mounts) # 0
  BY LenProperties, EmptySeq
<1>2. /\ Tail(mounts) \in Seq(Mount) /\ Head(mounts) \in Mount /\ Head(mounts) = mounts[1]
      /\ Len(Tail(mounts)) = Len(mounts) - 1
      /\ \A i \in 1..Len(Tail(mounts)) : Tail(mounts)[i] = mounts[i + 1]
  BY <1>1, HeadTailProperties
<1>3. Tail(mounts) = <<>> <=> Len(Tail(mounts)) = 0
  BY <1>2, EmptySeq
<1>4. ASSUME Tail(mounts) # <<>>
      PROVE  Len(mounts) # 1 /\ Tail(mounts)[Len(Tail(mounts))] = mounts[Len(mounts)]
  <2>1. Len(Tail(mounts)) \in 1..Len(Tail(mounts)) /\ Len(Tail(mounts)) + 1 = Len(mounts)
    BY <1>1, <1>2, <1>3, <1>4
  <2>. QED  BY <1>1, <1>2, <2>1
<1>. QED  BY <1>1, <1>2, <1>3, <1>4
-----------------------------------------------------------------------------
(* The editors.                                                            *)
EditorVars == <<alive, html, tab, tipTap, codeView, mounts, stray>>

LEMMA EditorKept ==
    ASSUME EditorInv, UNCHANGED EditorVars
    PROVE  EditorInv'
BY DEF EditorInv, TextInv, DueInv, Due, SettledInv, EditorVars

(* A form that opens on any text, in either mode, is in order.             *)
LEMMA EditorInit == Init => EditorInv
<1>1. SUFFICES ASSUME Init PROVE EditorInv
  OBVIOUS
<1>2. /\ html \in Doc /\ codeView = None /\ tipTap = None /\ alive = TRUE
      /\ tab = IF readonly THEN "preview" ELSE "write"
      /\ mounts = IF readonly THEN <<>> ELSE <<[name |-> "init", prev |-> None]>>
  BY <1>1, EditorAssumption DEF Init
<1>3. CASE readonly
  <2>1. mounts = <<>> /\ tab = "preview"
    BY <1>2, <1>3
  <2>2. mounts \in Seq(Mount)
    BY <2>1, EmptySeq
  <2>. QED  BY <1>2, <2>1, <2>2 DEF EditorInv, TextInv, DueInv, SettledInv, OptDoc, Tabs
<1>4. CASE ~readonly
  <2> DEFINE m == [name |-> "init", prev |-> None]
  <2>1. mounts = <<m>> /\ tab = "write" /\ m \in Mount /\ m.name = "init"
    BY <1>2, <1>4 DEF Mount
  <2> HIDE DEF m
  <2>2. mounts \in Seq(Mount) /\ Len(mounts) = 1 /\ mounts[1] = m /\ mounts # <<>>
    BY <2>1
  <2>3. DueInv
    BY <1>2, <2>1, <2>2 DEF DueInv, Due
  <2>. QED  BY <1>2, <2>1, <2>2, <2>3 DEF EditorInv, TextInv, SettledInv, OptDoc, Tabs
<1>. QED  BY <1>3, <1>4

(* Going to another tab makes a callback due for it.                       *)
LEMMA SetTabInOrder ==
    ASSUME EditorInv, NEW name \in Tabs, setTab(name)
    PROVE  EditorInv'
<1>1. /\ alive /\ tab \in Tabs /\ tab # name /\ tab' = name
      /\ UNCHANGED <<alive, tipTap, codeView>>
  BY DEF setTab, Event, modeVars, EditorInv, TextInv
<1>2. html' \in Doc
  <2>1. html' \in {Synced(tab), Synced("preview"), html}
    BY DEF setTab, renderPreview
  <2>. QED  BY <1>1, <2>1, SyncedIsDoc DEF EditorInv, TextInv, Tabs
<1>3. CASE name = "preview"
  <2>1. mounts' = mounts
    BY <1>3 DEF setTab
  <2>. QED  BY <1>1, <1>2, <1>3, <2>1 DEF EditorInv, TextInv, DueInv, Due, SettledInv, Tabs
<1>4. CASE name # "preview"
  <2> DEFINE m == [name |-> name, prev |-> tab]
  <2>1. mounts' = Append(mounts, m)
    BY <1>4 DEF setTab
  <2>2. m \in Mount /\ m.name = name /\ m.prev = tab
    BY <1>1, <1>4 DEF Mount, Tabs
  <2> HIDE DEF m
  <2>3. mounts' \in Seq(Mount) /\ mounts' # <<>> /\ mounts'[Len(mounts')] = m
    BY <2>1, <2>2, AppendDue DEF EditorInv, TextInv
  <2>4. DueInv'
    <3>1. name # "init" /\ tab # None
      BY <1>1, EditorAssumption DEF Tabs
    <3>. QED  BY <1>1, <2>2, <2>3, <3>1 DEF DueInv, Due
  <2>. QED  BY <1>1, <1>2, <2>3, <2>4 DEF EditorInv, TextInv, SettledInv
<1>. QED  BY <1>3, <1>4

(* What ensureWrite leaves.                                                *)
LEMMA EnsureWriteGives ==
    ASSUME TextInv, NEW prev, ensureWrite(prev)
    PROVE  /\ html' \in Doc /\ codeView' \in OptDoc /\ tipTap' \in OptDoc
           /\ tipTap' # None /\ Parsed(tipTap') = tipTap'
           /\ tipTap = None \/ prev \notin {None, "write"} => tipTap' = Parsed(html')
<1>1. Parsed(html) \in Doc /\ Parsed(Parsed(html)) = Parsed(html) /\ None \notin Doc
  BY ParsedTwice, FieldAssumption DEF TextInv
<1>2. CASE tipTap = None
  BY <1>1, <1>2 DEF ensureWrite, TextInv, OptDoc
<1>3. CASE tipTap # None /\ prev \notin {None, "write"} /\ tipTap # html
  BY <1>1, <1>3 DEF ensureWrite, TextInv, OptDoc
<1>4. CASE tipTap # None /\ ~(prev \notin {None, "write"} /\ tipTap # html)
  BY <1>1, <1>4 DEF ensureWrite, TextInv, OptDoc
<1>. QED  BY <1>2, <1>3, <1>4

(* What ensureSource leaves.                                               *)
LEMMA EnsureSourceGives ==
    ASSUME TextInv, NEW prev, ensureSource(prev)
    PROVE  /\ html' \in Doc /\ codeView' \in Doc /\ tipTap' = tipTap
           /\ prev \notin {None, "source"} => codeView' = html'
<1>1. html \in Doc /\ codeView \in OptDoc
  BY DEF TextInv
<1>2. html' \in FormattedOrKept(html, "html") \union {html}
  BY DEF ensureSource
<1>3. html' \in Doc
  BY <1>1, <1>2, FormatKeeps
<1>4. CASE codeView = None \/ prev \notin {None, "source"}
  <2>1. codeView' = html'
    BY <1>4 DEF ensureSource
  <2>. QED  BY <1>3, <2>1 DEF ensureSource
<1>5. CASE ~(codeView = None \/ prev \notin {None, "source"})
  <2>1. codeView' = codeView /\ codeView \in Doc
    BY <1>1, <1>5 DEF ensureSource, OptDoc
  <2>. QED  BY <1>3, <1>5, <2>1 DEF ensureSource
<1>. QED  BY <1>4, <1>5

(* A callback, the last one for the active tab.                            *)
LEMMA RunMountInOrder ==
    ASSUME EditorInv, RunMount
    PROVE  EditorInv'
<1> DEFINE m == Head(mounts)
           due == mounts[Len(mounts)]
<1>1. /\ alive /\ mounts # <<>> /\ mounts' = Tail(mounts) /\ mounts \in Seq(Mount)
      /\ UNCHANGED <<alive, tab, stray>>
  BY DEF RunMount, modeVars, EditorInv, TextInv
<1>2. /\ m \in Mount /\ mounts' \in Seq(Mount)
      /\ mounts' = <<>> => m = due
      /\ mounts' # <<>> => Len(mounts) # 1 /\ mounts'[Len(mounts')] = due
  BY <1>1, TailDue
<1>3. Due(due) /\ TextInv
  BY <1>1 DEF EditorInv, DueInv
<1> HIDE DEF due
<1>4. \/ m.name = "source" /\ ensureSource(m.prev)
      \/ m.name # "source" /\ (m.name = "write" \/ tab = "write") /\ ensureWrite(m.prev)
      \/ m.name = "init" /\ tab # "write" /\ UNCHANGED <<html, tipTap, codeView>>
  BY <1>2 DEF RunMount, Mount
<1> HIDE DEF m
<1>5. TextInv'
  <2>1. CASE m.name = "source" /\ ensureSource(m.prev)
    BY <1>1, <1>2, <1>3, <2>1, EnsureSourceGives DEF TextInv, OptDoc
  <2>2. CASE ensureWrite(m.prev)
    BY <1>1, <1>2, <1>3, <2>2, EnsureWriteGives DEF TextInv
  <2>3. CASE UNCHANGED <<html, tipTap, codeView>>
    BY <1>1, <1>2, <1>3, <2>3 DEF TextInv
  <2>. QED  BY <1>4, <2>1, <2>2, <2>3
<1>6. DueInv'
  <2>1. CASE mounts' = <<>>
    BY <2>1 DEF DueInv
  <2>2. CASE mounts' # <<>>
    <3>1. due.name # "init" /\ due.prev \notin {None, due.name}
          /\ tab \in {due.name, "preview"}
      BY <1>2, <1>3, <2>2 DEF Due
    <3>2. mounts'[Len(mounts')] = due /\ tab' = tab
      BY <1>1, <1>2, <2>2
    <3>. QED  BY <3>1, <3>2 DEF DueInv, Due
  <2>. QED  BY <2>1, <2>2
<1>7. SettledInv'
  <2>1. SUFFICES ASSUME mounts' = <<>>
                 PROVE  /\ tab = "write" => tipTap' # None /\ tipTap' = Parsed(html')
                        /\ tab = "source" => codeView' # None /\ codeView' = html'
    BY <1>1 DEF SettledInv
  <2>2. Due(m)
    BY <1>2, <1>3, <2>1
  <2>3. CASE tab = "write"
    <3>1. m.name # "source"
      BY <2>2, <2>3 DEF Due
    <3>2. ensureWrite(m.prev)
      BY <1>4, <2>3, <3>1
    <3>3. tipTap = None \/ m.prev \notin {None, "write"}
      BY <2>2, <2>3 DEF Due
    <3>. QED  BY <1>3, <2>3, <3>2, <3>3, EnsureWriteGives
  <2>4. CASE tab = "source"
    <3>1. m.name = "source" /\ m.prev \notin {None, "source"}
      BY <2>2, <2>4 DEF Due
    <3>2. ensureSource(m.prev)
      BY <1>4, <3>1
    <3>. QED  BY <1>3, <2>4, <3>1, <3>2, EnsureSourceGives, FieldAssumption
  <2>. QED  BY <2>3, <2>4
<1>. QED  BY <1>5, <1>6, <1>7 DEF EditorInv

(* An edit of the text in TipTap, which puts it in html.                   *)
LEMMA TipTapEdited ==
    ASSUME EditorInv, tipTap # None, tipTap' \in Doc, Parsed(tipTap') = tipTap',
           html' = tipTap', UNCHANGED <<alive, tab, codeView, mounts>>,
           tab = "source" /\ codeView # None => stray'
    PROVE  EditorInv'
BY FieldAssumption DEF EditorInv, TextInv, DueInv, Due, SettledInv, OptDoc

(* An edit of the text in CodeMirror, which puts it in html.               *)
LEMMA CodeViewEdited ==
    ASSUME EditorInv, tab = "source", codeView # None, alive, codeView' \in Doc,
           html' = codeView', UNCHANGED <<alive, tab, tipTap, mounts>>
    PROVE  EditorInv'
BY FieldAssumption DEF EditorInv, TextInv, DueInv, Due, SettledInv, OptDoc

(* Every step keeps the editors in order.                                  *)
LEMMA EditorNext ==
    ASSUME EditorInv, [Next]_vars
    PROVE  EditorInv'
<1> USE DEF textVars, listVars, searchVars, renderVars, modeVars
<1>0. TextInv /\ html \in Doc /\ tab \in Tabs /\ tipTap \in Doc \union {None}
      /\ codeView \in Doc \union {None}
      /\ (tipTap # None => Parsed(tipTap) = tipTap)
  BY DEF EditorInv, TextInv, OptDoc
<1>1. ASSUME UNCHANGED EditorVars
      PROVE  EditorInv'
  BY <1>1, EditorKept
<1>2. CASE (\E call \in loads : LoadAnswered(call)) \/ (\E call \in searches : SearchAnswered(call))
           \/ (\E call \in bodies : BodyRead(call)) \/ (\E call \in renders : RenderAnswered(call))
  BY <1>1, <1>2 DEF LoadAnswered, SearchAnswered, BodyRead, RenderAnswered, EditorVars
<1>3. CASE UploadAnswered
  <2>1. CASE UNCHANGED textVars
    BY <1>1, <1>3, <2>1 DEF UploadAnswered, EditorVars
  <2>2. CASE ~UNCHANGED textVars
    <3>1. PICK t \in Rich : /\ tipTap # None /\ tipTap' = Insert(tipTap, t) /\ html' = tipTap'
                            /\ stray' = (tab = "source")
                            /\ UNCHANGED <<alive, tab, codeView, mounts>>
      BY <1>3, <2>2 DEF UploadAnswered
    <3>2. tipTap' \in Doc /\ Parsed(tipTap') = tipTap'
      BY <1>0, <3>1, InsertParsed
    <3>. QED  BY <3>1, <3>2, TipTapEdited
  <2>. QED  BY <2>1, <2>2
<1>4. CASE RunMount
  BY <1>4, RunMountInOrder
<1>5. ASSUME NEW name \in Tabs, setTab(name)
      PROVE  EditorInv'
  BY <1>5, SetTabInOrder
<1>6. ASSUME NEW model \in OptModel, ComboChange(model)
      PROVE  EditorInv'
  BY <1>1, <1>6 DEF ComboChange, EditorVars
<1>7. CASE PressRender \/ pickPreviewRecord
  <2>1. /\ tab = "preview" /\ UNCHANGED <<alive, tab, tipTap, codeView, mounts, stray>>
        /\ html' \in {html, Synced("preview")}
    BY <1>7 DEF PressRender, pickPreviewRecord, renderPreview
  <2>2. html' \in Doc
    BY <1>0, <2>1, SyncedIsDoc DEF Tabs
  <2>. QED  BY <2>1, <2>2 DEF EditorInv, TextInv, DueInv, Due, SettledInv
<1>8. CASE searchPreviewRecords \/ clearPreviewRecord
  BY <1>1, <1>8 DEF searchPreviewRecords, clearPreviewRecord, EditorVars
<1>9. CASE WriteEdit
  <2>1. /\ tipTap # None /\ html' = tipTap' /\ tab = "write"
        /\ UNCHANGED <<alive, tab, codeView, mounts>>
        /\ tipTap' \in {tipTap} \union {Insert(tipTap, t) : t \in Rich}
    BY <1>9 DEF WriteEdit
  <2>2. tipTap' \in Doc /\ Parsed(tipTap') = tipTap'
    BY <1>0, <2>1, InsertParsed
  <2>. QED  BY <2>1, <2>2, TipTapEdited
<1>10. CASE SourceEdit \/ formatSourceHtml
  <2>1. /\ tab = "source" /\ codeView # None /\ html' = codeView' /\ alive
        /\ UNCHANGED <<alive, tab, tipTap, mounts>>
    BY <1>10 DEF SourceEdit, formatSourceHtml, Event
  <2>2. codeView' \in Doc
    <3>1. CASE SourceEdit
      BY <1>0, <2>1, <3>1, InsertAdds DEF SourceEdit
    <3>2. CASE formatSourceHtml
      BY <1>0, <2>1, <3>2, FormatKeeps DEF formatSourceHtml, applyFormatToView
    <3>. QED  BY <1>10, <3>1, <3>2
  <2>. QED  BY <2>1, <2>2, CodeViewEdited
<1>11. CASE SyncAll
  <2>1. UNCHANGED <<alive, tab, tipTap, codeView, mounts>> /\ html' = Synced(tab)
        /\ stray' = (stray /\ html' = html)
    BY <1>11 DEF SyncAll
  <2>2. html' \in Doc
    BY <1>0, <2>1, SyncedIsDoc
  <2>3. SettledInv'
    <3>1. tab = "source" /\ codeView # None => html' = codeView
      BY <1>0, <2>1, SyncedIsDoc
    <3>2. tab = "write" /\ tipTap # None => html' = tipTap
      BY <1>0, <2>1, SyncedIsDoc
    <3>. QED  BY <1>0, <2>1, <3>1, <3>2 DEF EditorInv, SettledInv
  <2>. QED  BY <2>1, <2>2, <2>3 DEF EditorInv, TextInv, DueInv, Due
<1>12. ASSUME NEW t \in Rich, insertVariable(t)
       PROVE  EditorInv'
  <2>1. tab = "source" /\ UNCHANGED <<alive, tab, mounts>> /\ alive /\ stray' = FALSE
    BY <1>12 DEF insertVariable, Event
  <2>2. CASE codeView # None
    <3>1. codeView' = Insert(codeView, t) /\ html' = codeView' /\ tipTap' = tipTap
      BY <1>12, <2>2 DEF insertVariable
    <3>2. codeView' \in Doc
      BY <1>0, <2>2, <3>1, FieldAssumption, InsertAdds
    <3>. QED  BY <2>1, <2>2, <3>1, <3>2, CodeViewEdited
  <2>3. CASE codeView = None /\ tipTap # None
    <3>1. tipTap' = Insert(tipTap, t) /\ html' = tipTap' /\ codeView' = codeView
      BY <1>12, <2>3 DEF insertVariable
    <3>2. tipTap' \in Doc /\ Parsed(tipTap') = tipTap'
      BY <1>0, <2>3, <3>1, InsertParsed
    <3>. QED  BY <2>1, <2>3, <3>1, <3>2, TipTapEdited
  <2>4. CASE codeView = None /\ tipTap = None
    <3>1. html' = Insert(html, t) /\ tipTap' = tipTap /\ codeView' = codeView
      BY <1>12, <2>4 DEF insertVariable
    <3>2. html' \in Doc
      BY <1>0, <3>1, FieldAssumption, InsertAdds
    <3>. QED  BY <2>1, <2>4, <3>1, <3>2 DEF EditorInv, TextInv, DueInv, Due, SettledInv
  <2>. QED  BY <2>2, <2>3, <2>4
<1>13. CASE handleImageFile
  BY <1>1, <1>13 DEF handleImageFile, EditorVars
<1>14. CASE destroy
  BY <1>14, FieldAssumption DEF destroy, EditorInv, TextInv, DueInv, Due, SettledInv, OptDoc
<1>15. CASE UNCHANGED vars
  BY <1>1, <1>15 DEF vars, EditorVars
<1>. QED
  BY <1>2, <1>3, <1>4, <1>5, <1>6, <1>7, <1>8, <1>9, <1>10, <1>11, <1>12, <1>13, <1>14, <1>15
     DEF Next, Answer, User

LEMMA EditorsAlwaysOk == Spec => []EditorInv
BY EditorInit, EditorNext, PTL DEF Spec
-----------------------------------------------------------------------------
(* The preview.                                                            *)
PreviewVars == <<mailModel, listVars, previewResults, searches, bodies,
                 previewRecord, previewRendered, renders, crossed>>

LEMMA PreviewKept ==
    ASSUME PreviewInv, UNCHANGED PreviewVars
    PROVE  PreviewInv'
BY DEF PreviewInv, PreviewOfModel, CallsInv, PreviewVars, listVars

LEMMA PreviewInit == Init => PreviewInv
BY DEF Init, PreviewInv, PreviewOfModel, CallsInv

(* A call to render is about the model of the form.                        *)
LEMMA RenderInOrder ==
    ASSUME PreviewInv, NEW record, renderPreview(record),
           ~crossed => record \in {None, mailModel} /\ previewRecord' \in {None, mailModel},
           UNCHANGED <<mailModel, listVars, previewResults, searches, bodies, crossed>>
    PROVE  PreviewInv'
<1>1. previewRendered' = previewRendered
  BY DEF renderPreview
<1>2. /\ renders \subseteq renders'
      /\ \A call \in renders' \ renders : call.model = mailModel /\ call.record = record
  BY DEF renderPreview
<1>. QED  BY <1>1, <1>2 DEF PreviewInv, PreviewOfModel, CallsInv, listVars

(* Every step keeps the preview in order.                                  *)
LEMMA PreviewNext ==
    ASSUME PreviewInv, [Next]_vars
    PROVE  PreviewInv'
<1> USE DEF textVars, listVars, searchVars, renderVars, modeVars
<1>1. ASSUME UNCHANGED PreviewVars
      PROVE  PreviewInv'
  BY <1>1, PreviewKept
<1>2. ASSUME NEW call \in loads, LoadAnswered(call)
      PROVE  PreviewInv'
  <2>1. /\ variables' \in {call.model, None} /\ loads' = loads \ {call}
        /\ UNCHANGED <<mailModel, previewResults, searches, bodies, previewRecord, previewRendered,
                       renders, crossed>>
    BY <1>2 DEF LoadAnswered
  <2>. QED  BY <2>1 DEF PreviewInv, PreviewOfModel, CallsInv
<1>3. ASSUME NEW call \in searches \union bodies, SearchAnswered(call) \/ BodyRead(call)
      PROVE  PreviewInv'
  <2>1. /\ previewResults' \in {call, None, previewResults}
        /\ searches' \subseteq searches /\ bodies' \subseteq bodies \union {call}
        /\ UNCHANGED <<mailModel, variables, variablesLoading, loads, previewRecord,
                       previewRendered, renders, crossed>>
    BY <1>3 DEF SearchAnswered, SearchTaken, BodyRead, SearchFailed
  <2>. QED  BY <2>1 DEF PreviewInv, PreviewOfModel, CallsInv
<1>4. ASSUME NEW call \in renders, RenderAnswered(call)
      PROVE  PreviewInv'
  <2>1. /\ previewRendered' \in {[model |-> call.model, record |-> call.record], None}
        /\ renders' = renders \ {call}
        /\ UNCHANGED <<mailModel, listVars, previewResults, searches, bodies,
                       previewRecord, crossed>>
    BY <1>4 DEF RenderAnswered
  <2>. QED  BY <2>1 DEF PreviewInv, PreviewOfModel, CallsInv
<1>5. ASSUME NEW model \in OptModel, ComboChange(model)
      PROVE  PreviewInv'
  <2>1. /\ mailModel' = model /\ ResetPreview
        /\ crossed' = (crossed \/ loads \union searches \union bodies \union renders # {})
        /\ UNCHANGED <<searches, bodies, renders>> /\ loadVariables(model)
    BY <1>5 DEF ComboChange
  <2>2. SUFFICES ASSUME ~crossed' PROVE PreviewInv'
    BY DEF PreviewInv, PreviewOfModel, CallsInv
  <2>3. searches' = {} /\ bodies' = {} /\ renders' = {} /\ loads = {}
    BY <2>1, <2>2
  <2>4. \A call \in loads' : call.model = model
    BY <2>1, <2>3 DEF loadVariables
  <2>5. ~variablesLoading' => variables' \in {None, model}
    BY <2>1 DEF loadVariables
  <2>. QED
    BY <2>1, <2>3, <2>4, <2>5 DEF PreviewInv, PreviewOfModel, CallsInv, ResetPreview
<1>6. ASSUME NEW name \in Tabs, setTab(name)
      PROVE  PreviewInv'
  <2>1. UNCHANGED <<mailModel, listVars, previewResults, searches, bodies,
                    previewRecord, crossed>>
    BY <1>6 DEF setTab
  <2>2. renderPreview(previewRecord) \/ UNCHANGED <<previewRendered, renders>>
    BY <1>6 DEF setTab
  <2>3. CASE renderPreview(previewRecord)
    BY <2>1, <2>3, RenderInOrder DEF PreviewInv, PreviewOfModel
  <2>. QED  BY <1>1, <2>1, <2>2, <2>3 DEF PreviewVars
<1>7. CASE PressRender
  <2>1. /\ renderPreview(previewRecord)
        /\ UNCHANGED <<mailModel, listVars, previewResults, searches, bodies,
                       previewRecord, crossed>>
    BY <1>7 DEF PressRender
  <2>. QED  BY <2>1, RenderInOrder DEF PreviewInv, PreviewOfModel
<1>8. CASE pickPreviewRecord
  <2>1. /\ renderPreview(previewResults.model) /\ previewResults # None
        /\ previewRecord' = previewResults.model
        /\ UNCHANGED <<mailModel, listVars, previewResults, searches, bodies,
                       crossed>>
    BY <1>8 DEF pickPreviewRecord
  <2>. QED  BY <2>1, RenderInOrder DEF PreviewInv, PreviewOfModel
<1>9. CASE searchPreviewRecords
  <2>1. /\ searches' = searches \union {[seq |-> previewSeq + 1, model |-> mailModel]}
        /\ UNCHANGED <<mailModel, variables, variablesLoading, loads, previewResults, bodies,
                       previewRecord, previewRendered, renders, crossed>>
    BY <1>9 DEF searchPreviewRecords
  <2>. QED  BY <2>1 DEF PreviewInv, PreviewOfModel, CallsInv
<1>10. CASE clearPreviewRecord
  <2>1. /\ previewRecord' = None /\ previewRendered' = None
        /\ UNCHANGED <<mailModel, listVars, previewResults, searches, bodies,
                       renders, crossed>>
    BY <1>10 DEF clearPreviewRecord
  <2>. QED  BY <2>1 DEF PreviewInv, PreviewOfModel, CallsInv
<1>11. CASE \/ UploadAnswered \/ RunMount \/ WriteEdit \/ SourceEdit \/ formatSourceHtml
            \/ SyncAll \/ handleImageFile \/ destroy \/ \E t \in Rich : insertVariable(t)
  BY <1>1, <1>11 DEF UploadAnswered, RunMount, WriteEdit, SourceEdit, formatSourceHtml, SyncAll,
     handleImageFile, destroy, insertVariable, PreviewVars
<1>12. CASE UNCHANGED vars
  BY <1>1, <1>12 DEF vars, PreviewVars
<1>. QED
  BY <1>2, <1>3, <1>4, <1>5, <1>6, <1>7, <1>8, <1>9, <1>10, <1>11, <1>12 DEF Next, Answer, User

(* The list of sample records, and what is still being read of answers.    *)
LEMMA SearchNext ==
    ASSUME SearchInv, [Next]_vars
    PROVE  SearchInv'
<1> USE DEF textVars, listVars, searchVars, renderVars, modeVars
<1>1. ASSUME UNCHANGED searchVars
      PROVE  SearchInv'
  BY <1>1 DEF SearchInv, NewestSearchWins, BodiesInv
<1>2. ASSUME NEW call \in searches, SearchAnswered(call)
      PROVE  SearchInv'
  <2>1. SearchTaken(call) /\ UNCHANGED <<previewSeq, overtaken>>
    BY <1>2 DEF SearchAnswered
  <2>2. BodiesInv'
    BY <2>1 DEF SearchTaken, SearchInv, BodiesInv
  <2>3. NewestSearchWins'
    BY <2>1 DEF SearchTaken, SearchFailed, SearchOver, SearchInv, NewestSearchWins
  <2>. QED  BY <2>2, <2>3 DEF SearchInv
<1>3. ASSUME NEW call \in bodies, BodyRead(call)
      PROVE  SearchInv'
  <2>1. /\ \/ previewResults' \in {call, None} /\ SearchOver(call)
           \/ SearchFailed(call)
        /\ bodies' = bodies \ {call} /\ UNCHANGED <<previewSeq, overtaken>>
    BY <1>3 DEF BodyRead
  <2>2. call.seq = previewSeq \/ call \in overtaken
    BY DEF SearchInv, BodiesInv
  <2>3. NewestSearchWins'
    BY <2>1, <2>2 DEF SearchFailed, SearchOver, SearchInv, NewestSearchWins
  <2>. QED  BY <2>1, <2>3 DEF SearchInv, BodiesInv
<1>4. ASSUME NEW model \in OptModel, ComboChange(model)
      PROVE  SearchInv'
  BY <1>4 DEF ComboChange, ResetPreview, SearchInv, NewestSearchWins, BodiesInv
<1>5. ASSUME NEW call, LoadAnswered(call) \/ RenderAnswered(call)
      PROVE  SearchInv'
  BY <1>1, <1>5 DEF LoadAnswered, RenderAnswered
<1>6. ASSUME NEW name, setTab(name)
      PROVE  SearchInv'
  BY <1>1, <1>6 DEF setTab
<1>7. CASE PressRender \/ pickPreviewRecord \/ clearPreviewRecord
  BY <1>1, <1>7 DEF PressRender, pickPreviewRecord, clearPreviewRecord
<1>8. CASE \/ UploadAnswered \/ RunMount \/ WriteEdit \/ SourceEdit \/ formatSourceHtml
           \/ SyncAll \/ handleImageFile \/ destroy \/ \E t \in Rich : insertVariable(t)
  BY <1>1, <1>8 DEF UploadAnswered, RunMount, WriteEdit, SourceEdit, formatSourceHtml, SyncAll,
     handleImageFile, destroy, insertVariable
<1>9. CASE UNCHANGED vars
  BY <1>1, <1>9 DEF vars
<1>10. CASE searchPreviewRecords
  BY <1>10 DEF searchPreviewRecords, SearchInv, NewestSearchWins, BodiesInv
<1>. QED
  BY <1>2, <1>3, <1>4, <1>5, <1>6, <1>7, <1>8, <1>9, <1>10 DEF Next, Answer, User
-----------------------------------------------------------------------------
(* Once the callbacks have run, the editor of the active tab shows what    *)
(* would be posted.                                                        *)
THEOREM EditorsStayInOrder == Spec => []EditorsInOrder
<1>1. EditorInv => EditorsInOrder
  BY DEF EditorInv, SettledInv, EditorsInOrder
<1>. QED  BY <1>1, EditorsAlwaysOk, PTL

(* The list of sample records answers the newest search, or one whose body *)
(* was already being read when the newest search was sent.                 *)
THEOREM NewestSearchAlwaysWins == Spec => []NewestSearchWins
<1>1. Init => SearchInv
  BY DEF Init, SearchInv, NewestSearchWins, BodiesInv
<1>2. SearchInv => NewestSearchWins
  BY DEF SearchInv
<1>. QED  BY <1>1, <1>2, SearchNext, PTL DEF Spec

(* The preview belongs to the model unless a call outlived its model.      *)
THEOREM PreviewStaysOfModel == Spec => []PreviewOfModel
<1>1. PreviewInv => PreviewOfModel
  BY DEF PreviewInv
<1>. QED  BY <1>1, PreviewInit, PreviewNext, PTL DEF Spec

(* No step loses a piece of text TipTap can hold, but in the ways excepted *)
(* by name.                                                                *)
THEOREM EditsAlwaysStay == Spec => EditsStay
<1> DEFINE Kept == html.toks \ html'.toks \subseteq Tokens \ Rich
           Excepted == "preview" \in {tab, tab'} \/ mounts # <<>> \/ stray \/ stray'
<1>1. ASSUME EditorInv, Next, ~Excepted
      PROVE  Kept
  <2> USE DEF textVars, listVars, searchVars, renderVars, modeVars
  <2>1. html \in Doc /\ tipTap \in Doc \union {None} /\ codeView \in Doc \union {None}
        /\ (tipTap # None => Parsed(tipTap) = tipTap) /\ TextInv
    BY <1>1 DEF EditorInv, TextInv, OptDoc
  <2>2. alive => /\ tab = "write" => tipTap # None /\ tipTap = Parsed(html)
                 /\ tab = "source" => codeView # None /\ codeView = html
    BY <1>1 DEF EditorInv, SettledInv
  <2>3. ~alive => tipTap = None /\ codeView = None
    BY <1>1 DEF EditorInv, SettledInv
  <2>4. tab \in {"write", "source"}
    BY <1>1 DEF EditorInv, TextInv, Tabs
  <2>5. ASSUME html' = html
        PROVE  Kept
    BY <2>5
  <2>6. ASSUME tab = "write", tipTap = Parsed(html), tipTap.toks \subseteq html'.toks
        PROVE  Kept
    BY <2>1, <2>6 DEF Parsed, Doc
  <2>7. ASSUME alive, html' = Synced(tab)
        PROVE  Kept
    <3>1. html' = IF tab = "source" THEN codeView ELSE tipTap
      BY <2>2, <2>4, <2>7 DEF Synced
    <3>. QED  BY <2>2, <2>4, <2>5, <2>6, <2>7, <3>1
  <2>8. CASE UploadAnswered
    <3>1. CASE UNCHANGED textVars
      BY <2>5, <3>1
    <3>2. CASE ~UNCHANGED textVars
      <4>1. PICK t \in Rich : /\ tipTap # None /\ tipTap' = Insert(tipTap, t)
                              /\ html' = tipTap' /\ stray' = (tab = "source")
        BY <2>8, <3>2 DEF UploadAnswered
      <4>2. alive /\ tab = "write"
        BY <1>1, <2>3, <2>4, <4>1
      <4>3. tipTap.toks \subseteq html'.toks
        BY <2>1, <4>1, InsertParsed
      <4>. QED  BY <2>2, <2>6, <4>2, <4>3
    <3>. QED  BY <3>1, <3>2
  <2>9. ASSUME NEW name \in Tabs, setTab(name)
        PROVE  Kept
    <3>1. alive /\ name # "preview" /\ tab' = name
      BY <1>1, <2>9 DEF setTab, Event
    <3>2. html' = Synced(tab)
      BY <2>9, <3>1 DEF setTab
    <3>. QED  BY <2>7, <3>1, <3>2
  <2>10. CASE WriteEdit
    <3>1. /\ tab = "write" /\ alive /\ html' = tipTap' /\ tipTap # None
          /\ tipTap' \in {tipTap} \union {Insert(tipTap, t) : t \in Rich}
      BY <2>10 DEF WriteEdit, Event
    <3>2. tipTap.toks \subseteq html'.toks
      BY <2>1, <3>1, InsertParsed
    <3>. QED  BY <2>2, <2>6, <3>1, <3>2
  <2>11. CASE SourceEdit \/ formatSourceHtml \/ \E t \in Rich : insertVariable(t)
    <3>1. tab = "source" /\ alive /\ codeView = html
      BY <2>2, <2>11 DEF SourceEdit, formatSourceHtml, insertVariable, Event
    <3>2. \/ \E t \in Tokens : html' = Insert(html, t)
          \/ html' \in FormattedOrKept(html, "html")
      <4>1. codeView # None
        BY <2>2, <3>1
      <4>2. CASE SourceEdit
        BY <3>1, <4>2 DEF SourceEdit
      <4>3. CASE formatSourceHtml
        BY <3>1, <4>3 DEF formatSourceHtml, applyFormatToView
      <4>4. CASE \E t \in Rich : insertVariable(t)
        BY <3>1, <4>1, <4>4, FieldAssumption DEF insertVariable
      <4>. QED  BY <2>11, <4>2, <4>3, <4>4
    <3>3. html.toks \subseteq html'.toks
      BY <2>1, <3>2, InsertAdds, FormatKeeps
    <3>. QED  BY <3>3
  <2>12. CASE SyncAll
    BY <2>7, <2>12 DEF SyncAll, Event
  <2>13. CASE \/ \E call \in loads : LoadAnswered(call)
              \/ \E call \in searches : SearchAnswered(call)
              \/ \E call \in bodies : BodyRead(call)
              \/ \E call \in renders : RenderAnswered(call)
              \/ \E model \in OptModel : ComboChange(model)
              \/ searchPreviewRecords \/ clearPreviewRecord \/ handleImageFile \/ destroy
    BY <2>5, <2>13 DEF LoadAnswered, SearchAnswered, BodyRead, RenderAnswered, ComboChange,
       searchPreviewRecords, clearPreviewRecord, handleImageFile, destroy
  <2>14. CASE RunMount \/ PressRender \/ pickPreviewRecord
    BY <1>1, <2>14 DEF RunMount, PressRender, pickPreviewRecord
  <2>. QED
    BY <1>1, <2>8, <2>9, <2>10, <2>11, <2>12, <2>13, <2>14 DEF Next, Answer, User
<1>2. EditorInv /\ [Next]_vars => [Kept \/ Excepted]_vars
  BY <1>1
<1>. QED  BY <1>2, EditorsAlwaysOk, PTL DEF EditsStay, Spec
-----------------------------------------------------------------------------
(* Types.                                                                  *)

(* A call that may be sent gets a number none in flight has: there are     *)
(* fewer calls than numbers.                                               *)
LEMMA FreshIsFree ==
    ASSUME NEW calls, IsFiniteSet(calls), Room(calls)
    PROVE  Fresh(calls) \in 1..MaxCalls /\ \A c \in calls : c.n # Fresh(calls)
<1> DEFINE taken == {c.n : c \in calls}
<1>1. MaxCalls \in Nat /\ IsFiniteSet(1..MaxCalls) /\ Cardinality(1..MaxCalls) = MaxCalls
  <2>1. MaxCalls \in Nat
    BY EditorAssumption
  <2>. QED  BY <2>1, FS_Interval
<1>2. IsFiniteSet(taken) /\ Cardinality(taken) <= Cardinality(calls)
  <2> DEFINE number == [c \in calls |-> c.n]
  <2>1. number \in [calls -> taken] /\ \A k \in taken : \E c \in calls : number[c] = k
    OBVIOUS
  <2>2. number \in Surjection(calls, taken)
    BY <2>1 DEF Surjection
  <2>. QED  BY <2>2, FS_Surjection
<1>3. Cardinality(taken) \in Nat /\ Cardinality(calls) \in Nat
  BY <1>2, FS_CardinalityType
<1>4. \E n \in 1..MaxCalls : n \notin taken
  <2>1. SUFFICES ASSUME 1..MaxCalls \subseteq taken PROVE FALSE
    OBVIOUS
  <2>2. MaxCalls <= Cardinality(taken)
    BY <1>1, <1>2, <2>1, FS_Subset
  <2>. QED  BY <1>1, <1>2, <1>3, <2>2 DEF Room
<1>. QED  BY <1>4 DEF Fresh

(* The calls, what they are about and what they left.                      *)
CallTypes ==
    /\ mailModel \in OptModel /\ variables \in OptModel
    /\ variablesLoading \in BOOLEAN /\ loads \subseteq Load /\ IsFiniteSet(loads)
    /\ previewSeq \in 0..MaxSearches /\ previewLoading \in BOOLEAN
    /\ previewResults \in Search \union {None} /\ searches \subseteq Search
    /\ bodies \subseteq Search /\ overtaken \subseteq Search
    /\ previewRecord \in OptModel
    /\ previewRendering \in BOOLEAN /\ previewError \in BOOLEAN
    /\ previewRendered \in [model : Models, record : OptModel] \union {None}
    /\ renders \subseteq Render /\ IsFiniteSet(renders)

(* Modes, counters and histories.                                          *)
CountTypes ==
    /\ readonly \in BOOLEAN /\ alive \in BOOLEAN /\ sourceAutoFormatted \in BOOLEAN
    /\ mounts \in Seq(Mount) /\ Len(mounts) <= MaxMounts + 1
    /\ uploads \in 0..MaxCalls
    /\ acts \in 0..MaxActs /\ stray \in BOOLEAN /\ crossed \in BOOLEAN

callVars == <<mailModel, listVars, searchVars, renderVars>>

LEMMA CallsKept ==
    ASSUME CallTypes, UNCHANGED callVars
    PROVE  CallTypes'
BY DEF CallTypes, callVars, listVars, searchVars, renderVars

LEMMA TypesInit == Init => CallTypes /\ CountTypes
<1>1. SUFFICES ASSUME Init PROVE CallTypes /\ CountTypes
  OBVIOUS
<1>2. 1 \in 1..MaxCalls /\ 0 \in 0..MaxCalls /\ 0 \in 0..MaxSearches /\ 0 \in 0..MaxActs
      /\ MaxMounts \in Nat
  BY EditorAssumption
<1>3. mailModel # None => mailModel \in Models
  BY <1>1 DEF Init, OptModel
<1>4. loads \subseteq Load /\ IsFiniteSet(loads)
  <2>1. CASE readonly \/ mailModel = None
    BY <1>1, <2>1, FS_EmptySet DEF Init
  <2>2. CASE ~(readonly \/ mailModel = None)
    <3>1. loads = {[n |-> 1, model |-> mailModel]}
      BY <1>1, <2>2 DEF Init
    <3>2. loads \subseteq Load
      BY <1>2, <1>3, <2>2, <3>1 DEF Load
    <3>. QED  BY <3>1, <3>2, FS_Singleton
  <2>. QED  BY <2>1, <2>2
<1>5. renders \subseteq Render /\ IsFiniteSet(renders)
  <2>1. CASE ~(readonly /\ mailModel # None)
    BY <1>1, <2>1, FS_EmptySet DEF Init
  <2>2. CASE readonly /\ mailModel # None
    <3>1. renders = {[n |-> 1, model |-> mailModel, record |-> None]}
      BY <1>1, <2>2 DEF Init
    <3>2. renders \subseteq Render
      BY <1>2, <1>3, <2>2, <3>1 DEF Render, OptModel
    <3>. QED  BY <3>1, <3>2, FS_Singleton
  <2>. QED  BY <2>1, <2>2
<1>6. CallTypes
  BY <1>1, <1>2, <1>4, <1>5 DEF Init, CallTypes, OptModel
<1>7. mounts \in Seq(Mount) /\ Len(mounts) <= MaxMounts + 1
  <2>1. [name |-> "init", prev |-> None] \in Mount
    BY DEF Mount
  <2>. QED  BY <1>1, <1>2, <2>1 DEF Init
<1>8. CountTypes
  BY <1>1, <1>2, <1>7 DEF Init, CountTypes
<1>. QED  BY <1>6, <1>8

LEMMA LoadSent ==
    ASSUME CallTypes, NEW model \in OptModel, loadVariables(model)
    PROVE  /\ variables' \in OptModel /\ variablesLoading' \in BOOLEAN
           /\ loads' \subseteq Load /\ IsFiniteSet(loads')
<1>1. CASE model = None
  BY <1>1 DEF loadVariables, CallTypes, OptModel
<1>2. CASE model # None
  <2> DEFINE n == Fresh(loads)
  <2>1. n \in 1..MaxCalls
    BY <1>2, FreshIsFree DEF loadVariables, CallTypes
  <2> HIDE DEF n
  <2>2. [n |-> n, model |-> model] \in Load
    BY <1>2, <2>1 DEF Load, OptModel
  <2>3. loads' = loads \union {[n |-> n, model |-> model]}
    BY <1>2 DEF loadVariables, n
  <2>4. IsFiniteSet(loads')
    BY <2>3, FS_AddElement DEF CallTypes
  <2>. QED  BY <1>2, <2>2, <2>3, <2>4 DEF loadVariables, CallTypes
<1>. QED  BY <1>1, <1>2

LEMMA RenderSent ==
    ASSUME CallTypes, NEW record \in OptModel, renderPreview(record)
    PROVE  /\ previewRendering' \in BOOLEAN /\ previewError' \in BOOLEAN
           /\ previewRendered' = previewRendered
           /\ renders' \subseteq Render /\ IsFiniteSet(renders')
<1>1. CASE mailModel = None
  BY <1>1 DEF renderPreview, CallTypes
<1>2. CASE mailModel # None
  <2> DEFINE n == Fresh(renders)
             call == [n |-> n, model |-> mailModel, record |-> record]
  <2>1. n \in 1..MaxCalls
    BY <1>2, FreshIsFree DEF renderPreview, CallTypes
  <2> HIDE DEF n
  <2>2. call \in Render
    BY <1>2, <2>1 DEF Render, OptModel, CallTypes
  <2>3. renders' = renders \union {call}
    BY <1>2 DEF renderPreview, n
  <2> HIDE DEF call
  <2>4. IsFiniteSet(renders')
    BY <2>3, FS_AddElement DEF CallTypes
  <2>. QED  BY <1>2, <2>2, <2>3, <2>4 DEF renderPreview, CallTypes
<1>. QED  BY <1>1, <1>2

LEMMA CallTypesNext ==
    ASSUME CallTypes, [Next]_vars
    PROVE  CallTypes'
<1> USE DEF listVars, searchVars, renderVars, modeVars, textVars, callVars
<1>1. CASE UNCHANGED vars
  BY <1>1, CallsKept DEF vars
<1>2. ASSUME NEW call \in loads, LoadAnswered(call) PROVE CallTypes'
  <2>1. call.model \in Models
    BY DEF CallTypes, Load
  <2>2. IsFiniteSet(loads')
    BY <1>2, FS_RemoveElement DEF CallTypes, LoadAnswered
  <2>. QED  BY <1>2, <2>1, <2>2 DEF CallTypes, LoadAnswered, OptModel
<1>3. ASSUME NEW call \in searches \union bodies, SearchAnswered(call) \/ BodyRead(call)
      PROVE  CallTypes'
  <2>1. call \in Search
    BY DEF CallTypes
  <2>2. /\ previewResults' \in {call, None, previewResults}
        /\ previewLoading' \in {previewLoading, previewLoading /\ call.seq # previewSeq}
        /\ searches' \subseteq searches /\ bodies' \subseteq bodies \union {call}
        /\ UNCHANGED <<mailModel, listVars, previewSeq, overtaken, renderVars>>
    BY <1>3 DEF SearchAnswered, SearchTaken, BodyRead, SearchFailed, SearchOver
  <2>. QED  BY <2>1, <2>2 DEF CallTypes
<1>4. ASSUME NEW call \in renders, RenderAnswered(call) PROVE CallTypes'
  <2>1. [model |-> call.model, record |-> call.record] \in [model : Models, record : OptModel]
    BY DEF CallTypes, Render
  <2>2. IsFiniteSet(renders')
    BY <1>4, FS_RemoveElement DEF CallTypes, RenderAnswered
  <2>. QED  BY <1>4, <2>1, <2>2 DEF CallTypes, RenderAnswered
<1>5. ASSUME NEW name \in Tabs, setTab(name) PROVE CallTypes'
  <2>1. CASE name = "preview" /\ mailModel # None
    <3>1. previewRecord \in OptModel /\ renderPreview(previewRecord)
      BY <1>5, <2>1 DEF CallTypes, setTab
    <3>2. /\ previewRendering' \in BOOLEAN /\ previewError' \in BOOLEAN
          /\ previewRendered' = previewRendered
          /\ renders' \subseteq Render /\ IsFiniteSet(renders')
      BY <3>1, RenderSent
    <3>. QED  BY <1>5, <3>2 DEF CallTypes, setTab
  <2>2. CASE ~(name = "preview" /\ mailModel # None)
    BY <1>5, <2>2 DEF CallTypes, setTab
  <2>. QED  BY <2>1, <2>2
<1>6. ASSUME NEW model \in OptModel, ComboChange(model) PROVE CallTypes'
  <2>1. /\ variables' \in OptModel /\ variablesLoading' \in BOOLEAN
        /\ loads' \subseteq Load /\ IsFiniteSet(loads')
    BY <1>6, LoadSent DEF ComboChange
  <2>2. /\ mailModel' \in OptModel /\ previewRecord' \in OptModel
        /\ previewResults' = None /\ previewRendered' = None /\ previewError' = FALSE
    BY <1>6 DEF ComboChange, ResetPreview, OptModel
  <2>. QED  BY <1>6, <2>1, <2>2 DEF CallTypes, ComboChange
<1>7. CASE PressRender
  <2>1. /\ previewRendering' \in BOOLEAN /\ previewError' \in BOOLEAN
        /\ previewRendered' = previewRendered
        /\ renders' \subseteq Render /\ IsFiniteSet(renders')
    BY <1>7, RenderSent DEF PressRender, CallTypes
  <2>. QED  BY <1>7, <2>1 DEF CallTypes, PressRender
<1>8. CASE searchPreviewRecords
  <2>1. previewSeq + 1 \in 1..MaxSearches /\ mailModel \in Models
    BY <1>8, EditorAssumption DEF CallTypes, searchPreviewRecords, OptModel
  <2>2. [seq |-> previewSeq + 1, model |-> mailModel] \in Search
    BY <2>1 DEF Search
  <2>3. previewSeq' \in 0..MaxSearches
    BY <1>8, <2>1, EditorAssumption DEF searchPreviewRecords
  <2>. QED  BY <1>8, <2>2, <2>3 DEF CallTypes, searchPreviewRecords
<1>9. CASE pickPreviewRecord
  <2>1. previewResults.model \in OptModel
    BY <1>9 DEF CallTypes, pickPreviewRecord, Search, OptModel
  <2>2. /\ previewRendering' \in BOOLEAN /\ previewError' \in BOOLEAN
        /\ previewRendered' = previewRendered
        /\ renders' \subseteq Render /\ IsFiniteSet(renders')
    BY <1>9, <2>1, RenderSent DEF pickPreviewRecord
  <2>. QED  BY <1>9, <2>1, <2>2 DEF CallTypes, pickPreviewRecord
<1>10. CASE clearPreviewRecord
  BY <1>10 DEF CallTypes, clearPreviewRecord, OptModel
<1>11. CASE UploadAnswered \/ RunMount \/ WriteEdit \/ SourceEdit \/ formatSourceHtml \/ SyncAll
            \/ (\E t \in Rich : insertVariable(t)) \/ handleImageFile \/ destroy
  <2>1. UNCHANGED callVars
    BY <1>11 DEF UploadAnswered, RunMount, WriteEdit, SourceEdit, formatSourceHtml, SyncAll,
                 insertVariable, handleImageFile, destroy
  <2>. QED  BY <2>1, CallsKept
<1>. QED
  BY <1>1, <1>2, <1>3, <1>4, <1>5, <1>6, <1>7, <1>8, <1>9, <1>10, <1>11 DEF Next, Answer, User

LEMMA CountTypesNext ==
    ASSUME TextInv, TextInv', CountTypes, [Next]_vars
    PROVE  CountTypes'
<1> USE DEF listVars, searchVars, renderVars, modeVars, textVars
<1>1. /\ MaxMounts \in Nat /\ MaxCalls \in Nat /\ MaxActs \in Nat
      /\ Len(mounts) \in Nat /\ Len(mounts') \in Nat
  BY EditorAssumption, LenProperties DEF TextInv
<1>2. /\ readonly' \in BOOLEAN /\ alive' \in BOOLEAN /\ acts' \in 0..MaxActs
  <2>1. readonly' = readonly /\ alive' \in {alive, FALSE}
    BY DEF CountTypes, vars, Next, Answer, User, LoadAnswered, SearchAnswered, BodyRead,
       RenderAnswered, UploadAnswered, RunMount, setTab, ComboChange, PressRender,
       searchPreviewRecords, pickPreviewRecord, clearPreviewRecord, WriteEdit, SourceEdit,
       formatSourceHtml, SyncAll, insertVariable, handleImageFile, destroy
  <2>2. acts' = acts \/ (acts < MaxActs /\ acts' = acts + 1)
    BY DEF CountTypes, vars, Next, Answer, User, LoadAnswered, SearchAnswered, BodyRead,
       RenderAnswered, UploadAnswered, RunMount, setTab, ComboChange, PressRender,
       searchPreviewRecords, pickPreviewRecord, clearPreviewRecord, WriteEdit, SourceEdit,
       formatSourceHtml, SyncAll, insertVariable, handleImageFile, destroy, Event
  <2>3. acts' \in 0..MaxActs
    BY <1>1, <2>2 DEF CountTypes
  <2>4. readonly' \in BOOLEAN /\ alive' \in BOOLEAN
    BY <2>1 DEF CountTypes
  <2>. QED  BY <2>3, <2>4
<1>3. uploads' \in 0..MaxCalls
  <2>1. \/ uploads' = uploads
        \/ uploads < MaxCalls /\ uploads' = uploads + 1
        \/ uploads > 0 /\ uploads' = uploads - 1
    BY DEF CountTypes, vars, Next, Answer, User, LoadAnswered, SearchAnswered, BodyRead,
       RenderAnswered, UploadAnswered, RunMount, setTab, ComboChange, PressRender,
       searchPreviewRecords, pickPreviewRecord, clearPreviewRecord, WriteEdit, SourceEdit,
       formatSourceHtml, SyncAll, insertVariable, handleImageFile, destroy
  <2>. QED  BY <1>1, <2>1 DEF CountTypes
<1>4. stray' \in BOOLEAN /\ crossed' \in BOOLEAN
  BY DEF CountTypes, vars, Next, Answer, User, LoadAnswered, SearchAnswered, BodyRead,
       RenderAnswered, UploadAnswered, RunMount, setTab, ComboChange, PressRender,
       searchPreviewRecords, pickPreviewRecord, clearPreviewRecord, WriteEdit, SourceEdit,
       formatSourceHtml, SyncAll, insertVariable, handleImageFile, destroy
<1>5. sourceAutoFormatted' \in BOOLEAN
  <2>1. CASE RunMount
    BY <2>1 DEF RunMount, ensureSource, ensureWrite, CountTypes
  <2>2. CASE ~RunMount
    BY <2>2 DEF CountTypes, vars, Next, Answer, User, LoadAnswered, SearchAnswered, BodyRead,
       RenderAnswered, UploadAnswered, setTab, ComboChange, PressRender, searchPreviewRecords,
       pickPreviewRecord, clearPreviewRecord, WriteEdit, SourceEdit, formatSourceHtml, SyncAll,
       insertVariable, handleImageFile, destroy
  <2>. QED  BY <2>1, <2>2
<1>6. Len(mounts') <= MaxMounts + 1
  <2>1. CASE RunMount
    <3>1. Len(Tail(mounts)) = Len(mounts) - 1
      BY <2>1, HeadTailProperties DEF RunMount, TextInv
    <3>. QED  BY <1>1, <2>1, <3>1 DEF RunMount, CountTypes
  <2>2. ASSUME NEW name \in Tabs, setTab(name), name # "preview"
        PROVE  Len(mounts') <= MaxMounts + 1
    <3>1. [name |-> name, prev |-> tab] \in Mount
      BY <2>2 DEF Mount, Tabs, TextInv
    <3>2. mounts' = Append(mounts, [name |-> name, prev |-> tab]) /\ Len(mounts) < MaxMounts
      BY <2>2 DEF setTab
    <3>3. Len(mounts') = Len(mounts) + 1
      BY <3>1, <3>2, AppendProperties DEF TextInv
    <3>. QED  BY <1>1, <3>2, <3>3
  <2>3. CASE ~RunMount /\ ~(\E name \in Tabs : setTab(name) /\ name # "preview")
    <3>1. mounts' = mounts
      BY <2>3 DEF CountTypes, vars, Next, Answer, User, LoadAnswered, SearchAnswered, BodyRead,
       RenderAnswered, UploadAnswered, setTab, ComboChange, PressRender, searchPreviewRecords,
         pickPreviewRecord, clearPreviewRecord, WriteEdit, SourceEdit, formatSourceHtml, SyncAll,
         insertVariable, handleImageFile, destroy
    <3>. QED  BY <3>1 DEF CountTypes
  <2>. QED  BY <2>1, <2>2, <2>3
<1>. QED  BY <1>2, <1>3, <1>4, <1>5, <1>6 DEF CountTypes, TextInv

(* Whatever the user, the callbacks and the answers do, in whatever order: *)
(* texts are texts, calls in flight are few and told apart by number, and  *)
(* what they left is of a model.                                           *)
THEOREM EditorTypeCorrect == Spec => []TypeOK
<1>1. EditorInv => TextInv
  BY DEF EditorInv
<1>2. TextInv /\ TextInv' /\ CountTypes /\ [Next]_vars => CountTypes'
  BY CountTypesNext
<1>3. CallTypes /\ [Next]_vars => CallTypes'
  BY CallTypesNext
<1>4. TextInv /\ CallTypes /\ CountTypes => TypeOK
  BY DEF TextInv, CallTypes, CountTypes, TypeOK
<1>. QED  BY <1>1, <1>2, <1>3, <1>4, TypesInit, EditorsAlwaysOk, PTL DEF Spec
=============================================================================
