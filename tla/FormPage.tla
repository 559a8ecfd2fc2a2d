------------------------------ MODULE FormPage ------------------------------
(***************************************************************************)
(* The edit form of one record: a table of lines, a datetime field and a   *)
(* code field, which share nothing in the page but the form they are       *)
(* posted with. The server answers a save with the record for display, or  *)
(* with the form drawn again from what was posted (web.py, web_form_save); *)
(* a change of a live field posts the form as it is and has it drawn again *)
(* (_form_live_response). Each answer replaces the whole form, which its   *)
(* user may have edited since, and the two kinds may overtake each other.  *)
(*                                                                         *)
(* htmx, which sends and swaps, is external. A save is sent when none is   *)
(* out, and so is a live request (htmx holds back a second request of the  *)
(* same button); Cancel and Edit, which only read, are one step each. The  *)
(* datetime field is required. A user works on one of the three fields.    *)
(***************************************************************************)
EXTENDS O2mGrid, DatetimePicker, CodeEditor

CONSTANTS Records,      \* what may be stored when the form opens
          Rejected,     \* cell values the server cannot parse
          MaxLost,      \* answers to a save that get lost
          MaxActs       \* user events

Forms == [rows : Seq(Row), stamp : Stamp \union {Empty}, code : Doc, moved : BOOLEAN]
SaveRequest == [form : Forms, status : {"sent", "refused", "saved"}]
LiveRequest == [form : Forms, status : {"sent", "drawn"}, old : BOOLEAN]

ASSUME PageAssumption ==
    /\ Rejected \subseteq Vals
    /\ Records \subseteq [children : SUBSET Child, stamp : Stamp, code : Doc]
    /\ MaxLost \in Nat /\ MaxActs \in Nat
    /\ None \notin SaveRequest \union LiveRequest
    /\ \A rec \in Records :
         /\ IsFiniteSet(rec.children)
         /\ \A c \in rec.children : {c.id, c.line} \subseteq 1..Cardinality(rec.children)
         /\ \A c, d \in rec.children : c.id = d.id \/ c.line = d.line => c = d

VARIABLES
    db, lastId,         \* the record and its lines; the newest id
    mode, save, live,   \* requests in flight, or None
    working,            \* the field the user works on
    lines,              \* history: lines so far, those of the record first
    lost, late,         \* history: saved but not told; old answers drawn after a save
    acts

pageVars == <<db, lastId, mode, save, live>>
countVars == <<working, lines, lost, late>>
vars == <<gridVars, pickerVars, codeVars, pageVars, countVars, acts>>

Form == [rows |-> rows, stamp |-> hidden, code |-> code, moved |-> moved]

-----------------------------------------------------------------------------
Init ==
    /\ db \in Records
    /\ lastId = Cardinality(db.children) /\ lines = lastId
    /\ mode = "display" /\ save = None /\ live = None
    /\ rows = <<>> /\ nextIdx = 0 /\ dragged = Nobody /\ focus = Nobody /\ moved = FALSE
    /\ hidden = Empty /\ label = Empty /\ draft = parseHidden(Empty)
    /\ calendar = Empty /\ clock = Midnight
    /\ open = FALSE /\ outsideListener = FALSE /\ orphan = FALSE
    /\ code = db.code /\ view = None
    /\ working \in {"grid", "picker", "code"}
    /\ lost = 0 /\ late = 0 /\ acts = 0

(* A user event.                                                           *)
Event == acts < MaxActs /\ acts' = acts + 1

(* What a swap puts in the page.                                           *)
ShowRecord ==
    /\ mode' = "display"
    /\ NoTable /\ wirePicker(Empty) /\ initCode(db.code)

ShowForm ==
    /\ mode' = "edit"
    /\ EditFresh(db.children) /\ wirePicker(db.stamp) /\ initCode(db.code)

ShowAgain(form) ==
    /\ mode' = "edit"
    /\ EditPlayback(form.rows) /\ wirePicker(form.stamp) /\ initCode(form.code)

Edit == Event /\ mode = "display" /\ ShowForm /\ UNCHANGED <<db, lastId, save, live, countVars>>
Cancel ==
    /\ Event /\ mode = "edit" /\ save = None
    /\ ShowRecord
    /\ UNCHANGED <<db, lastId, save, live, countVars>>

-----------------------------------------------------------------------------
(* The fields.                                                             *)
EditGrid ==
    /\ Event /\ mode = "edit" /\ working = "grid"
    /\ GridStep(lines + 1)
    /\ lines' = IF nextIdx' = nextIdx THEN lines ELSE lines + 1
    /\ UNCHANGED <<pickerVars, codeVars, pageVars, working, lost, late>>

EditPicker ==
    /\ Event /\ working = "picker"
    /\ (mode = "edit" /\ PickerStep) \/ DismissOrphan
    /\ UNCHANGED <<gridVars, codeVars, pageVars, countVars>>

EditCode ==
    /\ Event /\ mode = "edit" /\ working = "code"
    /\ CodeStep
    /\ UNCHANGED <<gridVars, pickerVars, pageVars, countVars>>

(* $nextTick                                                               *)
MountCode ==
    /\ mode = "edit" /\ mountEditor
    /\ UNCHANGED <<gridVars, pickerVars, pageVars, countVars, acts>>

-----------------------------------------------------------------------------
(* A form is redrawn with what was posted; a value that was refused, here  *)
(* a required one that is missing, gives way to the stored one.            *)
Redrawn(form) == [form EXCEPT !.stamp = IF @ = Empty THEN db.stamp ELSE @]

Invalid(form) == BadRows(form.rows, Rejected) \/ form.stamp = Empty

Save ==
    /\ Event /\ mode = "edit" /\ save = None /\ dragged = Nobody
    /\ save' = [form |-> Form, status |-> "sent"]
    /\ sync
    /\ UNCHANGED <<gridVars, pickerVars, db, lastId, mode, live, countVars>>

(* Parsing fails, or anything inside the transaction.                      *)
SaveRefused ==
    /\ save # None /\ save.status = "sent"
    /\ save' = [form |-> Redrawn(save.form), status |-> "refused"]
    /\ UNCHANGED <<gridVars, pickerVars, codeVars, db, lastId, mode, live, countVars, acts>>

SaveCommitted ==
    /\ save # None /\ save.status = "sent" /\ ~Invalid(save.form)
    /\ db' = [children |-> apply_o2m_commands(db.children, save.form.rows, lastId),
              stamp |-> save.form.stamp, code |-> save.form.code]
    /\ lastId' = lastId + Cardinality(Creates(save.form.rows))
    /\ save' = [save EXCEPT !.status = "saved"]
    /\ UNCHANGED <<gridVars, pickerVars, codeVars, mode, live, countVars, acts>>

RefusalShown ==
    /\ save # None /\ save.status = "refused"
    /\ ShowAgain(save.form)
    /\ save' = None
    /\ UNCHANGED <<db, lastId, live, countVars, acts>>

(* Mutant: the form stays open for more.                                   *)
SaveShownForEditing ==
    /\ save # None /\ save.status = "saved"
    /\ ShowAgain(save.form)
    /\ save' = None
    /\ live' = IF live = None THEN None ELSE [live EXCEPT !.old = TRUE]
    /\ UNCHANGED <<db, lastId, countVars, acts>>

SaveShown ==
    /\ save # None /\ save.status = "saved"
    /\ ShowRecord
    /\ save' = None
    /\ live' = IF live = None THEN None ELSE [live EXCEPT !.old = TRUE]
    /\ UNCHANGED <<db, lastId, countVars, acts>>

(* The connection breaks before or after the server has done its work; the *)
(* page stays as it is, and the button works again.                        *)
SaveLost ==
    /\ save # None /\ lost < MaxLost
    /\ lost' = IF save.status = "saved" THEN lost + 1 ELSE lost
    /\ save' = None
    /\ UNCHANGED <<gridVars, pickerVars, codeVars, db, lastId, mode, live,
                   working, lines, late, acts>>

ChangeLive ==
    /\ Event /\ mode = "edit" /\ live = None /\ dragged = Nobody
    /\ live' = [form |-> Form, status |-> "sent", old |-> FALSE]
    /\ sync
    /\ UNCHANGED <<gridVars, pickerVars, db, lastId, mode, save, countVars>>

LiveDrawn ==
    /\ live # None /\ live.status = "sent"
    /\ live' = [live EXCEPT !.status = "drawn", !.form = Redrawn(@)]
    /\ UNCHANGED <<gridVars, pickerVars, codeVars, db, lastId, mode, save, countVars, acts>>

LiveShown ==
    /\ live # None /\ live.status = "drawn"
    /\ ShowAgain(live.form)
    /\ live' = None
    /\ late' = IF live.old THEN late + 1 ELSE late
    /\ UNCHANGED <<db, lastId, save, working, lines, lost, acts>>

Next ==
    \/ Edit \/ Cancel \/ EditGrid \/ EditPicker \/ EditCode \/ MountCode
    \/ Save \/ SaveRefused \/ SaveCommitted \/ RefusalShown \/ SaveShown \/ SaveLost
    \/ ChangeLive \/ LiveDrawn \/ LiveShown

Spec == Init /\ [][Next]_vars

-----------------------------------------------------------------------------
PageTypeOK ==
    /\ db \in [children : SUBSET Child, stamp : Stamp, code : Doc]
    /\ lastId \in Nat /\ lines \in Nat
    /\ save \in SaveRequest \union {None} /\ live \in LiveRequest \union {None}

FormTypeOK ==
    /\ TableTypeOK /\ CursorTypeOK /\ PickerTypeOK /\ CodeTypeOK /\ PageTypeOK
    /\ mode \in {"display", "edit"} /\ working \in {"grid", "picker", "code"}
    /\ lost \in 0..MaxLost /\ late \in Nat /\ acts \in 0..MaxActs

(* Two rows are never posted under one index, or the server would merge    *)
(* their cells into one (_o2m_bucket_form): indices are distinct, and the  *)
(* next one is free, also after rows were removed, the rows were dragged   *)
(* about and the table was drawn again.                                    *)
Distinct(rs) == \A i, j \in DOMAIN rs : rs[i].idx = rs[j].idx => i = j
KeysDistinct ==
    /\ Distinct(rows) /\ \A i \in DOMAIN rows : rows[i].idx < nextIdx
    /\ save # None => Distinct(save.form.rows)
    /\ live # None => Distinct(live.form.rows)

(* A save stores the lines in the order and with the cells that were on    *)
(* the screen, struck lines gone: whatever was added, deleted and dropped, *)
(* the sequence numbers posted say the same as the positions did. The      *)
(* exceptions are rows moved without a drop or redrawn in index order      *)
(* (`moved`), and a save that starts from an outdated form.                *)
Shown(rs) == LET live_ == rowsIn(rs)
             IN  [i \in DOMAIN live_ |-> <<live_[i].line, live_[i].val>>]
StoredAsShown ==
    [][SaveCommitted /\ ~save.form.moved /\ lost = 0 /\ late = 0 =>
         \A list \in Listings(db'.children) :
            [i \in DOMAIN list |-> <<list[i].line, list[i].val>>] = Shown(save.form.rows)]_vars

(* A form drawn again keeps what its user had entered (the comments at     *)
(* web.py:2024 and render.py:2657) if nothing was entered since: every     *)
(* row, the struck ones with their strike, the datetime unless it was      *)
(* refused, and the code.                                                  *)
Unedited(form) ==
    /\ mode = "edit" /\ Range(form.rows) = Range(rows) /\ form.code = code
    /\ hidden \in {form.stamp, Empty}
RedrawKeepsEdits ==
    [][\/ RefusalShown /\ Unedited(save.form)
       \/ LiveShown /\ Unedited(live.form)
       => /\ Range(rows') = Range(rows) /\ code' = code
          /\ hidden # Empty => hidden' = hidden]_vars

(* A line that was added once is stored once, but for each save whose      *)
(* answer was lost and each old answer drawn after a save, after which the *)
(* form offers to create it again.                                         *)
CreatedOnce ==
    \A c \in db.children :
        Cardinality({d \in db.children : d.line = c.line}) <= 1 + lost + late

(* An open panel shows its draft, so that Apply takes what one sees, and   *)
(* has its listener; a closed one has none. Two panels are never open.     *)
PanelInOrder ==
    /\ open = outsideListener
    /\ open => calendar = draft.date /\ (clock = Empty => draft.time = Midnight)
                                    /\ (clock # Empty => draft.time = clock)
    /\ ~(open /\ orphan)

(* What the fields show is what a save would post: syncBeforeSubmit comes  *)
(* too late to help (htmx has read the inputs), so each edit must have     *)
(* reached its hidden input by itself.                                     *)
ShownIsPosted ==
    label = hidden /\ (view # None => view = code)

(* Tab goes through the live cells row by row, adding a line after the     *)
(* last; Shift+Tab goes back, except from the very first cell, where it    *)
(* goes to the end of the row, and struck rows are left out ("row-major",  *)
(* pv_o2m_grid.js:5).                                                      *)
CellNumber(rs, cell) ==
    (SelectInSeq(rowsIn(rs), LAMBDA row : row.idx = cell.idx) - 1) * Cols + cell.col
TabWalks ==
    [][\A d \in {1, -1} :
         EditGrid /\ Press(0, d, lines + 1) /\ RowOf(focus.idx) # 0 =>
           LET at == CellNumber(rows, focus) to == CellNumber(rows', focus')
           IN  to = IF at + d = 0 THEN Cols ELSE at + d]_vars
=============================================================================
