--------------------------- MODULE FormPageProofs ---------------------------
(***************************************************************************)
(* Proofs about FormPage, for any records, values, texts and bounds.       *)
(***************************************************************************)
EXTENDS FormPage, SequenceTheorems, FiniteSetTheorems, TLAPS

(* The datetime field on its own: a draft without a date goes with an      *)
(* empty calendar, or opening the panel would show a date the draft does   *)
(* not have.                                                               *)
PickerInv ==
    /\ PickerTypeOK /\ PanelInOrder
    /\ label = hidden
    /\ draft.date = Empty => calendar = Empty

(* The code field on its own.                                              *)
CodeInv == CodeTypeOK /\ (view # None => view = code)

(* The table on its own: every index is below the next one.                *)
Keyed(rs) == Distinct(rs) /\ \A i \in DOMAIN rs : rs[i].idx < nextIdx
TableInv == TableTypeOK /\ Keyed(rows)

(* The page.                                                               *)
RequestInv ==
    /\ save # None => Distinct(save.form.rows)
    /\ live # None => Distinct(live.form.rows)
IInv ==
    /\ PickerInv /\ CodeInv /\ TableInv /\ PageTypeOK /\ RequestInv
    /\ IsFiniteSet(db.children)
-----------------------------------------------------------------------------
(* The datetime field.                                                     *)

(* A field that is drawn anew with any value is in order.                  *)
LEMMA WirePickerInOrder ==
    ASSUME PickerInv, NEW stamp \in Stamp \union {Empty}, wirePicker(stamp)
    PROVE  PickerInv'
BY PickerAssumption DEF PickerInv, PickerTypeOK, PanelInOrder, wirePicker, refreshDisplay,
     parseHidden, Stamp, Draft

(* Each thing one can do with the field leaves it in order.                *)
LEMMA PickerStepInOrder ==
    ASSUME PickerInv, PickerStep
    PROVE  PickerInv'
<1> USE PickerAssumption DEF PickerInv, PickerTypeOK, PanelInOrder, Stamp, Draft
<1>1. CASE openPanel
  BY <1>1 DEF openPanel
<1>2. CASE Dismiss
  BY <1>2 DEF Dismiss, closePanel
<1>3. CASE DismissOrphan
  BY <1>3 DEF DismissOrphan
<1>4. CASE apply
  BY <1>4 DEF apply, closePanel, refreshDisplay, syncDraftFromControls
<1>5. CASE clearAll
  BY <1>5 DEF clearAll, closePanel, refreshDisplay, parseHidden
<1>6. ASSUME NEW d \in Dates, changeDate(d)
      PROVE  PickerInv'
  BY <1>6 DEF changeDate
<1>7. ASSUME NEW t \in Times \union {Empty}, changeTime(t)
      PROVE  PickerInv'
  BY <1>7 DEF changeTime
<1>. QED  BY <1>1, <1>2, <1>3, <1>4, <1>5, <1>6, <1>7 DEF PickerStep

(* The code field.                                                         *)

(* Formatting gives a text.                                                *)
LEMMA FormatIsDoc ==
    ASSUME NEW doc \in Doc, NEW lang, NEW f \in applyFormatToView(doc, lang)
    PROVE  f \in Doc
BY DEF applyFormatToView, FormattedOrKept, formatSource, Tidy, Doc

(* Typing and formatting leave the view and the posted text the same.      *)
LEMMA CodeStepInOrder ==
    ASSUME CodeInv, CodeStep
    PROVE  CodeInv'
<1>1. ASSUME NEW t \in Tokens, typeCode(t)
      PROVE  CodeInv'
  BY <1>1 DEF CodeInv, CodeTypeOK, typeCode, Insert, Doc
<1>2. CASE formatDocument
  <2>1. view \in Doc /\ view' \in applyFormatToView(view, Language) /\ code' = view'
    BY <1>2 DEF formatDocument, CodeInv, CodeTypeOK
  <2>2. view' \in Doc
    BY <2>1, FormatIsDoc
  <2>. QED  BY <2>1, <2>2 DEF CodeInv, CodeTypeOK
<1>. QED  BY <1>1, <1>2 DEF CodeStep

(* So do mounting, syncing and starting over.                              *)
LEMMA CodeKept ==
    ASSUME CodeInv, NEW text \in Doc, mountEditor \/ sync \/ initCode(text) \/ UNCHANGED codeVars
    PROVE  CodeInv'
BY DEF CodeInv, CodeTypeOK, mountEditor, sync, initCode, codeVars
-----------------------------------------------------------------------------
(* The table. First what its operators give.                               *)

(* Renumbering keeps the rows and their indices.                           *)
LEMMA RenumberKeepsKeys ==
    ASSUME NEW rs \in Seq(Row)
    PROVE  /\ renumber(rs) \in Seq(Row) /\ DOMAIN renumber(rs) = DOMAIN rs
           /\ \A i \in DOMAIN rs : renumber(rs)[i].idx = rs[i].idx
<1>1. Len(rs) \in Nat /\ DOMAIN rs = 1..Len(rs) /\ \A i \in 1..Len(rs) : rs[i] \in Row
  BY LenProperties
<1>2. ASSUME NEW i \in 1..Len(rs)
      PROVE  renumber(rs)[i] \in Row /\ renumber(rs)[i].idx = rs[i].idx
  <2>1. rs[i] \in Row /\ i \in Nat
    BY <1>1
  <2>2. renumber(rs)[i] = IF Struck(rs[i]) THEN rs[i] ELSE [rs[i] EXCEPT !.seq = i]
    BY <1>1 DEF renumber
  <2>3. [rs[i] EXCEPT !.seq = i] \in Row /\ [rs[i] EXCEPT !.seq = i].idx = rs[i].idx
    BY <2>1 DEF Row
  <2>. QED  BY <2>1, <2>2, <2>3
<1>3. renumber(rs) \in [1..Len(rs) -> Row]
  BY <1>1, <1>2 DEF renumber
<1>4. renumber(rs) \in Seq(Row)
  BY <1>1, <1>3, SeqDef
<1>. QED  BY <1>1, <1>2, <1>3, <1>4

(* Rows that are distinct and below the next index stay so when they are   *)
(* renumbered.                                                             *)
LEMMA RenumberedInOrder ==
    ASSUME NEW rs \in Seq(Row), Distinct(rs),
           nextIdx' \in Nat, \A i \in DOMAIN rs : rs[i].idx < nextIdx',
           Renumbered(rs)
    PROVE  TableInv'
<1>1. /\ rows' \in Seq(Row) /\ DOMAIN rows' = DOMAIN rs
      /\ \A i \in DOMAIN rs : rows'[i].idx = rs[i].idx
  BY RenumberKeepsKeys DEF Renumbered
<1>2. moved' \in BOOLEAN
  BY DEF Renumbered
<1>. QED  BY <1>1, <1>2 DEF TableInv, TableTypeOK, Keyed, Distinct

(* A row can be taken out.                                                 *)
LEMMA RemoveKeepsKeys ==
    ASSUME NEW rs \in Seq(Row), Distinct(rs), NEW i \in DOMAIN rs
    PROVE  /\ RemoveAt(rs, i) \in Seq(Row) /\ Distinct(RemoveAt(rs, i))
           /\ \A k \in DOMAIN RemoveAt(rs, i) : \E j \in DOMAIN rs : RemoveAt(rs, i)[k] = rs[j]
           /\ \A j \in DOMAIN rs \ {i} : \E k \in DOMAIN RemoveAt(rs, i) : RemoveAt(rs, i)[k] = rs[j]
<1> DEFINE n == Len(rs)
           left == SubSeq(rs, 1, i - 1)
           right == SubSeq(rs, i + 1, n)
<1>1. n \in Nat /\ DOMAIN rs = 1..n /\ (\A k \in 1..n : rs[k] \in Row) /\ i \in 1..n
  BY LenProperties
<1>2. /\ left \in Seq(Row) /\ Len(left) = i - 1
      /\ \A k \in 1..(i - 1) : left[k] = rs[k]
  <2>1. 1 \in Int /\ i - 1 \in Int /\ \A k \in 1..(i - 1) : rs[k] \in Row
    BY <1>1
  <2>2. /\ left \in Seq(Row) /\ Len(left) = IF 1 <= i - 1 THEN i - 1 - 1 + 1 ELSE 0
        /\ \A k \in 1..(i - 1 - 1 + 1) : left[k] = rs[1 + k - 1]
    BY <2>1, SubSeqProperties
  <2>3. ASSUME NEW k \in 1..(i - 1)
        PROVE  left[k] = rs[k]
    <3>1. k \in 1..(i - 1 - 1 + 1) /\ 1 + k - 1 = k
      BY <1>1
    <3>. QED  BY <2>2, <3>1, Zenon
  <2>4. Len(left) = i - 1
    BY <1>1, <2>2
  <2>. QED  BY <2>2, <2>3, <2>4
<1>3. /\ right \in Seq(Row) /\ Len(right) = n - i
      /\ \A k \in 1..(n - i) : right[k] = rs[i + k]
  <2>1. i + 1 \in Int /\ n \in Int /\ \A k \in (i + 1)..n : rs[k] \in Row
    BY <1>1
  <2>2. /\ right \in Seq(Row) /\ Len(right) = IF i + 1 <= n THEN n - (i + 1) + 1 ELSE 0
        /\ \A k \in 1..(n - (i + 1) + 1) : right[k] = rs[i + 1 + k - 1]
    BY <2>1, SubSeqProperties
  <2>3. ASSUME NEW k \in 1..(n - i)
        PROVE  right[k] = rs[i + k]
    <3>1. k \in 1..(n - (i + 1) + 1) /\ i + 1 + k - 1 = i + k
      BY <1>1
    <3>. QED  BY <2>2, <3>1, Zenon
  <2>4. Len(right) = n - i
    BY <1>1, <2>2
  <2>. QED  BY <2>2, <2>3, <2>4
<1> DEFINE s == RemoveAt(rs, i)
<1>4. s = left \o right
  BY DEF RemoveAt
<1> HIDE DEF s, left, right
<1>5. /\ s \in Seq(Row) /\ Len(s) = Len(left) + Len(right)
      /\ \A k \in 1..(Len(left) + Len(right)) :
            s[k] = IF k <= Len(left) THEN left[k] ELSE right[k - Len(left)]
  BY <1>2, <1>3, <1>4, ConcatProperties
<1>6. DOMAIN s = 1..(n - 1)
  <2>1. Len(left) + Len(right) = n - 1
    BY <1>1, <1>2, <1>3
  <2>. QED  BY <1>5, <2>1, LenProperties
<1>7. ASSUME NEW k \in 1..(n - 1)
      PROVE  s[k] = rs[IF k < i THEN k ELSE k + 1]
  <2>1. k \in 1..(Len(left) + Len(right)) /\ i - 1 = Len(left)
    BY <1>1, <1>2, <1>3
  <2>2. CASE k < i
    <3>1. k <= Len(left) /\ k \in 1..(i - 1)
      BY <1>1, <2>1, <2>2
    <3>. QED  BY <1>2, <1>5, <2>1, <2>2, <3>1
  <2>3. CASE ~(k < i)
    <3>1. /\ ~(k <= Len(left)) /\ k - Len(left) \in 1..(n - i)
          /\ i + (k - Len(left)) = k + 1
      BY <1>1, <2>1, <2>3
    <3>2. s[k] = right[k - Len(left)]
      BY <1>5, <2>1, <3>1
    <3>3. right[k - Len(left)] = rs[i + (k - Len(left))]
      BY <1>3, <3>1
    <3>. QED  BY <2>3, <3>1, <3>2, <3>3
  <2>. QED  BY <2>2, <2>3
<1>8. ASSUME NEW k \in 1..(n - 1)
      PROVE  (IF k < i THEN k ELSE k + 1) \in 1..n
  BY <1>1
<1>9. Distinct(s)
  <2>1. SUFFICES ASSUME NEW j \in 1..(n - 1), NEW k \in 1..(n - 1), s[j].idx = s[k].idx
                 PROVE  j = k
    BY <1>6 DEF Distinct
  <2>2. (IF j < i THEN j ELSE j + 1) = (IF k < i THEN k ELSE k + 1)
    BY <1>1, <1>7, <1>8, <2>1 DEF Distinct
  <2>. QED  BY <1>1, <2>2
<1>10. \A k \in DOMAIN s : \E j \in DOMAIN rs : s[k] = rs[j]
  BY <1>1, <1>6, <1>7, <1>8
<1>11. \A j \in DOMAIN rs \ {i} : \E k \in DOMAIN s : s[k] = rs[j]
  <2>1. SUFFICES ASSUME NEW j \in 1..n, j # i PROVE \E k \in 1..(n - 1) : s[k] = rs[j]
    BY <1>1, <1>6
  <2> DEFINE k == IF j < i THEN j ELSE j - 1
  <2>2. k \in 1..(n - 1) /\ (IF k < i THEN k ELSE k + 1) = j
    BY <1>1, <2>1
  <2>. QED  BY <1>7, <2>2
<1>. QED  BY <1>5, <1>9, <1>10, <1>11 DEF s

(* Moving a row permutes the rows.                                         *)
LEMMA MoveKeepsKeys ==
    ASSUME NEW rs \in Seq(Row), Distinct(rs), NEW i \in DOMAIN rs, NEW j \in DOMAIN rs
    PROVE  /\ MoveTo(rs, i, j) \in Seq(Row) /\ Distinct(MoveTo(rs, i, j))
           /\ DOMAIN MoveTo(rs, i, j) = DOMAIN rs
           /\ \A k \in DOMAIN rs : \E l \in DOMAIN rs : MoveTo(rs, i, j)[k] = rs[l]
           /\ \A l \in DOMAIN rs : \E k \in DOMAIN rs : MoveTo(rs, i, j)[k] = rs[l]
<1> DEFINE n == Len(rs)
           from == [k \in 1..n |-> IF k = j THEN i
                                   ELSE IF i <= k /\ k < j THEN k + 1
                                   ELSE IF j < k /\ k <= i THEN k - 1
                                   ELSE k]
           s == MoveTo(rs, i, j)
<1>1. /\ n \in Nat /\ DOMAIN rs = 1..n /\ (\A k \in 1..n : rs[k] \in Row)
      /\ i \in 1..n /\ j \in 1..n
  BY LenProperties
<1>2. ASSUME NEW k \in 1..n
      PROVE  from[k] \in 1..n /\ s[k] = rs[from[k]]
  BY <1>1 DEF MoveTo
<1>3. ASSUME NEW k \in 1..n, NEW l \in 1..n, from[k] = from[l]
      PROVE  k = l
  BY <1>1, <1>3
<1>4. DOMAIN s = 1..n
  BY <1>1 DEF MoveTo
<1>5. s \in Seq(Row)
  <2>1. s \in [1..n -> Row]
    <3>1. s = [k \in 1..n |-> s[k]]
      BY <1>1 DEF MoveTo
    <3> HIDE DEF s, from
    <3>2. \A k \in 1..n : s[k] \in Row
      BY <1>1, <1>2
    <3>. QED  BY <3>1, <3>2
  <2>. QED  BY <1>1, <2>1, SeqDef
<1> HIDE DEF s, from
<1>6. Distinct(s)
  <2>1. SUFFICES ASSUME NEW k \in 1..n, NEW l \in 1..n, s[k].idx = s[l].idx
                 PROVE  k = l
    BY <1>4 DEF Distinct
  <2>2. s[k] = rs[from[k]] /\ s[l] = rs[from[l]] /\ from[k] \in 1..n /\ from[l] \in 1..n
    BY <1>2
  <2>3. from[k] = from[l]
    BY <1>1, <2>1, <2>2 DEF Distinct
  <2>. QED  BY <1>3, <2>3
<1>7. \A l \in 1..n : \E k \in 1..n : s[k] = rs[l]
  <2>1. from \in Injection(1..n, 1..n)
    <3>1. from \in [1..n -> 1..n]
      <4>1. from = [k \in 1..n |-> from[k]]
        BY DEF from
      <4>. QED  BY <1>2, <4>1
    <3>. QED  BY <1>3, <3>1 DEF Injection, IsInjective
  <2>2. IsFiniteSet(1..n)
    BY <1>1, FS_Interval
  <2>3. from \in Surjection(1..n, 1..n)
    BY <2>1, <2>2, FS_Injection
  <2>4. \A l \in 1..n : \E k \in 1..n : from[k] = l
    BY <2>3 DEF Surjection
  <2> HIDE DEF n
  <2>. QED  BY <1>2, <2>4
<1>. QED  BY <1>1, <1>2, <1>4, <1>5, <1>6, <1>7 DEF s

(* An added row takes the next index, which is then counted up.            *)
LEMMA AddRowInOrder ==
    ASSUME TableInv, NEW line \in Nat, NEW col, AddRow(line, col)
    PROVE  TableInv'
<1> DEFINE row == NewRow(line)
           rs == Append(rows, row)
<1>1. row \in Row /\ row.idx = nextIdx
  BY GridAssumption DEF NewRow, Row, TableInv, TableTypeOK
<1>2. rows \in Seq(Row) /\ Len(rows) \in Nat /\ DOMAIN rows = 1..Len(rows) /\ nextIdx \in Nat
      /\ \A k \in 1..Len(rows) : rows[k].idx < nextIdx /\ rows[k] \in Row
  BY LenProperties DEF TableInv, TableTypeOK, Keyed
<1> HIDE DEF row
<1>3. /\ rs \in Seq(Row) /\ Len(rs) = Len(rows) + 1
      /\ \A k \in 1..Len(rows) : rs[k] = rows[k]
      /\ rs[Len(rows) + 1] = row
  BY <1>1, <1>2, AppendProperties
<1> HIDE DEF rs
<1>4. DOMAIN rs = 1..(Len(rows) + 1)
  BY <1>2, <1>3, LenProperties
<1>5. ASSUME NEW k \in 1..(Len(rows) + 1)
      PROVE  IF k = Len(rows) + 1 THEN rs[k].idx = nextIdx
             ELSE k \in 1..Len(rows) /\ rs[k].idx = rows[k].idx /\ rows[k].idx < nextIdx
                  /\ rows[k].idx \in Nat
  <2>1. CASE k = Len(rows) + 1
    BY <1>1, <1>3, <2>1
  <2>2. CASE k # Len(rows) + 1
    <3>1. k \in 1..Len(rows)
      BY <1>2, <2>2
    <3>2. rows[k] \in Row /\ rows[k].idx < nextIdx /\ rs[k] = rows[k]
      BY <1>2, <1>3, <3>1
    <3>3. rows[k].idx \in Nat
      BY <3>2 DEF Row
    <3>. QED  BY <2>2, <3>1, <3>2, <3>3
  <2>. QED  BY <2>1, <2>2
<1>6. Distinct(rs)
  <2>1. SUFFICES ASSUME NEW k \in 1..(Len(rows) + 1), NEW l \in 1..(Len(rows) + 1),
                        rs[k].idx = rs[l].idx
                 PROVE  k = l
    BY <1>4 DEF Distinct
  <2>2. CASE k = Len(rows) + 1 \/ l = Len(rows) + 1
    BY <1>2, <1>5, <2>1, <2>2
  <2>3. CASE ~(k = Len(rows) + 1 \/ l = Len(rows) + 1)
    BY <1>2, <1>5, <2>1, <2>3 DEF TableInv, Keyed, Distinct
  <2>. QED  BY <2>2, <2>3
<1>7. nextIdx' = nextIdx + 1 /\ Renumbered(rs)
  BY DEF AddRow, rs, row
<1>8. nextIdx' \in Nat /\ \A k \in DOMAIN rs : rs[k].idx < nextIdx'
  BY <1>2, <1>4, <1>5, <1>7
<1>. QED  BY <1>3, <1>6, <1>7, <1>8, RenumberedInOrder

(* Each thing one can do with the table leaves the indices in order.       *)
LEMMA GridStepInOrder ==
    ASSUME TableInv, NEW line \in Nat, GridStep(line)
    PROVE  TableInv'
<1>1. /\ rows \in Seq(Row) /\ Len(rows) \in Nat /\ DOMAIN rows = 1..Len(rows)
      /\ nextIdx \in Nat /\ moved \in BOOLEAN /\ Distinct(rows)
      /\ \A i \in DOMAIN rows : rows[i].idx < nextIdx /\ rows[i] \in Row
  BY LenProperties DEF TableInv, TableTypeOK, Keyed
<1>2. ASSUME NEW col, AddRow(line, col)
      PROVE  TableInv'
  BY <1>2, AddRowInOrder
<1>3. ASSUME UNCHANGED <<rows, nextIdx, moved>>
      PROVE  TableInv'
  BY <1>3 DEF TableInv, TableTypeOK, Keyed, Distinct
<1>4. ASSUME NEW i \in DOMAIN rows, DeleteRow(i)
      PROVE  TableInv'
  <2>1. nextIdx' = nextIdx
    BY <1>4 DEF DeleteRow
  <2>2. CASE rows[i].op = "create"
    <3>1. Renumbered(RemoveAt(rows, i))
      BY <1>4, <2>2 DEF DeleteRow
    <3>2. /\ RemoveAt(rows, i) \in Seq(Row) /\ Distinct(RemoveAt(rows, i))
          /\ \A k \in DOMAIN RemoveAt(rows, i) : RemoveAt(rows, i)[k].idx < nextIdx'
      BY <1>1, <2>1, RemoveKeepsKeys
    <3>. QED  BY <1>1, <2>1, <3>1, <3>2, RenumberedInOrder
  <2>3. CASE rows[i].op # "create"
    <3> DEFINE rs == [rows EXCEPT ![i].op = "delete"]
    <3>1. Renumbered(rs)
      BY <1>4, <2>3 DEF DeleteRow
    <3>2. [rows[i] EXCEPT !.op = "delete"] \in Row
          /\ [rows[i] EXCEPT !.op = "delete"].idx = rows[i].idx
      BY <1>1 DEF Row
    <3>3. rs \in Seq(Row)
      BY <1>1, <3>2, ExceptSeq
    <3>4. DOMAIN rs = DOMAIN rows /\ \A k \in DOMAIN rows : rs[k].idx = rows[k].idx
      BY <1>1, <3>2
    <3> HIDE DEF rs
    <3>. QED  BY <1>1, <2>1, <3>1, <3>3, <3>4, RenumberedInOrder DEF Distinct
  <2>. QED  BY <2>2, <2>3
<1>5. ASSUME NEW i \in DOMAIN rows, NEW v \in Vals, EditCell(i, v)
      PROVE  TableInv'
  <2>1. rows' = [rows EXCEPT ![i].val = v] /\ nextIdx' = nextIdx /\ moved' = moved
    BY <1>5 DEF EditCell
  <2>2. [rows[i] EXCEPT !.val = v] \in Row /\ [rows[i] EXCEPT !.val = v].idx = rows[i].idx
    BY <1>1 DEF Row
  <2>3. rows' \in Seq(Row)
    BY <1>1, <2>1, <2>2, ExceptSeq
  <2>4. DOMAIN rows' = DOMAIN rows /\ \A k \in DOMAIN rows : rows'[k].idx = rows[k].idx
    BY <1>1, <2>1, <2>2
  <2>. QED  BY <1>1, <2>1, <2>3, <2>4 DEF TableInv, TableTypeOK, Keyed, Distinct
<1>6. ASSUME NEW i \in DOMAIN rows, DragStart(i)
      PROVE  TableInv'
  BY <1>3, <1>6 DEF DragStart
<1>7. ASSUME NEW i \in DOMAIN rows, NEW t \in DOMAIN rows, NEW b \in BOOLEAN, DragOver(i, t, b)
      PROVE  TableInv'
  <2>1. PICK j \in DOMAIN rows : rows' = MoveTo(rows, i, j)
    <3>1. i \in 1..Len(rows) /\ t \in 1..Len(rows) /\ t # i
      BY <1>1, <1>7 DEF DragOver
    <3> DEFINE j == IF b THEN IF t < i THEN t ELSE t - 1
                    ELSE IF t < i THEN t + 1 ELSE t
    <3>2. j \in DOMAIN rows
      BY <1>1, <3>1
    <3>3. rows' = MoveTo(rows, i, j)
      BY <1>7 DEF DragOver
    <3>. QED  BY <3>2, <3>3
  <2>2. nextIdx' = nextIdx /\ moved' = TRUE
    BY <1>7 DEF DragOver
  <2>3. /\ rows' \in Seq(Row) /\ Distinct(rows') /\ DOMAIN rows' = DOMAIN rows
        /\ \A k \in DOMAIN rows : \E l \in DOMAIN rows : rows'[k] = rows[l]
    <3> DEFINE s == MoveTo(rows, i, j)
    <3>1. /\ s \in Seq(Row) /\ Distinct(s) /\ DOMAIN s = DOMAIN rows
          /\ \A k \in DOMAIN rows : \E l \in DOMAIN rows : s[k] = rows[l]
      BY <1>1, MoveKeepsKeys
    <3>2. rows' = s
      BY <2>1
    <3> HIDE DEF s
    <3>. QED  BY <3>1, <3>2
  <2>. QED  BY <1>1, <2>2, <2>3 DEF TableInv, TableTypeOK, Keyed, Distinct
<1>8. CASE Drop
  <2>1. Renumbered(rows) /\ nextIdx' = nextIdx
    BY <1>8 DEF Drop
  <2>. QED  BY <1>1, <2>1, RenumberedInOrder
<1>9. CASE DragEnd
  BY <1>3, <1>9 DEF DragEnd
<1>10. ASSUME NEW r, NEW c, ClickCell(r, c)
       PROVE  TableInv'
  BY <1>3, <1>10 DEF ClickCell
<1>11. ASSUME NEW way \in Ways, Press(way[1], way[2], line)
       PROVE  TableInv'
  <2>1. (\E col : AddRow(line, col)) \/ UNCHANGED <<rows, nextIdx, moved>>
    BY <1>11 DEF Press, navigate
  <2>. QED  BY <1>2, <1>3, <2>1
<1>. QED  BY <1>2, <1>4, <1>5, <1>6, <1>7, <1>8, <1>9, <1>10, <1>11 DEF GridStep
-----------------------------------------------------------------------------
(* The table as the server draws it.                                       *)

(* The values of a function on a finite set are finitely many.             *)
LEMMA FiniteRange ==
    ASSUME NEW S, IsFiniteSet(S), NEW f, S = DOMAIN f
    PROVE  IsFiniteSet(Range(f))
<1>1. [x \in S |-> f[x]] \in Surjection(S, Range(f))
  BY DEF Range, Surjection
<1>. QED  BY <1>1, FS_Surjection

(* The rows of a table are finitely many.                                  *)
LEMMA RowsFinite ==
    ASSUME NEW rs \in Seq(Row)
    PROVE  /\ Range(rs) \subseteq Row /\ IsFiniteSet(Range(rs))
           /\ Cardinality(Range(rs)) \in Nat
<1>1. Len(rs) \in Nat /\ DOMAIN rs = 1..Len(rs) /\ \A i \in 1..Len(rs) : rs[i] \in Row
  BY LenProperties
<1>2. Range(rs) \subseteq Row
  BY <1>1 DEF Range
<1>3. IsFiniteSet(1..Len(rs))
  BY <1>1, FS_Interval
<1>4. IsFiniteSet(Range(rs))
  BY <1>1, <1>3, FiniteRange
<1>. QED  BY <1>2, <1>4, FS_CardinalityType

(* Rows in the order of their indices are distinct, and the last one's     *)
(* index is the highest.                                                   *)
LEMMA PlaybackInOrder ==
    ASSUME NEW posted \in Seq(Row), EditPlayback(posted)
    PROVE  TableInv'
<1>1. PICK list \in Playbacks(posted) : Draw(list, NextAfter(list), FALSE)
  BY DEF EditPlayback
<1> DEFINE n == Cardinality(Range(posted))
<1>2. n \in Nat /\ Range(posted) \subseteq Row
  BY RowsFinite
<1>3. /\ list \in [1..n -> Range(posted)]
      /\ \A i, j \in DOMAIN list : i < j => list[i].idx < list[j].idx
  BY <1>1 DEF Playbacks, Orders
<1> HIDE DEF n
<1>4. list \in [1..n -> Row] /\ DOMAIN list = 1..n
  BY <1>2, <1>3
<1>5. list \in Seq(Row)
  BY <1>2, <1>4, SeqDef
<1>6. Len(list) = n
  BY <1>2, <1>4, <1>5, LenProperties
<1>7. \A i \in 1..n : list[i].idx \in Nat
  BY <1>4 DEF Row
<1>8. Distinct(list)
  BY <1>2, <1>3, <1>4, <1>7 DEF Distinct
<1>9. NextAfter(list) \in Nat /\ \A i \in DOMAIN list : list[i].idx < NextAfter(list)
  <2>1. CASE n = 0
    <3>1. list = <<>>
      BY <1>5, <1>6, <2>1, EmptySeq
    <3>. QED  BY <1>4, <2>1, <3>1 DEF NextAfter
  <2>2. CASE n # 0
    <3>1. list # <<>> /\ n \in 1..n
      BY <1>2, <1>6, <2>2
    <3>2. NextAfter(list) = list[n].idx + 1
      BY <1>6, <3>1 DEF NextAfter
    <3>3. ASSUME NEW i \in 1..n
          PROVE  list[i].idx < list[n].idx + 1
      <4>1. i = n \/ list[i].idx < list[n].idx
        BY <1>2, <1>3, <1>4, <3>1
      <4>. QED  BY <1>7, <3>1, <4>1
    <3>. QED  BY <1>4, <1>7, <3>1, <3>2, <3>3
  <2>. QED  BY <2>1, <2>2
<1>. QED  BY <1>1, <1>5, <1>8, <1>9 DEF Draw, TableInv, TableTypeOK, Keyed, Distinct

(* Records are numbered from zero.                                         *)
LEMMA FreshInOrder ==
    ASSUME NEW children \in SUBSET Child, IsFiniteSet(children), EditFresh(children)
    PROVE  TableInv'
<1>1. PICK list \in Listings(children) : Draw(FreshRows(list), Len(list), TRUE)
  BY DEF EditFresh
<1> DEFINE n == Cardinality(children)
           rs == FreshRows(list)
<1>2. n \in Nat
  BY FS_CardinalityType
<1>3. list \in [1..n -> children]
  BY <1>1 DEF Listings, Orders
<1> HIDE DEF n
<1>4. list \in Seq(Child) /\ DOMAIN list = 1..n
  BY <1>2, <1>3, SeqDef
<1>5. Len(list) = n
  BY <1>2, <1>4, LenProperties
<1>6. DOMAIN rs = 1..n
  BY <1>4 DEF FreshRows
<1>7. ASSUME NEW i \in 1..n
      PROVE  rs[i] \in Row /\ rs[i].idx = i - 1
  <2>1. list[i] \in Child
    BY <1>3
  <2>2. rs[i] = [idx |-> i - 1, op |-> "update", id |-> list[i].id, seq |-> list[i].seq,
                 val |-> list[i].val, line |-> list[i].line]
    BY <1>4 DEF FreshRows
  <2>3. i - 1 \in Nat
    BY <1>2
  <2>. QED  BY <2>1, <2>2, <2>3 DEF Row, Child
<1>8. rs \in Seq(Row)
  <2>1. rs = [i \in 1..n |-> rs[i]]
    BY <1>4 DEF FreshRows
  <2> HIDE DEF rs
  <2>2. rs \in [1..n -> Row]
    BY <1>7, <2>1
  <2>. QED  BY <1>2, <2>2, SeqDef
<1> HIDE DEF rs
<1>9. Distinct(rs) /\ \A i \in DOMAIN rs : rs[i].idx < n
  BY <1>2, <1>6, <1>7 DEF Distinct
<1>10. rows' = rs /\ nextIdx' = n /\ moved' \in BOOLEAN
  BY <1>1, <1>5 DEF Draw, rs
<1>. QED  BY <1>2, <1>8, <1>9, <1>10 DEF TableInv, TableTypeOK, Keyed, Distinct

(* No table at all.                                                        *)
LEMMA NoTableInOrder ==
    ASSUME NoTable
    PROVE  TableInv'
BY EmptySeq DEF NoTable, Draw, TableInv, TableTypeOK, Keyed, Distinct
-----------------------------------------------------------------------------
(* The server. Commands make lines of lines, finitely many.                *)
LEMMA CommandsGiveChildren ==
    ASSUME NEW children \in SUBSET Child, IsFiniteSet(children),
           NEW posted \in Seq(Row), NEW last \in Nat
    PROVE  /\ apply_o2m_commands(children, posted, last) \in SUBSET Child
           /\ IsFiniteSet(apply_o2m_commands(children, posted, last))
<1> DEFINE written(c) == {row \in Range(posted) : row.id = c.id /\ row.op = "update"}
           removed == {row.id : row \in {r \in Range(posted) : Struck(r)}}
           left == {x \in children : x.id \notin removed}
           keep == [c \in left |->
                      IF written(c) = {} THEN c
                      ELSE LET row == CHOOSE row \in written(c) : TRUE
                           IN  [c EXCEPT !.seq = row.seq, !.val = row.val]]
           create == [row \in Creates(posted) |->
                        [id |-> last + RankOf(row, Creates(posted)), seq |-> row.seq,
                         val |-> row.val, line |-> row.line]]
<1>1. apply_o2m_commands(children, posted, last) = Range(keep) \union Range(create)
  BY DEF apply_o2m_commands, Range
<1>2. Range(posted) \subseteq Row /\ IsFiniteSet(Range(posted))
  BY RowsFinite
<1>3. ASSUME NEW c \in left
      PROVE  keep[c] \in Child
  <2>1. c \in Child
    OBVIOUS
  <2>2. CASE written(c) = {}
    BY <2>1, <2>2
  <2>3. CASE written(c) # {}
    <3>1. PICK row \in written(c) : keep[c] = [c EXCEPT !.seq = row.seq, !.val = row.val]
      BY <2>3
    <3>2. row \in Row
      BY <1>2
    <3>. QED  BY <2>1, <3>1, <3>2 DEF Row, Child
  <2>. QED  BY <2>2, <2>3
<1>4. Creates(posted) \subseteq Row /\ IsFiniteSet(Creates(posted))
  BY <1>2, FS_Subset DEF Creates
<1>5. ASSUME NEW row \in Creates(posted)
      PROVE  create[row] \in Child
  <2>1. {r \in Creates(posted) : r.idx <= row.idx} \in SUBSET Creates(posted)
    OBVIOUS
  <2>2. RankOf(row, Creates(posted)) \in Nat
    BY <1>4, <2>1, FS_Subset, FS_CardinalityType DEF RankOf
  <2>. QED  BY <1>4, <2>2 DEF Row, Child
<1>6. IsFiniteSet(left)
  BY FS_Subset
<1>7. DOMAIN keep = left /\ DOMAIN create = Creates(posted)
  OBVIOUS
<1>8. Range(keep) \subseteq Child /\ Range(create) \subseteq Child
  <2> HIDE DEF keep, create
  <2>. QED  BY <1>3, <1>5, <1>7 DEF Range
<1> HIDE DEF keep, create, left
<1>9. IsFiniteSet(Range(keep)) /\ IsFiniteSet(Range(create))
  BY <1>4, <1>6, <1>7, FiniteRange
<1>. QED  BY <1>1, <1>8, <1>9, FS_Union

(* What is posted is what the page holds.                                  *)
LEMMA FormIsForm ==
    ASSUME PickerInv, CodeInv, TableInv
    PROVE  Form \in Forms /\ Distinct(Form.rows)
BY DEF PickerInv, PickerTypeOK, CodeInv, CodeTypeOK, TableInv, TableTypeOK, Keyed, Form, Forms

(* And what is drawn again is a form with the same rows.                   *)
LEMMA RedrawnIsForm ==
    ASSUME PageTypeOK, NEW form \in Forms
    PROVE  Redrawn(form) \in Forms /\ Redrawn(form).rows = form.rows
BY DEF PageTypeOK, Forms, Redrawn

(* What a swap puts in the page is in order.                               *)
LEMMA ShowRecordInOrder ==
    ASSUME IInv, ShowRecord
    PROVE  PickerInv' /\ CodeInv' /\ TableInv'
<1>1. db.code \in Doc
  BY DEF IInv, PageTypeOK
<1>2. PickerInv'
  BY WirePickerInOrder DEF IInv, ShowRecord
<1>3. CodeInv'
  BY <1>1, CodeKept DEF IInv, ShowRecord
<1>4. TableInv'
  BY NoTableInOrder DEF ShowRecord
<1>. QED  BY <1>2, <1>3, <1>4

LEMMA ShowFormInOrder ==
    ASSUME IInv, ShowForm
    PROVE  PickerInv' /\ CodeInv' /\ TableInv'
<1>1. db.code \in Doc /\ db.stamp \in Stamp /\ db.children \in SUBSET Child
  BY DEF IInv, PageTypeOK
<1>2. PickerInv'
  BY <1>1, WirePickerInOrder DEF IInv, ShowForm
<1>3. CodeInv'
  BY <1>1, CodeKept DEF IInv, ShowForm
<1>4. TableInv'
  BY <1>1, FreshInOrder DEF IInv, ShowForm
<1>. QED  BY <1>2, <1>3, <1>4

LEMMA ShowAgainInOrder ==
    ASSUME IInv, NEW form \in Forms, ShowAgain(form)
    PROVE  PickerInv' /\ CodeInv' /\ TableInv'
<1>1. form.code \in Doc /\ form.stamp \in Stamp \union {Empty} /\ form.rows \in Seq(Row)
  BY DEF Forms
<1>2. PickerInv'
  BY <1>1, WirePickerInOrder DEF IInv, ShowAgain
<1>3. CodeInv'
  BY <1>1, CodeKept DEF IInv, ShowAgain
<1>4. TableInv'
  BY <1>1, PlaybackInOrder DEF ShowAgain
<1>. QED  BY <1>2, <1>3, <1>4
-----------------------------------------------------------------------------
(* The page: what its actions leave alone stays in order.                  *)
LEMMA TableKept ==
    ASSUME TableInv, UNCHANGED gridVars
    PROVE  TableInv'
BY DEF TableInv, TableTypeOK, Keyed, Distinct, gridVars

LEMMA PickerKept ==
    ASSUME PickerInv, UNCHANGED pickerVars
    PROVE  PickerInv'
BY DEF PickerInv, PickerTypeOK, PanelInOrder, pickerVars

RecordInv ==
    /\ db \in [children : SUBSET Child, stamp : Stamp, code : Doc]
    /\ lastId \in Nat /\ lines \in Nat /\ IsFiniteSet(db.children)
SaveInv == save \in SaveRequest \union {None} /\ (save # None => Distinct(save.form.rows))
LiveInv == live \in LiveRequest \union {None} /\ (live # None => Distinct(live.form.rows))

LEMMA IInvParts ==
    /\ IInv <=> PickerInv /\ CodeInv /\ TableInv /\ RecordInv /\ SaveInv /\ LiveInv
    /\ IInv' <=> PickerInv' /\ CodeInv' /\ TableInv' /\ RecordInv' /\ SaveInv' /\ LiveInv'
BY DEF IInv, PageTypeOK, RequestInv, RecordInv, SaveInv, LiveInv

LEMMA RecordKept ==
    ASSUME RecordInv, UNCHANGED <<db, lastId, lines>>
    PROVE  RecordInv'
BY DEF RecordInv

LEMMA SaveKept ==
    ASSUME SaveInv, UNCHANGED save
    PROVE  SaveInv'
BY DEF SaveInv, Distinct

LEMMA LiveKept ==
    ASSUME LiveInv, UNCHANGED live
    PROVE  LiveInv'
BY DEF LiveInv, Distinct

(* A page that opens on any record is in order.                            *)
LEMMA InitInOrder == Init => IInv
<1>1. SUFFICES ASSUME Init PROVE IInv
  OBVIOUS
<1>2. db \in [children : SUBSET Child, stamp : Stamp, code : Doc] /\ IsFiniteSet(db.children)
  BY <1>1, PageAssumption DEF Init
<1>3. RecordInv
  BY <1>1, <1>2, FS_CardinalityType DEF Init, RecordInv
<1>4. PickerInv
  BY <1>1, PickerAssumption
     DEF Init, PickerInv, PickerTypeOK, PanelInOrder, parseHidden, Stamp, Draft
<1>5. CodeInv
  BY <1>1, <1>2 DEF Init, CodeInv, CodeTypeOK
<1>6. TableInv
  <2>1. rows = <<>> /\ nextIdx = 0 /\ moved = FALSE
    BY <1>1 DEF Init
  <2>2. rows \in Seq(Row) /\ Len(rows) = 0 /\ DOMAIN rows = {}
    BY <2>1, EmptySeq
  <2>. QED  BY <2>1, <2>2 DEF TableInv, TableTypeOK, Keyed, Distinct
<1>7. SaveInv /\ LiveInv
  BY <1>1 DEF Init, SaveInv, LiveInv
<1>. QED  BY <1>3, <1>4, <1>5, <1>6, <1>7, IInvParts

(* Requests: what is sent, what the server does with it, what is drawn.    *)
LEMMA SaveInOrder ==
    ASSUME IInv, Save
    PROVE  IInv'
<1>1. PickerInv' /\ TableInv' /\ RecordInv' /\ LiveInv'
  BY IInvParts, PickerKept, TableKept, RecordKept, LiveKept DEF Save, countVars
<1>2. code \in Doc /\ CodeInv
  BY DEF IInv, CodeInv, CodeTypeOK
<1>3. CodeInv'
  BY <1>2, CodeKept DEF Save
<1>4. Form \in Forms /\ Distinct(Form.rows)
  BY FormIsForm DEF IInv
<1>5. SaveInv'
  <2> DEFINE f == Form
  <2>1. save' = [form |-> f, status |-> "sent"]
    BY DEF Save
  <2> HIDE DEF f
  <2>2. save' \in SaveRequest /\ save'.form = f
    BY <1>4, <2>1 DEF SaveRequest, f
  <2>3. Distinct(save'.form.rows)
    BY <1>4, <2>2 DEF f
  <2>4. (save # None => Distinct(save.form.rows))' <=> (save' # None => Distinct(save'.form.rows))
    BY DEF Distinct
  <2>. QED  BY <2>2, <2>3, <2>4 DEF SaveInv
<1>. QED  BY <1>1, <1>3, <1>5, IInvParts

LEMMA SaveRefusedInOrder ==
    ASSUME IInv, SaveRefused
    PROVE  IInv'
<1>1. PickerInv' /\ TableInv' /\ RecordInv' /\ LiveInv'
  BY IInvParts, PickerKept, TableKept, RecordKept, LiveKept DEF SaveRefused, countVars
<1>2. CodeInv'
  BY CodeKept DEF IInv, CodeInv, CodeTypeOK, SaveRefused
<1>3. save \in SaveRequest /\ Distinct(save.form.rows)
  BY DEF IInv, PageTypeOK, RequestInv, SaveRefused
<1>4. save.form \in Forms
  BY <1>3 DEF SaveRequest
<1>5. Redrawn(save.form) \in Forms /\ Redrawn(save.form).rows = save.form.rows
  BY <1>4, RedrawnIsForm DEF IInv
<1>6. save' = [form |-> Redrawn(save.form), status |-> "refused"]
  BY DEF SaveRefused
<1>7. save' \in SaveRequest /\ save'.form.rows = save.form.rows
  BY <1>5, <1>6 DEF SaveRequest
<1>8. SaveInv'
  BY <1>3, <1>7 DEF SaveInv, Distinct
<1>. QED  BY <1>1, <1>2, <1>8, IInvParts

LEMMA SaveCommittedInOrder ==
    ASSUME IInv, SaveCommitted
    PROVE  IInv'
<1>1. PickerInv' /\ TableInv' /\ LiveInv'
  BY IInvParts, PickerKept, TableKept, LiveKept DEF SaveCommitted
<1>2. CodeInv'
  BY CodeKept DEF IInv, CodeInv, CodeTypeOK, SaveCommitted
<1>3. save \in SaveRequest /\ Distinct(save.form.rows)
  BY DEF IInv, PageTypeOK, RequestInv, SaveCommitted
<1>4. save.form \in Forms /\ save' = [save EXCEPT !.status = "saved"]
  BY <1>3 DEF SaveRequest, SaveCommitted
<1>5. save' \in SaveRequest /\ save'.form = save.form
  BY <1>3, <1>4 DEF SaveRequest
<1>6. SaveInv'
  BY <1>3, <1>5 DEF SaveInv, Distinct
<1>7. /\ save.form.rows \in Seq(Row) /\ save.form.code \in Doc
      /\ save.form.stamp \in Stamp
  BY <1>4 DEF Forms, SaveCommitted, Invalid
<1>8. db.children \in SUBSET Child /\ IsFiniteSet(db.children) /\ lastId \in Nat /\ lines \in Nat
  BY DEF IInv, PageTypeOK
<1> DEFINE made == apply_o2m_commands(db.children, save.form.rows, lastId)
<1>9. made \in SUBSET Child /\ IsFiniteSet(made)
  BY <1>7, <1>8, CommandsGiveChildren
<1>10. Cardinality(Creates(save.form.rows)) \in Nat
  <2>1. Creates(save.form.rows) \in SUBSET Range(save.form.rows)
    BY DEF Creates
  <2>. QED  BY <1>7, <2>1, RowsFinite, FS_Subset, FS_CardinalityType
<1>11. /\ db' = [children |-> made, stamp |-> save.form.stamp, code |-> save.form.code]
       /\ lastId' = lastId + Cardinality(Creates(save.form.rows)) /\ lines' = lines
  BY DEF SaveCommitted, countVars
<1> HIDE DEF made
<1>12. RecordInv'
  BY <1>7, <1>8, <1>9, <1>10, <1>11 DEF RecordInv
<1>. QED  BY <1>1, <1>2, <1>6, <1>12, IInvParts

LEMMA ChangeLiveInOrder ==
    ASSUME IInv, ChangeLive
    PROVE  IInv'
<1>1. PickerInv' /\ TableInv' /\ RecordInv' /\ SaveInv'
  BY IInvParts, PickerKept, TableKept, RecordKept, SaveKept DEF ChangeLive, countVars
<1>2. code \in Doc /\ CodeInv
  BY DEF IInv, CodeInv, CodeTypeOK
<1>3. CodeInv'
  BY <1>2, CodeKept DEF ChangeLive
<1>4. Form \in Forms /\ Distinct(Form.rows)
  BY FormIsForm DEF IInv
<1>5. LiveInv'
  <2> DEFINE f == Form
  <2>1. live' = [form |-> f, status |-> "sent", old |-> FALSE]
    BY DEF ChangeLive
  <2> HIDE DEF f
  <2>2. live' \in LiveRequest /\ live'.form = f
    BY <1>4, <2>1 DEF LiveRequest, f
  <2>3. Distinct(live'.form.rows)
    BY <1>4, <2>2 DEF f
  <2>4. (live # None => Distinct(live.form.rows))' <=> (live' # None => Distinct(live'.form.rows))
    BY DEF Distinct
  <2>. QED  BY <2>2, <2>3, <2>4 DEF LiveInv
<1>. QED  BY <1>1, <1>3, <1>5, IInvParts

LEMMA LiveDrawnInOrder ==
    ASSUME IInv, LiveDrawn
    PROVE  IInv'
<1>1. PickerInv' /\ TableInv' /\ RecordInv' /\ SaveInv'
  BY IInvParts, PickerKept, TableKept, RecordKept, SaveKept DEF LiveDrawn, countVars
<1>2. CodeInv'
  BY CodeKept DEF IInv, CodeInv, CodeTypeOK, LiveDrawn
<1>3. live \in LiveRequest /\ Distinct(live.form.rows)
  BY DEF IInv, PageTypeOK, RequestInv, LiveDrawn
<1>4. live.form \in Forms
  BY <1>3 DEF LiveRequest
<1>5. Redrawn(live.form) \in Forms /\ Redrawn(live.form).rows = live.form.rows
  BY <1>4, RedrawnIsForm DEF IInv
<1>6. live' = [live EXCEPT !.status = "drawn", !.form = Redrawn(live.form)]
  BY DEF LiveDrawn
<1>7. live' \in LiveRequest /\ live'.form.rows = live.form.rows
  BY <1>3, <1>5, <1>6 DEF LiveRequest
<1>8. LiveInv'
  BY <1>3, <1>7 DEF LiveInv, Distinct
<1>. QED  BY <1>1, <1>2, <1>8, IInvParts

(* A swap takes a request away, or none, or marks one as old.              *)
LEMMA SwapInOrder ==
    ASSUME IInv, UNCHANGED <<db, lastId, lines>>,
           ShowRecord \/ ShowForm \/ (\E form \in Forms : ShowAgain(form)),
           save' \in {save, None},
           live' \in {live, None} \/ (live # None /\ live' = [live EXCEPT !.old = TRUE])
    PROVE  IInv'
<1>1. PickerInv' /\ CodeInv' /\ TableInv'
  BY ShowRecordInOrder, ShowFormInOrder, ShowAgainInOrder
<1>2. RecordInv'
  BY IInvParts, RecordKept
<1>3. SaveInv /\ LiveInv
  BY IInvParts
<1>4. SaveInv'
  BY <1>3 DEF SaveInv, Distinct
<1>5. LiveInv'
  <2>1. CASE live' \in {live, None}
    BY <1>3, <2>1 DEF LiveInv, Distinct
  <2>2. CASE live # None /\ live' = [live EXCEPT !.old = TRUE]
    <3>1. live' \in LiveRequest /\ live'.form = live.form
      BY <1>3, <2>2 DEF LiveInv, LiveRequest
    <3>. QED  BY <1>3, <2>2, <3>1 DEF LiveInv, Distinct
  <2>. QED  BY <2>1, <2>2
<1>. QED  BY <1>1, <1>2, <1>4, <1>5, IInvParts

(* Every step of the page keeps it in order.                               *)
LEMMA NextInOrder ==
    ASSUME IInv, [Next]_vars
    PROVE  IInv'
<1> USE DEF countVars, pageVars
<1>0. PickerInv /\ CodeInv /\ TableInv /\ RecordInv /\ SaveInv /\ LiveInv /\ code \in Doc
  BY IInvParts DEF CodeInv, CodeTypeOK
<1>1. CASE Edit
  BY <1>1, SwapInOrder DEF Edit
<1>2. CASE Cancel
  BY <1>2, SwapInOrder DEF Cancel
<1>3. CASE EditGrid
  <2>1. lines \in Nat /\ lines' \in Nat /\ UNCHANGED <<db, lastId>>
    BY <1>0, <1>3 DEF EditGrid, RecordInv
  <2>2. TableInv'
    BY <1>0, <1>3, <2>1, GridStepInOrder DEF EditGrid
  <2>3. RecordInv'
    BY <1>0, <2>1 DEF RecordInv
  <2>4. CodeInv'
    BY <1>0, <1>3, CodeKept DEF EditGrid
  <2>. QED
    BY <1>0, <1>3, <2>2, <2>3, <2>4, IInvParts, PickerKept, SaveKept, LiveKept DEF EditGrid
<1>4. CASE EditPicker
  <2>1. PickerStep
    BY <1>4 DEF EditPicker, PickerStep
  <2>2. PickerInv' /\ CodeInv'
    BY <1>0, <1>4, <2>1, PickerStepInOrder, CodeKept DEF EditPicker
  <2>. QED
    BY <1>0, <1>4, <2>2, IInvParts, TableKept, RecordKept, SaveKept, LiveKept DEF EditPicker
<1>5. CASE EditCode
  <2>1. CodeInv'
    BY <1>0, <1>5, CodeStepInOrder DEF EditCode
  <2>. QED
    BY <1>0, <1>5, <2>1, IInvParts, TableKept, PickerKept, RecordKept, SaveKept, LiveKept
       DEF EditCode
<1>6. CASE MountCode
  <2>1. CodeInv'
    BY <1>0, <1>6, CodeKept DEF MountCode
  <2>. QED
    BY <1>0, <1>6, <2>1, IInvParts, TableKept, PickerKept, RecordKept, SaveKept, LiveKept
       DEF MountCode
<1>7. CASE RefusalShown
  <2>1. save.form \in Forms
    BY <1>0, <1>7 DEF RefusalShown, SaveInv, SaveRequest
  <2>. QED  BY <1>7, <2>1, SwapInOrder DEF RefusalShown
<1>8. CASE SaveShown
  BY <1>8, SwapInOrder DEF SaveShown
<1>9. CASE SaveLost
  <2>1. SaveInv'
    BY <1>9 DEF SaveLost, SaveInv
  <2>2. CodeInv'
    BY <1>0, <1>9, CodeKept DEF SaveLost
  <2>. QED
    BY <1>0, <1>9, <2>1, <2>2, IInvParts, TableKept, PickerKept, RecordKept, LiveKept
       DEF SaveLost
<1>10. CASE LiveShown
  <2>1. live.form \in Forms
    BY <1>0, <1>10 DEF LiveShown, LiveInv, LiveRequest
  <2>. QED  BY <1>10, <2>1, SwapInOrder DEF LiveShown
<1>11. CASE UNCHANGED vars
  <2>1. CodeInv'
    BY <1>0, <1>11, CodeKept DEF vars
  <2>. QED
    BY <1>0, <1>11, <2>1, IInvParts, TableKept, PickerKept, RecordKept, SaveKept, LiveKept
       DEF vars
<1>. QED
  BY <1>1, <1>2, <1>3, <1>4, <1>5, <1>6, <1>7, <1>8, <1>9, <1>10, <1>11, SaveInOrder,
     SaveRefusedInOrder, SaveCommittedInOrder, ChangeLiveInOrder, LiveDrawnInOrder DEF Next

LEMMA AlwaysInOrder == Spec => []IInv
BY InitInOrder, NextInOrder, PTL DEF Spec
-----------------------------------------------------------------------------
(* Two rows are never posted under one index, whatever was added, removed, *)
(* dragged or drawn again, in the page or in a request on its way.         *)
THEOREM KeysStayDistinct == Spec => []KeysDistinct
<1>1. IInv => KeysDistinct
  BY DEF IInv, TableInv, Keyed, RequestInv, KeysDistinct
<1>. QED  BY <1>1, AlwaysInOrder, PTL

(* An open panel shows its draft and has its listener, a closed one has    *)
(* none, and two are never open.                                           *)
THEOREM PanelStaysInOrder == Spec => []PanelInOrder
<1>1. IInv => PanelInOrder
  BY DEF IInv, PickerInv
<1>. QED  BY <1>1, AlwaysInOrder, PTL

(* The datetime's label and the code's view show what a save would post.   *)
THEOREM ShownIsAlwaysPosted == Spec => []ShownIsPosted
<1>1. IInv => ShownIsPosted
  BY DEF IInv, PickerInv, CodeInv, ShownIsPosted
<1>. QED  BY <1>1, AlwaysInOrder, PTL

(* Drawing rows again gives the same rows, struck ones included: as many   *)
(* as there are, none twice.                                               *)
LEMMA PlaybackKeepsRows ==
    ASSUME NEW posted \in Seq(Row), EditPlayback(posted)
    PROVE  Range(rows') = Range(posted)
<1> DEFINE S == Range(posted)
           n == Cardinality(S)
<1>1. PICK list \in Playbacks(posted) : rows' = list
  BY DEF EditPlayback, Draw
<1>2. S \subseteq Row /\ IsFiniteSet(S) /\ n \in Nat
  BY RowsFinite
<1>3. /\ list \in [1..n -> S]
      /\ \A i, j \in DOMAIN list : i < j => list[i].idx < list[j].idx
  BY <1>1 DEF Playbacks, Orders
<1>4. Cardinality(1..n) = n
  BY <1>2, FS_Interval
<1> HIDE DEF S, n
<1>5. list \in Injection(1..n, S)
  <2>1. \A i \in 1..n : list[i].idx \in Nat
    BY <1>2, <1>3 DEF Row
  <2>2. \A i, j \in 1..n : list[i] = list[j] => i = j
    BY <1>2, <1>3, <2>1
  <2>. QED  BY <1>3, <2>2 DEF Injection, IsInjective
<1>6. list \in Surjection(1..n, S)
  BY <1>2, <1>4, <1>5, FS_Injection DEF n
<1>7. Range(list) = S
  BY <1>3, <1>6 DEF Surjection, Range
<1>. QED  BY <1>1, <1>7 DEF S

(* A form drawn again with nothing entered since keeps its rows, its       *)
(* datetime unless it was refused, and its code.                           *)
THEOREM RedrawAlwaysKeepsEdits == Spec => RedrawKeepsEdits
<1> DEFINE Kept == /\ Range(rows') = Range(rows) /\ code' = code
                   /\ hidden # Empty => hidden' = hidden
<1>1. ASSUME NEW form \in Forms, ShowAgain(form), Unedited(form)
      PROVE  Kept
  <2>1. Range(rows') = Range(form.rows)
    BY <1>1, PlaybackKeepsRows DEF ShowAgain, Forms
  <2>2. hidden' = form.stamp /\ code' = form.code
    BY <1>1 DEF ShowAgain, wirePicker, initCode
  <2>. QED  BY <1>1, <2>1, <2>2 DEF Unedited
<1>2. ASSUME IInv, RefusalShown, Unedited(save.form)
      PROVE  Kept
  <2>1. save.form \in Forms /\ ShowAgain(save.form)
    BY <1>2 DEF RefusalShown, IInv, PageTypeOK, SaveRequest
  <2>. QED  BY <1>1, <1>2, <2>1
<1>3. ASSUME IInv, LiveShown, Unedited(live.form)
      PROVE  Kept
  <2>1. live.form \in Forms /\ ShowAgain(live.form)
    BY <1>3 DEF LiveShown, IInv, PageTypeOK, LiveRequest
  <2>. QED  BY <1>1, <1>3, <2>1
<1>4. IInv => [\/ RefusalShown /\ Unedited(save.form)
               \/ LiveShown /\ Unedited(live.form)
               => /\ Range(rows') = Range(rows) /\ code' = code
                  /\ hidden # Empty => hidden' = hidden]_vars
  BY <1>2, <1>3
<1>. QED  BY <1>4, AlwaysInOrder, PTL DEF RedrawKeepsEdits
=============================================================================
