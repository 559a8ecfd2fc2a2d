------------------------------ MODULE O2mGrid -------------------------------
(***************************************************************************)
(* The inline One2many table of an edit form: the rows as the server draws *)
(* them (render.py, _edit_o2m_table), what static/pv_o2m_grid.js does to   *)
(* them, and the commands the server makes of them when they are posted.   *)
(*                                                                         *)
(* A row is known to the form by its index, `idx`; the order on the screen *)
(* is the order of the sequence `rows`; the sequence field is the hidden   *)
(* input the drag handle stands for, in units of ten. A row that is struck *)
(* out has op "delete". `line` says which child, or which line the user    *)
(* added, a row stands for; no code reads it. Tables without a sequence    *)
(* field, which have no drag handle, are left out; so are widths, classes  *)
(* and the other editors of a cell.                                        *)
(***************************************************************************)
EXTENDS Integers, SequencesExt

CONSTANTS Vals,     \* what a line's cells may hold
          Blank,    \* what they hold in a new line
          Cols,     \* editable cells of a line
          MaxRows,  \* lines in the table
          Nobody    \* no record, no row, no cell, no request

ASSUME GridAssumption == Blank \in Vals /\ Cols \in Nat \ {0} /\ MaxRows \in Nat

VARIABLES rows, nextIdx, dragged, focus,
          moved     \* history: on the screen the order is not known to be the stored one

gridVars == <<rows, nextIdx, dragged, focus, moved>>

Row == [idx : Nat, op : {"create", "update", "delete"}, id : Nat \union {Nobody},
        seq : Nat, val : Vals, line : Nat]
Child == [id : Nat, seq : Nat, val : Vals, line : Nat]
Cell == [idx : Nat, col : 1..Cols]

Struck(row) == row.op = "delete"
Live(rs) == {i \in DOMAIN rs : ~Struck(rs[i])}
Rank(S, i) == Cardinality({j \in S : j <= i})

(* The rows that are not struck out, in their order.                       *)
rowsIn(rs) ==
    [k \in 1..Cardinality(Live(rs)) |-> rs[CHOOSE i \in Live(rs) : Rank(Live(rs), i) = k]]

(* The ways to write the members of S one after the other by `Before`.     *)
Orders(S, Before(_, _)) ==
    {s \in [1..Cardinality(S) -> S] : \A i, j \in DOMAIN s : i < j => Before(s[i], s[j])}

-----------------------------------------------------------------------------
(* The table as the server draws it: from the records, in the order of the *)
(* sequence field, or from a posted form, in the order of the indices.     *)
Listings(children) ==
    Orders(children, LAMBDA a, b : a.seq < b.seq \/ (a.seq = b.seq /\ a.id < b.id))

FreshRows(list) ==
    [i \in DOMAIN list |->
        [idx |-> i - 1, op |-> "update", id |-> list[i].id, seq |-> list[i].seq,
         val |-> list[i].val, line |-> list[i].line]]

(* Mutant: a struck row is not drawn again.                                *)
PlaybacksOfLive(posted) == Orders(Range(rowsIn(posted)), LAMBDA a, b : a.idx < b.idx)

Playbacks(posted) == Orders(Range(posted), LAMBDA a, b : a.idx < b.idx)

(* Mutant: the rows are counted instead.                                   *)
NextAfterCount(rs) == Len(rs)

(* max(idx) + 1                                                            *)
NextAfter(rs) == IF rs = <<>> THEN 0 ELSE rs[Len(rs)].idx + 1

(* A table drawn anew.                                                     *)
Draw(rs, next, known) ==
    /\ rows' = rs /\ nextIdx' = next /\ moved' = ~known
    /\ dragged' = Nobody /\ focus' = Nobody

EditFresh(children) == \E list \in Listings(children) : Draw(FreshRows(list), Len(list), TRUE)
EditPlayback(posted) == \E list \in Playbacks(posted) : Draw(list, NextAfter(list), FALSE)
NoTable == Draw(<<>>, 0, TRUE)

-----------------------------------------------------------------------------
(* Mutant: a row that has a number keeps it.                               *)
renumberNew(rs) ==
    [i \in DOMAIN rs |-> IF Struck(rs[i]) \/ rs[i].seq # 0 THEN rs[i]
                         ELSE [rs[i] EXCEPT !.seq = i]]

(* Positions are counted over struck rows too.                             *)
renumber(rs) == [i \in DOMAIN rs |-> IF Struck(rs[i]) THEN rs[i] ELSE [rs[i] EXCEPT !.seq = i]]

Renumbered(rs) == rows' = renumber(rs) /\ moved' = FALSE

NewRow(line) ==
    [idx |-> nextIdx, op |-> "create", id |-> Nobody, seq |-> 0, val |-> Blank, line |-> line]

AddRow(line, col) ==
    /\ Len(rows) < MaxRows
    /\ Renumbered(Append(rows, NewRow(line)))
    /\ nextIdx' = nextIdx + 1
    /\ focus' = [idx |-> nextIdx, col |-> col]
    /\ UNCHANGED dragged

(* The delete button takes the focus, in a struck row it keeps it.         *)
DeleteRow(i) ==
    /\ ~Struck(rows[i]) /\ dragged = Nobody
    /\ IF rows[i].op = "create"
         THEN Renumbered(RemoveAt(rows, i)) /\ focus' = Nobody
         ELSE /\ Renumbered([rows EXCEPT ![i].op = "delete"])
              /\ focus' = [idx |-> rows[i].idx, col |-> 1]
    /\ UNCHANGED <<nextIdx, dragged>>

EditCell(i, v) ==
    /\ dragged = Nobody /\ ~Struck(rows[i]) /\ v # rows[i].val
    /\ focus # Nobody /\ focus.idx = rows[i].idx
    /\ rows' = [rows EXCEPT ![i].val = v]
    /\ UNCHANGED <<nextIdx, dragged, focus, moved>>

(* dragover moves the row at once; drop writes the numbers; a drag that    *)
(* ends elsewhere leaves the row where it is.                              *)
DragStart(i) ==
    /\ dragged = Nobody /\ ~Struck(rows[i])
    /\ dragged' = rows[i].idx
    /\ UNCHANGED <<rows, nextIdx, focus, moved>>

MoveTo(rs, i, j) ==
    [k \in DOMAIN rs |->
        IF k = j THEN rs[i]
        ELSE IF i <= k /\ k < j THEN rs[k + 1]
        ELSE IF j < k /\ k <= i THEN rs[k - 1]
        ELSE rs[k]]

DragOver(i, target, before) ==
    /\ dragged # Nobody /\ rows[i].idx = dragged
    /\ target # i /\ ~Struck(rows[target])
    /\ LET j == IF before THEN IF target < i THEN target ELSE target - 1
                ELSE IF target < i THEN target + 1 ELSE target
       IN  j # i /\ rows' = MoveTo(rows, i, j)
    /\ moved' = TRUE
    /\ UNCHANGED <<nextIdx, dragged, focus>>

Drop ==
    /\ dragged # Nobody /\ dragged' = Nobody
    /\ Renumbered(rows)
    /\ UNCHANGED <<nextIdx, focus>>

DragEnd ==
    /\ dragged # Nobody /\ dragged' = Nobody
    /\ UNCHANGED <<rows, nextIdx, focus, moved>>

-----------------------------------------------------------------------------
(* The keyboard. Rows are counted from 1 here, so that 0 is the row of a   *)
(* focus that is not on the list (indexOf gives -1).                       *)
RowOf(idx) == SelectInSeq(rowsIn(rows), LAMBDA row : row.idx = idx)

focusCell(r, c) == focus' = [idx |-> rowsIn(rows)[r].idx, col |-> c]

ClickCell(r, c) ==
    /\ dragged = Nobody /\ focusCell(r, c)
    /\ UNCHANGED <<rows, nextIdx, dragged, moved>>

(* Mutant: the column is held back like the row.                           *)
navigateClamped(r, c, dRow, dCol, line) ==
    LET live == rowsIn(rows)
        col == IF c + dCol > Cols THEN Cols ELSE IF c + dCol < 1 THEN 1 ELSE c + dCol
        to == r + dRow
    IN  IF live = <<>> \/ to > Len(live)
          THEN AddRow(line, col)
          ELSE /\ focusCell(IF to < 1 THEN 1 ELSE to, col)
               /\ UNCHANGED <<rows, nextIdx, dragged, moved>>

(* Past the last row going on adds a line; before the first one the row,   *)
(* and not the column, is held back.                                       *)
navigate(r, c, dRow, dCol, line) ==
    LET live == rowsIn(rows)
        over == c + dCol > Cols
        under == c + dCol < 1
        col == IF over THEN 1 ELSE IF under THEN Cols ELSE c + dCol
        to == r + dRow + (IF over THEN 1 ELSE IF under THEN -1 ELSE 0)
    IN  IF live = <<>>
          THEN (dRow > 0 \/ dCol # 0) /\ AddRow(line, 1)
          ELSE IF to > Len(live)
          THEN AddRow(line, col)
          ELSE /\ focusCell(IF to < 1 THEN 1 ELSE to, col)
               /\ UNCHANGED <<rows, nextIdx, dragged, moved>>

(* Tab, Shift+Tab, Enter, and the arrows where a text field lets them go.  *)
Press(dRow, dCol, line) ==
    /\ dragged = Nobody /\ focus # Nobody
    /\ navigate(RowOf(focus.idx), focus.col, dRow, dCol, line)

Ways == {<<1, 0>>, <<-1, 0>>, <<0, 1>>, <<0, -1>>}

GridStep(line) ==
    \/ AddRow(line, 1) /\ dragged = Nobody
    \/ \E i \in DOMAIN rows :
         \/ DeleteRow(i) \/ DragStart(i)
         \/ \E v \in Vals : EditCell(i, v)
         \/ \E t \in DOMAIN rows, b \in BOOLEAN : DragOver(i, t, b)
    \/ Drop \/ DragEnd
    \/ \E r \in 1..Len(rowsIn(rows)), c \in 1..Cols : ClickCell(r, c)
    \/ \E way \in Ways : Press(way[1], way[2], line)

-----------------------------------------------------------------------------
(* What the server makes of posted rows: a command per row, in the order   *)
(* of the indices (harvest_o2m_commands), carried out in that order        *)
(* (apply_o2m_commands). A record that is gone is neither written nor      *)
(* removed, and nothing fails.                                             *)
BadRows(posted, Rejected) ==
    \E i \in DOMAIN posted : ~Struck(posted[i]) /\ posted[i].val \in Rejected

Creates(posted) == {row \in Range(posted) : row.op = "create"}
RankOf(row, S) == Cardinality({r \in S : r.idx <= row.idx})

apply_o2m_commands(children, posted, last) ==
    LET written(c) == {row \in Range(posted) : row.id = c.id /\ row.op = "update"}
        removed == {row.id : row \in {r \in Range(posted) : Struck(r)}}
    IN  {IF written(c) = {} THEN c
         ELSE LET row == CHOOSE row \in written(c) : TRUE
              IN  [c EXCEPT !.seq = row.seq, !.val = row.val]
            : c \in {x \in children : x.id \notin removed}}
        \union
        {[id |-> last + RankOf(row, Creates(posted)), seq |-> row.seq, val |-> row.val,
          line |-> row.line] : row \in Creates(posted)}

-----------------------------------------------------------------------------
TableTypeOK == rows \in Seq(Row) /\ nextIdx \in Nat /\ moved \in BOOLEAN
CursorTypeOK == dragged \in Nat \union {Nobody} /\ focus \in Cell \union {Nobody}
=============================================================================
