--------------------------- MODULE FormLinesProofs ---------------------------
(***************************************************************************)
(* Proofs about the lines of FormPage, for any records, values and bounds: *)
(* a line is created once, the page's types, what Tab does, and that a     *)
(* save stores what was on the screen. Each part begins with its argument. *)
(*                                                                         *)
(* The first is a count. A line that the form offers to create, in the     *)
(* page or in a request on its way, is stored at most as often as an       *)
(* answer was lost or came late; committing a save stores it once more and *)
(* leaves nothing to offer until the answer is drawn, and the form gone,   *)
(* or lost.                                                                *)
(***************************************************************************)
EXTENDS FormPageProofs

(* The lines the rows would create; a line is in one row only.             *)
New(rs) == {k \in DOMAIN rs : rs[k].op = "create"}
Offers(rs) == {rs[i].line : i \in New(rs)}
Once(rs) == \A i, j \in New(rs) : rs[i].line = rs[j].line => rs[i].idx = rs[j].idx
Upto(rs, n) == Once(rs) /\ \A i \in New(rs) : rs[i].line <= n

(* Lines never have a number that is still to be given.                    *)
NumberInv ==
    /\ Upto(rows, lines)
    /\ save # None => Upto(save.form.rows, lines)
    /\ live # None => Upto(live.form.rows, lines)
    /\ \A c \in db.children : c.line <= lines

(* What the next save may create; nothing counts while the answer to one   *)
(* that was committed is on its way.                                       *)
Offering == save = None \/ save.status # "saved"
Offered(k) ==
    \/ k \in Offers(rows)
    \/ save # None /\ k \in Offers(save.form.rows)
    \/ live # None /\ ~live.old /\ k \in Offers(live.form.rows)
StoredIn(children, k) == Cardinality({c \in children : c.line = k})
CountInv ==
    /\ lost \in Nat /\ late \in Nat
    /\ \A k \in Nat : StoredIn(db.children, k) <= 1 + lost + late
    /\ Offering => \A k \in Nat : Offered(k) => StoredIn(db.children, k) <= lost + late

LinesInv == NumberInv /\ CountInv
-----------------------------------------------------------------------------
(* Rows, of which those that create something were there before.           *)
Within(ss, rs) ==
    \A i \in New(ss) : \E j \in New(rs) : ss[i].idx = rs[j].idx /\ ss[i].line = rs[j].line

LEMMA WithinOffers ==
    ASSUME NEW rs, NEW ss, Within(ss, rs), NEW n \in Nat
    PROVE  /\ Upto(rs, n) => Upto(ss, n)
           /\ Offers(ss) \subseteq Offers(rs)
BY DEF Within, Upto, Once, Offers

(* Renumbering creates what would have been created.                       *)
LEMMA RenumberWithin ==
    ASSUME NEW rs \in Seq(Row)
    PROVE  Within(renumber(rs), rs)
<1>1. DOMAIN renumber(rs) = DOMAIN rs /\ \A i \in DOMAIN rs : rs[i] \in Row /\ i \in Nat
  BY RenumberKeepsKeys, LenProperties
<1>2. ASSUME NEW i \in DOMAIN rs
      PROVE  /\ renumber(rs)[i].op = rs[i].op /\ renumber(rs)[i].idx = rs[i].idx
             /\ renumber(rs)[i].line = rs[i].line
  <2>1. renumber(rs)[i] = IF Struck(rs[i]) THEN rs[i] ELSE [rs[i] EXCEPT !.seq = i]
    BY DEF renumber
  <2>2. rs[i] \in Row
    BY <1>1
  <2>3. /\ [rs[i] EXCEPT !.seq = i].op = rs[i].op /\ [rs[i] EXCEPT !.seq = i].idx = rs[i].idx
        /\ [rs[i] EXCEPT !.seq = i].line = rs[i].line
    BY <2>2 DEF Row
  <2>. QED  BY <2>1, <2>3
<1>. QED  BY <1>1, <1>2 DEF Within, New

LEMMA RenumberedWithin ==
    ASSUME NEW rs \in Seq(Row), Within(rs, rows), Renumbered(rs)
    PROVE  Within(rows', rows)
<1> DEFINE ss == renumber(rs)
<1>1. Within(ss, rs) /\ rows' = ss
  BY RenumberWithin DEF Renumbered
<1> HIDE DEF ss
<1>. QED  BY <1>1 DEF Within, New

(* An event of the table creates nothing new but in a row it adds.         *)
LEMMA GridStepWithin ==
    ASSUME TableInv, NEW line \in Nat, GridStep(line)
    PROVE  \/ nextIdx' = nextIdx /\ Within(rows', rows)
           \/ \E col : AddRow(line, col)
<1>1. /\ rows \in Seq(Row) /\ Distinct(rows) /\ DOMAIN rows = 1..Len(rows) /\ Len(rows) \in Nat
      /\ \A i \in DOMAIN rows : rows[i] \in Row
  BY LenProperties DEF TableInv, TableTypeOK, Keyed
<1>2. ASSUME UNCHANGED <<rows, nextIdx>>
      PROVE  nextIdx' = nextIdx /\ Within(rows', rows)
  BY <1>2 DEF Within, New
<1>3. ASSUME NEW i \in DOMAIN rows, DeleteRow(i)
      PROVE  nextIdx' = nextIdx /\ Within(rows', rows)
  <2>1. nextIdx' = nextIdx
    BY <1>3 DEF DeleteRow
  <2>2. CASE rows[i].op = "create"
    <3> DEFINE rs == RemoveAt(rows, i)
    <3>1. /\ rs \in Seq(Row)
          /\ \A k \in DOMAIN rs : \E j \in DOMAIN rows : rs[k] = rows[j]
      BY <1>1, RemoveKeepsKeys
    <3>2. Renumbered(rs)
      BY <1>3, <2>2 DEF DeleteRow
    <3> HIDE DEF rs
    <3>3. Within(rs, rows)
      BY <3>1 DEF Within, New
    <3>. QED  BY <2>1, <3>1, <3>2, <3>3, RenumberedWithin
  <2>3. CASE rows[i].op # "create"
    <3> DEFINE rs == [rows EXCEPT ![i].op = "delete"]
    <3>1. [rows[i] EXCEPT !.op = "delete"] \in Row
          /\ [rows[i] EXCEPT !.op = "delete"].op = "delete"
      BY <1>1 DEF Row
    <3>2. rs \in Seq(Row)
      BY <1>1, <3>1, ExceptSeq
    <3>3. /\ DOMAIN rs = DOMAIN rows /\ rs[i].op = "delete"
          /\ \A k \in DOMAIN rows : k # i => rs[k] = rows[k]
      BY <1>1, <3>1
    <3>4. Renumbered(rs)
      BY <1>3, <2>3 DEF DeleteRow
    <3> HIDE DEF rs
    <3>5. Within(rs, rows)
      BY <3>3 DEF Within, New
    <3>. QED  BY <2>1, <3>2, <3>4, <3>5, RenumberedWithin
  <2>. QED  BY <2>2, <2>3
<1>4. ASSUME NEW i \in DOMAIN rows, NEW v \in Vals, EditCell(i, v)
      PROVE  nextIdx' = nextIdx /\ Within(rows', rows)
  <2>1. rows' = [rows EXCEPT ![i].val = v] /\ nextIdx' = nextIdx
    BY <1>4 DEF EditCell
  <2>2. /\ [rows[i] EXCEPT !.val = v].op = rows[i].op
        /\ [rows[i] EXCEPT !.val = v].idx = rows[i].idx
        /\ [rows[i] EXCEPT !.val = v].line = rows[i].line
    BY <1>1 DEF Row
  <2>3. DOMAIN rows' = DOMAIN rows
        /\ \A k \in DOMAIN rows : rows'[k].op = rows[k].op /\ rows'[k].idx = rows[k].idx
                                  /\ rows'[k].line = rows[k].line
    BY <1>1, <2>1, <2>2
  <2>. QED  BY <2>1, <2>3 DEF Within, New
<1>5. ASSUME NEW i \in DOMAIN rows, NEW t \in DOMAIN rows, NEW b \in BOOLEAN, DragOver(i, t, b)
      PROVE  nextIdx' = nextIdx /\ Within(rows', rows)
  <2>1. PICK j \in DOMAIN rows : rows' = MoveTo(rows, i, j)
    <3>1. i \in 1..Len(rows) /\ t \in 1..Len(rows) /\ t # i
      BY <1>1, <1>5 DEF DragOver
    <3> DEFINE j == IF b THEN IF t < i THEN t ELSE t - 1
                    ELSE IF t < i THEN t + 1 ELSE t
    <3>2. j \in DOMAIN rows
      BY <1>1, <3>1
    <3>3. rows' = MoveTo(rows, i, j)
      BY <1>5 DEF DragOver
    <3>. QED  BY <3>2, <3>3
  <2> DEFINE s == MoveTo(rows, i, j)
  <2>2. DOMAIN s = DOMAIN rows /\ \A k \in DOMAIN rows : \E l \in DOMAIN rows : s[k] = rows[l]
    BY <1>1, MoveKeepsKeys
  <2>3. rows' = s /\ nextIdx' = nextIdx
    BY <1>5, <2>1 DEF DragOver
  <2> HIDE DEF s
  <2>. QED  BY <2>2, <2>3 DEF Within, New
<1>6. CASE Drop
  <2>1. Renumbered(rows) /\ nextIdx' = nextIdx /\ Within(rows, rows)
    BY <1>6 DEF Drop, Within
  <2>. QED  BY <1>1, <2>1, RenumberedWithin
<1>7. ASSUME NEW i \in DOMAIN rows, DragStart(i)
      PROVE  UNCHANGED <<rows, nextIdx>>
  BY <1>7 DEF DragStart
<1>8. ASSUME NEW r, NEW c, ClickCell(r, c)
      PROVE  UNCHANGED <<rows, nextIdx>>
  BY <1>8 DEF ClickCell
<1>9. ASSUME NEW way \in Ways, Press(way[1], way[2], line)
      PROVE  (\E col : AddRow(line, col)) \/ UNCHANGED <<rows, nextIdx>>
  BY <1>9 DEF Press, navigate
<1>10. DragEnd => UNCHANGED <<rows, nextIdx>>
  BY DEF DragEnd
<1>. QED  BY <1>2, <1>3, <1>4, <1>5, <1>6, <1>7, <1>8, <1>9, <1>10 DEF GridStep

(* A table drawn from posted rows creates what they would.                 *)
LEMMA PlaybackWithin ==
    ASSUME NEW posted \in Seq(Row), EditPlayback(posted)
    PROVE  Within(rows', posted)
<1>1. Range(rows') = Range(posted)
  BY PlaybackKeepsRows
<1>2. \A i \in DOMAIN rows' : \E j \in DOMAIN posted : rows'[i] = posted[j]
  BY <1>1 DEF Range
<1>. QED  BY <1>2 DEF Within, New

(* A table drawn from the record, or no table, creates nothing.            *)
LEMMA FreshNew ==
    ASSUME NEW list
    PROVE  New(FreshRows(list)) = {}
BY DEF FreshRows, New
-----------------------------------------------------------------------------
(* The server. What it stores under a line is what was stored under it and *)
(* a line for the one row, if any, that creates it.                        *)
LEMMA StoredIsCounted ==
    ASSUME NEW children, IsFiniteSet(children), NEW k
    PROVE  StoredIn(children, k) \in Nat
BY FS_Subset, FS_CardinalityType DEF StoredIn

LEMMA CommandsCount ==
    ASSUME NEW children \in SUBSET Child, IsFiniteSet(children),
           NEW posted \in Seq(Row), Distinct(posted), Once(posted), NEW last, NEW k
    PROVE  LET made == apply_o2m_commands(children, posted, last)
           IN  /\ StoredIn(made, k) <= StoredIn(children, k) + 1
               /\ k \notin Offers(posted) => StoredIn(made, k) <= StoredIn(children, k)
               /\ \A c \in made : c.line \in Offers(posted) \union {d.line : d \in children}
<1> DEFINE made == apply_o2m_commands(children, posted, last)
           written(c) == {row \in Range(posted) : row.id = c.id /\ row.op = "update"}
           removed == {row.id : row \in {r \in Range(posted) : Struck(r)}}
           left == {x \in children : x.id \notin removed}
           keep == [c \in left |->
                      IF written(c) = {} THEN c
                      ELSE LET row == CHOOSE row \in written(c) : TRUE
                           IN  [c EXCEPT !.seq = row.seq, !.val = row.val]]
           create == [row \in Creates(posted) |->
                        [id |-> last + RankOf(row, Creates(posted)), seq |-> row.seq,
                         val |-> row.val, line |-> row.line]]
<1>1. made = Range(keep) \union Range(create)
  BY DEF apply_o2m_commands, Range
<1>2. ASSUME NEW c \in left
      PROVE  keep[c].line = c.line
  <2>1. c \in Child
    OBVIOUS
  <2>2. CASE written(c) = {}
    BY <2>1, <2>2
  <2>3. CASE written(c) # {}
    <3>1. PICK row \in written(c) : keep[c] = [c EXCEPT !.seq = row.seq, !.val = row.val]
      BY <2>3
    <3>. QED  BY <2>1, <3>1 DEF Child
  <2>. QED  BY <2>2, <2>3
<1>3. \A row \in Creates(posted) : create[row].line = row.line
  OBVIOUS
<1>4. DOMAIN keep = left /\ DOMAIN create = Creates(posted) /\ left \subseteq children
  OBVIOUS
<1> HIDE DEF made, keep, create, left
<1>5. \A row \in Creates(posted) : row.line \in Offers(posted)
  BY DEF Creates, Range, Offers, New
<1>6. \A c \in made : c.line \in Offers(posted) \union {d.line : d \in children}
  BY <1>1, <1>2, <1>3, <1>4, <1>5 DEF Range
<1> DEFINE old == {c \in children : c.line = k}
           kept == {c \in left : c.line = k}
           keepk == [c \in kept |-> keep[c]]
           all == {c \in made : c.line = k}
<1>7. IsFiniteSet(old) /\ Cardinality(old) \in Nat /\ kept \subseteq old
  BY <1>4, FS_Subset, FS_CardinalityType
<1>8. IsFiniteSet(kept) /\ Cardinality(kept) <= Cardinality(old) /\ Cardinality(kept) \in Nat
  BY <1>7, FS_Subset, FS_CardinalityType
<1>9. /\ IsFiniteSet(Range(keepk)) /\ Cardinality(Range(keepk)) <= Cardinality(old)
      /\ Cardinality(Range(keepk)) \in Nat
  <2>1. keepk \in Surjection(kept, Range(keepk))
    BY DEF Surjection, Range
  <2>2. IsFiniteSet(Range(keepk)) /\ Cardinality(Range(keepk)) <= Cardinality(kept)
    BY <1>8, <2>1, FS_Surjection
  <2>3. Cardinality(Range(keepk)) \in Nat
    BY <2>2, FS_CardinalityType
  <2> HIDE DEF keepk, kept, old
  <2>. QED  BY <1>7, <1>8, <2>2, <2>3
<1>10. ASSUME NEW c \in all
       PROVE  c \in Range(keepk) \/ \E row \in Creates(posted) : row.line = k /\ c = create[row]
  <2>1. CASE c \in Range(keep)
    <3>1. PICK x \in left : c = keep[x]
      BY <1>4, <2>1 DEF Range
    <3>2. x \in kept /\ keepk[x] = c
      BY <1>2, <3>1
    <3>. QED  BY <3>2 DEF Range
  <2>2. CASE c \in Range(create)
    BY <1>3, <1>4, <2>2 DEF Range
  <2>. QED  BY <1>1, <2>1, <2>2
<1>11. \A r, s \in Creates(posted) : r.line = s.line => r = s
  <2>1. SUFFICES ASSUME NEW r \in Creates(posted), NEW s \in Creates(posted), r.line = s.line
                 PROVE  r = s
    OBVIOUS
  <2>2. PICK i \in New(posted), j \in New(posted) : r = posted[i] /\ s = posted[j]
    BY DEF Creates, Range, New
  <2>3. i \in DOMAIN posted /\ j \in DOMAIN posted /\ posted[i].idx = posted[j].idx
    BY <2>1, <2>2 DEF Once, New
  <2>4. i = j
    BY <2>3 DEF Distinct
  <2>. QED  BY <2>2, <2>4
<1> HIDE DEF keepk, kept, old, all
<1>12. CASE \E row \in Creates(posted) : row.line = k
  <2>1. PICK row \in Creates(posted) : row.line = k
    BY <1>12
  <2> DEFINE most == Range(keepk) \union {create[row]}
  <2>2. all \in SUBSET most
    BY <1>10, <1>11, <2>1
  <2>3. IsFiniteSet(most) /\ Cardinality(most) <= Cardinality(Range(keepk)) + 1
        /\ Cardinality(most) \in Nat
    <3>1. IsFiniteSet(most) /\ Cardinality(most) =
            IF create[row] \in Range(keepk) THEN Cardinality(Range(keepk))
            ELSE Cardinality(Range(keepk)) + 1
      BY <1>9, FS_AddElement
    <3>2. Cardinality(most) \in Nat
      BY <3>1, FS_CardinalityType
    <3> HIDE DEF most
    <3>. QED  BY <1>9, <3>1, <3>2
  <2>4. Cardinality(all) <= Cardinality(most) /\ Cardinality(all) \in Nat
    BY <2>2, <2>3, FS_Subset, FS_CardinalityType
  <2>5. k \in Offers(posted)
    BY <1>5, <2>1
  <2>6. Cardinality(all) <= Cardinality(old) + 1
    BY <1>7, <1>9, <2>3, <2>4
  <2>. QED  BY <1>6, <2>5, <2>6 DEF StoredIn, all, old, made
<1>13. CASE ~\E row \in Creates(posted) : row.line = k
  <2>1. all \in SUBSET Range(keepk)
    BY <1>10, <1>13
  <2>2. Cardinality(all) <= Cardinality(Range(keepk)) /\ Cardinality(all) \in Nat
    BY <1>9, <2>1, FS_Subset, FS_CardinalityType
  <2>3. Cardinality(all) <= Cardinality(old) /\ Cardinality(all) <= Cardinality(old) + 1
    BY <1>7, <1>9, <2>2
  <2>. QED  BY <1>6, <2>3 DEF StoredIn, all, old, made
<1>. QED  BY <1>12, <1>13

-----------------------------------------------------------------------------
(* The page. What does not save, draw or add a row leaves the count as it  *)
(* is, if it offers nothing new.                                           *)
Quiet ==
    /\ UNCHANGED <<db, lines, lost, late>>
    /\ Offering' => Offering /\ \A k \in Nat : Offered(k)' => Offered(k)

LEMMA QuietCount ==
    ASSUME CountInv, Quiet
    PROVE  CountInv'
BY DEF CountInv, Quiet

(* The rows of the page and of its requests are rows.                      *)
LEMMA FormRows ==
    ASSUME IInv
    PROVE  /\ rows \in Seq(Row) /\ lines \in Nat
           /\ save # None => save \in SaveRequest /\ save.form.rows \in Seq(Row)
           /\ live # None => live \in LiveRequest /\ live.form.rows \in Seq(Row)
BY DEF IInv, TableInv, TableTypeOK, PageTypeOK, SaveRequest, LiveRequest, Forms

(* A record's lines are stored once.                                       *)
LEMMA InitLines == Init => LinesInv
<1>1. SUFFICES ASSUME Init PROVE LinesInv
  OBVIOUS
<1> DEFINE n == Cardinality(db.children)
<1>2. /\ IsFiniteSet(db.children) /\ db.children \in SUBSET Child /\ lines = n
      /\ \A c \in db.children : c.line \in 1..n
      /\ \A c, d \in db.children : c.line = d.line => c = d
  BY <1>1, PageAssumption DEF Init
<1>3. n \in Nat /\ save = None /\ live = None /\ lost = 0 /\ late = 0
  BY <1>1, <1>2, FS_CardinalityType DEF Init
<1>4. New(rows) = {} /\ Offers(rows) = {}
  BY <1>1 DEF Init, New, Offers
<1> HIDE DEF n
<1>5. NumberInv
  BY <1>2, <1>3, <1>4 DEF NumberInv, Upto, Once
<1>6. ASSUME NEW k \in Nat
      PROVE  StoredIn(db.children, k) <= 1
  <2> DEFINE S == {c \in db.children : c.line = k}
  <2>1. S = {} \/ \E c : S = {c}
    BY <1>2
  <2>2. Cardinality(S) = 0 \/ Cardinality(S) = 1
    BY <2>1, FS_EmptySet, FS_Singleton
  <2>. QED  BY <2>2 DEF StoredIn
<1>7. CountInv
  BY <1>3, <1>4, <1>6 DEF CountInv, Offered
<1>. QED  BY <1>5, <1>7 DEF LinesInv

LEMMA SaveCommittedLines ==
    ASSUME IInv, LinesInv, SaveCommitted
    PROVE  LinesInv'
<1> DEFINE posted == save.form.rows
           made == apply_o2m_commands(db.children, posted, lastId)
<1>1. /\ posted \in Seq(Row) /\ Distinct(posted) /\ Once(posted) /\ Upto(posted, lines)
      /\ save # None /\ save \in SaveRequest /\ save.status = "sent"
      /\ db.children \in SUBSET Child /\ IsFiniteSet(db.children) /\ lines \in Nat
  BY FormRows DEF IInv, RequestInv, PageTypeOK, LinesInv, NumberInv, Upto, SaveCommitted
<1>2. /\ db'.children = made /\ UNCHANGED <<rows, live, lines, lost, late>>
      /\ save' \in SaveRequest /\ save'.status = "saved" /\ save'.form.rows = posted
  <2>1. save' = [save EXCEPT !.status = "saved"] /\ UNCHANGED <<rows, live, lines, lost, late>>
    BY DEF SaveCommitted, gridVars, countVars
  <2>2. db'.children = made
    BY DEF SaveCommitted
  <2>. QED  BY <1>1, <2>1, <2>2 DEF SaveRequest
<1>3. \A k \in Nat :
        /\ StoredIn(made, k) <= StoredIn(db.children, k) + 1
        /\ k \notin Offers(posted) => StoredIn(made, k) <= StoredIn(db.children, k)
        /\ \A c \in made : c.line \in Offers(posted) \union {d.line : d \in db.children}
  BY <1>1, CommandsCount
<1>4. IsFiniteSet(made)
  BY <1>1, CommandsGiveChildren DEF IInv, PageTypeOK
<1> HIDE DEF made, posted
<1>5. NumberInv'
  <2>1. \A c \in made : c.line <= lines
    <3>1. \A m \in Offers(posted) : m <= lines
      BY <1>1 DEF Offers, Upto
    <3>2. \A d \in db.children : d.line <= lines
      BY DEF LinesInv, NumberInv
    <3>3. 0 \in Nat
      OBVIOUS
    <3>. QED  BY <1>3, <3>1, <3>2, <3>3
  <2>2. Upto(rows, lines)' /\ (live # None => Upto(live.form.rows, lines))'
    BY <1>2 DEF LinesInv, NumberInv, Upto, Once, New
  <2>3. (save # None => Upto(save.form.rows, lines))'
    <3>1. save'.form.rows = posted /\ lines' = lines
      BY <1>2
    <3>. QED  BY <1>1, <3>1 DEF Upto, Once, New
  <2>. QED  BY <1>2, <2>1, <2>2, <2>3 DEF NumberInv
<1>6. CountInv'
  <2>1. ~Offering'
    <3>1. save' # None
      BY <1>2, PageAssumption
    <3>. QED  BY <1>2, <3>1 DEF Offering
  <2>2. ASSUME NEW k \in Nat
        PROVE  StoredIn(made, k) <= 1 + lost + late
    <3>1. /\ lost \in Nat /\ late \in Nat /\ StoredIn(db.children, k) <= 1 + lost + late
          /\ k \in Offers(posted) => StoredIn(db.children, k) <= lost + late
      BY <1>1 DEF LinesInv, CountInv, Offering, Offered, posted
    <3>2. StoredIn(db.children, k) \in Nat /\ StoredIn(made, k) \in Nat
      BY <1>1, <1>4, StoredIsCounted
    <3>. QED  BY <1>3, <3>1, <3>2
  <2>. QED  BY <1>2, <2>1, <2>2 DEF LinesInv, CountInv
<1>. QED  BY <1>5, <1>6 DEF LinesInv

(* Where the rows of the next state come from.                             *)
Drawn ==
    \/ New(rows') = {}
    \/ Within(rows', rows)
    \/ save # None /\ Within(rows', save.form.rows)
    \/ live # None /\ Within(rows', live.form.rows)
SaveFrom == save' # None => \/ save'.form.rows = rows
                            \/ save # None /\ save'.form.rows = save.form.rows
LiveFrom == live' # None => \/ live'.form.rows = rows
                            \/ live # None /\ live'.form.rows = live.form.rows

LEMMA NumbersKept ==
    ASSUME IInv, NumberInv, UNCHANGED <<db, lines>>, Drawn, SaveFrom, LiveFrom
    PROVE  NumberInv'
<1>1. lines \in Nat
  BY FormRows
<1>2. Upto(rows', lines)
  <2>1. New(rows') = {} => Upto(rows', lines)
    BY DEF Upto, Once
  <2>. QED  BY <1>1, <2>1, WithinOffers DEF Drawn, NumberInv
<1>3. save' # None => Upto(save'.form.rows, lines)
  BY DEF SaveFrom, NumberInv
<1>4. live' # None => Upto(live'.form.rows, lines)
  BY DEF LiveFrom, NumberInv
<1>5. \A c \in db'.children : c.line <= lines
  BY DEF NumberInv
<1>. QED  BY <1>2, <1>3, <1>4, <1>5 DEF NumberInv, Upto, Once, New

(* What is offered in the next state.                                      *)
LEMMA OfferedNext ==
    ASSUME NEW k, Offered(k)'
    PROVE  \/ k \in Offers(rows')
           \/ save' # None /\ k \in Offers(save'.form.rows)
           \/ live' # None /\ ~live'.old /\ k \in Offers(live'.form.rows)
BY DEF Offered, Offers, New

(* Steps that leave the history alone.                                     *)
LEMMA PassingLines ==
    ASSUME IInv, LinesInv, UNCHANGED <<db, lines, lost, late>>, Drawn, SaveFrom, LiveFrom,
           Offering' => Offering,
           \A k \in Nat : Offered(k)' => Offered(k)
    PROVE  LinesInv'
BY NumbersKept, QuietCount DEF LinesInv, Quiet

(* The requests and the rows as they are, or fewer rows.                   *)
LEMMA TableLines ==
    ASSUME IInv, LinesInv, UNCHANGED <<db, save, live, lines, lost, late>>,
           New(rows') = {} \/ Within(rows', rows)
    PROVE  LinesInv'
<1>1. lines \in Nat
  BY FormRows
<1>2. Offers(rows') \subseteq Offers(rows)
  <2>1. New(rows') = {} => Offers(rows') = {}
    BY DEF Offers
  <2>. QED  BY <1>1, <2>1, WithinOffers
<1>3. \A k \in Nat : Offered(k)' => Offered(k)
  BY <1>2, OfferedNext DEF Offered
<1>4. Offering' => Offering
  BY DEF Offering
<1>. QED  BY <1>3, <1>4, PassingLines DEF Drawn, SaveFrom, LiveFrom

LEMMA EditGridLines ==
    ASSUME IInv, LinesInv, EditGrid
    PROVE  LinesInv'
<1>1. /\ lines \in Nat /\ lines + 1 \in Nat /\ TableInv /\ rows \in Seq(Row)
      /\ UNCHANGED <<db, save, live, lost, late>> /\ GridStep(lines + 1)
      /\ lines' = IF nextIdx' = nextIdx THEN lines ELSE lines + 1
  BY FormRows DEF EditGrid, IInv, pageVars
<1>2. CASE nextIdx' = nextIdx /\ Within(rows', rows)
  BY <1>1, <1>2, TableLines
<1>3. CASE \E col : AddRow(lines + 1, col)
  <2> DEFINE row == NewRow(lines + 1)
             rs == Append(rows, row)
             n == Len(rows)
  <2>1. nextIdx' = nextIdx + 1 /\ nextIdx \in Nat /\ Renumbered(rs)
    BY <1>1, <1>3 DEF AddRow, TableInv, TableTypeOK
  <2>2. lines' = lines + 1
    BY <1>1, <2>1
  <2>3. row \in Row /\ row.line = lines + 1
    BY <1>1, <2>1, GridAssumption DEF NewRow, Row
  <2> HIDE DEF row
  <2>4. /\ rs \in Seq(Row) /\ n \in Nat /\ DOMAIN rs = 1..(n + 1) /\ DOMAIN rows = 1..n
        /\ \A k \in 1..n : rs[k] = rows[k]
        /\ rs[n + 1] = row
    BY <1>1, <2>3, AppendProperties, LenProperties
  <2> HIDE DEF rs, n
  <2>5. \A i \in New(rs) : (i = n + 1 /\ rs[i].line = lines + 1)
                           \/ (i \in New(rows) /\ rs[i] = rows[i])
    BY <2>3, <2>4 DEF New
  <2>6. \A i \in New(rows) : rows[i].line <= lines /\ rows[i].line \in Nat
    <3>1. \A i \in DOMAIN rows : rows[i] \in Row
      BY <1>1, LenProperties
    <3>. QED  BY <3>1 DEF LinesInv, NumberInv, Upto, New, Row
  <2>7. Upto(rs, lines + 1)
    <3>1. Once(rs)
      <4>1. SUFFICES ASSUME NEW i \in New(rs), NEW j \in New(rs), rs[i].line = rs[j].line
                     PROVE  rs[i].idx = rs[j].idx
        BY DEF Once
      <4>2. CASE i = n + 1 \/ j = n + 1
        <5>1. ASSUME NEW m \in New(rs), rs[m].line = lines + 1
              PROVE  m = n + 1
          BY <1>1, <2>5, <2>6, <5>1
        <5>2. rs[i].line = lines + 1 /\ rs[j].line = lines + 1
          <6>1. n + 1 \notin New(rows)
            BY <2>4 DEF New
          <6>. QED  BY <2>5, <4>1, <4>2, <6>1
        <5>. QED  BY <4>1, <5>1, <5>2
      <4>3. CASE ~(i = n + 1 \/ j = n + 1)
        BY <2>5, <4>1, <4>3 DEF LinesInv, NumberInv, Upto, Once
      <4>. QED  BY <4>2, <4>3
    <3>2. \A i \in New(rs) : rs[i].line <= lines + 1
      BY <1>1, <2>5, <2>6
    <3>. QED  BY <3>1, <3>2 DEF Upto
  <2>8. Within(rows', rs)
    <3> DEFINE ss == renumber(rs)
    <3>1. Within(ss, rs) /\ rows' = ss
      BY <2>1, <2>4, RenumberWithin DEF Renumbered
    <3> HIDE DEF ss
    <3>. QED  BY <3>1
  <2>9. Upto(rows', lines + 1) /\ Offers(rows') \subseteq Offers(rs)
    BY <1>1, <2>7, <2>8, WithinOffers
  <2>10. Offers(rs) \subseteq Offers(rows) \union {lines + 1}
    BY <2>5 DEF Offers
  <2>11. NumberInv'
    <3>1. \A c \in db.children : c.line <= lines /\ c.line \in Nat
      BY DEF IInv, PageTypeOK, LinesInv, NumberInv, Child
    <3>2. ASSUME NEW ss \in Seq(Row), Upto(ss, lines)
          PROVE  Upto(ss, lines + 1)
      <4>1. \A i \in New(ss) : ss[i].line \in Nat
        <5>1. \A i \in DOMAIN ss : ss[i] \in Row
          BY LenProperties
        <5>. QED  BY <5>1 DEF New, Row
      <4>. QED  BY <1>1, <3>2, <4>1 DEF Upto
    <3>3. save # None => Upto(save.form.rows, lines + 1)
      BY <3>2, FormRows DEF LinesInv, NumberInv
    <3>4. live # None => Upto(live.form.rows, lines + 1)
      BY <3>2, FormRows DEF LinesInv, NumberInv
    <3>. QED  BY <1>1, <2>2, <2>9, <3>1, <3>3, <3>4 DEF NumberInv, Upto, Once, New
  <2>12. StoredIn(db.children, lines + 1) = 0
    <3>1. {c \in db.children : c.line = lines + 1} = {}
      BY <1>1 DEF IInv, PageTypeOK, LinesInv, NumberInv, Child
    <3>. QED  BY <3>1, FS_EmptySet DEF StoredIn
  <2>13. CountInv'
    <3>1. ASSUME NEW k \in Nat, Offered(k)'
          PROVE  k = lines + 1 \/ Offered(k)
      BY <1>1, <2>9, <2>10, <3>1, OfferedNext DEF Offered
    <3>2. Offering' => Offering
      BY <1>1 DEF Offering
    <3>. QED  BY <1>1, <2>12, <3>1, <3>2 DEF LinesInv, CountInv
  <2>. QED  BY <2>11, <2>13 DEF LinesInv
<1>4. (nextIdx' = nextIdx /\ Within(rows', rows)) \/ \E col : AddRow(lines + 1, col)
  BY <1>1, GridStepWithin
<1>. QED  BY <1>2, <1>3, <1>4

(* Requests.                                                               *)
LEMMA SendLines ==
    ASSUME IInv, LinesInv, Save \/ ChangeLive
    PROVE  LinesInv'
<1>1. UNCHANGED <<rows, db, lines, lost, late>> /\ (live' = live \/ save' = save)
  BY DEF Save, ChangeLive, gridVars, countVars
<1>2. Drawn
  BY <1>1 DEF Drawn, Within, New
<1> DEFINE f == Form
<1>3. f.rows = rows
  BY DEF Form
<1> HIDE DEF f
<1>4. CASE Save
  <2>1. save' = [form |-> f, status |-> "sent"] /\ save = None /\ live' = live
    BY <1>4 DEF Save, f
  <2>2. save'.form.rows = rows
    BY <1>3, <2>1
  <2>3. SaveFrom /\ LiveFrom
    BY <2>1, <2>2 DEF SaveFrom, LiveFrom
  <2>4. \A k \in Nat : Offered(k)' => Offered(k)
    BY <1>1, <2>1, <2>2, OfferedNext DEF Offered
  <2>5. Offering
    BY <2>1 DEF Offering
  <2>. QED  BY <1>1, <1>2, <2>3, <2>4, <2>5, PassingLines
<1>5. CASE ChangeLive
  <2>1. live' = [form |-> f, status |-> "sent", old |-> FALSE] /\ save' = save
    BY <1>5 DEF ChangeLive, f
  <2>2. live'.form.rows = rows
    BY <1>3, <2>1
  <2>3. SaveFrom /\ LiveFrom
    BY <2>1, <2>2 DEF SaveFrom, LiveFrom
  <2>4. \A k \in Nat : Offered(k)' => Offered(k)
    BY <1>1, <2>1, <2>2, OfferedNext DEF Offered
  <2>5. Offering' => Offering
    BY <2>1 DEF Offering
  <2>. QED  BY <1>1, <1>2, <2>3, <2>4, <2>5, PassingLines
<1>. QED  BY <1>4, <1>5

LEMMA AnswerLines ==
    ASSUME IInv, LinesInv, SaveRefused \/ LiveDrawn
    PROVE  LinesInv'
<1>1. UNCHANGED <<rows, db, lines, lost, late>> /\ PageTypeOK
  BY DEF SaveRefused, LiveDrawn, gridVars, countVars, IInv
<1>2. Drawn
  BY <1>1 DEF Drawn, Within, New
<1>3. CASE SaveRefused
  <2>1. /\ save' = [form |-> Redrawn(save.form), status |-> "refused"] /\ live' = live
        /\ save # None /\ save.status = "sent"
    BY <1>3 DEF SaveRefused
  <2>2. save'.form.rows = save.form.rows
    <3>1. save.form \in Forms
      BY <2>1, FormRows DEF SaveRequest
    <3>2. Redrawn(save.form).rows = save.form.rows
      BY <1>1, <3>1, RedrawnIsForm
    <3>. QED  BY <2>1, <3>2
  <2>3. SaveFrom /\ LiveFrom
    BY <2>1, <2>2 DEF SaveFrom, LiveFrom
  <2>4. \A k \in Nat : Offered(k)' => Offered(k)
    BY <1>1, <2>1, <2>2, OfferedNext DEF Offered
  <2>5. Offering
    BY <2>1 DEF Offering
  <2>. QED  BY <1>1, <1>2, <2>3, <2>4, <2>5, PassingLines
<1>4. CASE LiveDrawn
  <2>1. /\ live' = [live EXCEPT !.status = "drawn", !.form = Redrawn(live.form)]
        /\ save' = save /\ live # None
    BY <1>4 DEF LiveDrawn
  <2>2. live'.form.rows = live.form.rows /\ live'.old = live.old
    <3>1. live.form \in Forms /\ live \in LiveRequest
      BY <2>1, FormRows DEF LiveRequest
    <3>2. Redrawn(live.form).rows = live.form.rows /\ Redrawn(live.form) \in Forms
      BY <1>1, <3>1, RedrawnIsForm
    <3>. QED  BY <2>1, <3>1, <3>2 DEF LiveRequest
  <2>3. SaveFrom /\ LiveFrom
    BY <2>1, <2>2 DEF SaveFrom, LiveFrom
  <2>4. \A k \in Nat : Offered(k)' => Offered(k)
    BY <1>1, <2>1, <2>2, OfferedNext DEF Offered
  <2>5. Offering' => Offering
    BY <2>1 DEF Offering
  <2>. QED  BY <1>1, <1>2, <2>3, <2>4, <2>5, PassingLines
<1>. QED  BY <1>3, <1>4

(* The refused form offers what was posted, and what is stored stays.      *)
LEMMA RefusalShownLines ==
    ASSUME IInv, LinesInv, RefusalShown
    PROVE  LinesInv'
<1>1. /\ UNCHANGED <<live, db, lines, lost, late>> /\ save' = None /\ save # None
      /\ save.status = "refused" /\ save.form.rows \in Seq(Row) /\ lines \in Nat
  BY FormRows DEF RefusalShown, countVars
<1>2. Within(rows', save.form.rows)
  BY <1>1, PlaybackWithin DEF RefusalShown, ShowAgain
<1>3. Drawn /\ SaveFrom /\ LiveFrom
  BY <1>1, <1>2 DEF Drawn, SaveFrom, LiveFrom
<1>4. Offers(rows') \subseteq Offers(save.form.rows)
  BY <1>1, <1>2, WithinOffers
<1>5. \A k \in Nat : Offered(k)' => Offered(k)
  BY <1>1, <1>4, OfferedNext DEF Offered
<1>6. Offering
  BY <1>1 DEF Offering
<1>. QED  BY <1>1, <1>3, <1>5, <1>6, PassingLines

(* The answer takes the form away; what is still to come is an old one.    *)
LEMMA SaveShownLines ==
    ASSUME IInv, LinesInv, SaveShown
    PROVE  LinesInv'
<1>1. /\ UNCHANGED <<db, lines, lost, late>> /\ save' = None
      /\ rows' = <<>> /\ lines \in Nat
      /\ live' = IF live = None THEN None ELSE [live EXCEPT !.old = TRUE]
  BY FormRows DEF SaveShown, ShowRecord, NoTable, Draw, countVars
<1>2. New(rows') = {} /\ Offers(rows') = {}
  BY <1>1 DEF New, Offers
<1>3. live' # None => live # None /\ live'.form.rows = live.form.rows /\ live'.old = TRUE
  BY <1>1, FormRows DEF LiveRequest
<1>4. NumberInv'
  BY <1>1, <1>2, <1>3, NumbersKept DEF LinesInv, Drawn, SaveFrom, LiveFrom
<1>5. \A k \in Nat : ~Offered(k)'
  BY <1>1, <1>2, <1>3, OfferedNext
<1>. QED  BY <1>1, <1>4, <1>5 DEF LinesInv, CountInv

(* A form whose answer is lost may offer what has been stored.             *)
LEMMA SaveLostLines ==
    ASSUME IInv, LinesInv, SaveLost
    PROVE  LinesInv'
<1>1. /\ UNCHANGED <<rows, live, db, lines, late>> /\ save' = None /\ save # None
      /\ lost' = IF save.status = "saved" THEN lost + 1 ELSE lost
      /\ lines \in Nat
  BY FormRows DEF SaveLost, gridVars
<1>2. Drawn /\ SaveFrom /\ LiveFrom
  BY <1>1 DEF Drawn, SaveFrom, LiveFrom, Within, New
<1>3. CASE save.status = "saved"
  <2>1. NumberInv'
    BY <1>1, <1>2, NumbersKept DEF LinesInv
  <2>2. CountInv'
    <3>1. /\ lost \in Nat /\ late \in Nat /\ lost' = lost + 1 /\ late' = late
          /\ IsFiniteSet(db.children) /\ db' = db
      BY <1>1, <1>3 DEF LinesInv, CountInv, IInv
    <3>2. \A k \in Nat : /\ StoredIn(db.children, k) \in Nat
                         /\ StoredIn(db.children, k) <= 1 + lost + late
      BY <3>1, StoredIsCounted DEF LinesInv, CountInv
    <3>. QED  BY <3>1, <3>2 DEF CountInv
  <2>. QED  BY <2>1, <2>2 DEF LinesInv
<1>4. CASE save.status # "saved"
  <2>1. \A k \in Nat : Offered(k)' => Offered(k)
    BY <1>1, OfferedNext DEF Offered
  <2>2. Offering /\ UNCHANGED lost
    BY <1>1, <1>4 DEF Offering
  <2>. QED  BY <1>1, <1>2, <2>1, <2>2, PassingLines
<1>. QED  BY <1>3, <1>4

(* So may one that is drawn again from an old answer.                      *)
LEMMA LiveShownLines ==
    ASSUME IInv, LinesInv, LiveShown
    PROVE  LinesInv'
<1>1. /\ UNCHANGED <<save, db, lines, lost>> /\ live' = None /\ live # None
      /\ late' = IF live.old THEN late + 1 ELSE late
      /\ live \in LiveRequest /\ live.form.rows \in Seq(Row) /\ lines \in Nat
  BY FormRows DEF LiveShown
<1>2. Within(rows', live.form.rows)
  BY <1>1, PlaybackWithin DEF LiveShown, ShowAgain
<1>3. Drawn /\ SaveFrom /\ LiveFrom
  BY <1>1, <1>2 DEF Drawn, SaveFrom, LiveFrom
<1>4. CASE live.old
  <2>1. NumberInv'
    BY <1>1, <1>3, NumbersKept DEF LinesInv
  <2>2. CountInv'
    <3>1. /\ lost \in Nat /\ late \in Nat /\ late' = late + 1 /\ lost' = lost
          /\ IsFiniteSet(db.children) /\ db' = db
      BY <1>1, <1>4 DEF LinesInv, CountInv, IInv
    <3>2. \A k \in Nat : /\ StoredIn(db.children, k) \in Nat
                         /\ StoredIn(db.children, k) <= 1 + lost + late
      BY <3>1, StoredIsCounted DEF LinesInv, CountInv
    <3>. QED  BY <3>1, <3>2 DEF CountInv
  <2>. QED  BY <2>1, <2>2 DEF LinesInv
<1>5. CASE ~live.old
  <2>1. Offers(rows') \subseteq Offers(live.form.rows)
    BY <1>1, <1>2, WithinOffers
  <2>2. \A k \in Nat : Offered(k)' => Offered(k)
    BY <1>1, <1>5, <2>1, OfferedNext DEF Offered
  <2>3. (Offering' => Offering) /\ UNCHANGED late
    BY <1>1, <1>5 DEF Offering
  <2>. QED  BY <1>1, <1>3, <2>2, <2>3, PassingLines
<1>. QED  BY <1>4, <1>5

(* Every step keeps the count.                                             *)
LEMMA NextLines ==
    ASSUME IInv, LinesInv, [Next]_vars
    PROVE  LinesInv'
<1>1. ASSUME UNCHANGED <<rows, db, save, live, lines, lost, late>>
      PROVE  LinesInv'
  <2>1. Within(rows', rows)
    BY <1>1 DEF Within, New
  <2>. QED  BY <1>1, <2>1, TableLines
<1>2. CASE Edit \/ Cancel
  <2>1. UNCHANGED <<db, save, live, lines, lost, late>>
    BY <1>2 DEF Edit, Cancel, countVars
  <2>2. New(rows') = {}
    <3>1. CASE Edit
      <4>1. PICK list : rows' = FreshRows(list)
        BY <3>1 DEF Edit, ShowForm, EditFresh, Draw
      <4>2. New(FreshRows(list)) = {}
        BY FreshNew
      <4>. QED  BY <4>1, <4>2 DEF New
    <3>2. CASE Cancel
      BY <3>2 DEF Cancel, ShowRecord, NoTable, Draw, New
    <3>. QED  BY <1>2, <3>1, <3>2
  <2>. QED  BY <2>1, <2>2, TableLines
<1>3. CASE EditPicker \/ EditCode \/ MountCode \/ UNCHANGED vars
  BY <1>1, <1>3 DEF EditPicker, EditCode, MountCode, vars, gridVars, pageVars, countVars
<1>. QED
  BY <1>2, <1>3, EditGridLines, SendLines, AnswerLines, SaveCommittedLines,
     RefusalShownLines, SaveShownLines, SaveLostLines, LiveShownLines DEF Next

LEMMA AlwaysCounted == Spec => []LinesInv
<1>1. IInv /\ LinesInv /\ [Next]_vars => LinesInv'
  BY NextLines
<1>. QED  BY <1>1, InitLines, AlwaysInOrder, PTL DEF Spec

(* However many lines, saves and redrawings of the form: a line that was   *)
(* added once is stored once, but for each answer that was lost and each   *)
(* old one drawn after a save.                                             *)
THEOREM LinesAreCreatedOnce == Spec => []CreatedOnce
<1>1. IInv /\ LinesInv => CreatedOnce
  <2>1. SUFFICES ASSUME IInv, LinesInv, NEW c \in db.children
                 PROVE  Cardinality({d \in db.children : d.line = c.line}) <= 1 + lost + late
    BY DEF CreatedOnce
  <2>2. c.line \in Nat
    <3>1. db.children \in SUBSET Child
      BY <2>1 DEF IInv, PageTypeOK
    <3>. QED  BY <2>1, <3>1 DEF Child
  <2>. QED  BY <2>1, <2>2 DEF LinesInv, CountInv, StoredIn
<1>. QED  BY <1>1, AlwaysInOrder, AlwaysCounted, PTL
-----------------------------------------------------------------------------
(* The rows that are not struck out, and the places they have among each   *)
(* other: a rank is a place, and every place is taken.                     *)
LEMMA RanksFill ==
    ASSUME NEW S, S \subseteq Nat, IsFiniteSet(S)
    PROVE  /\ Cardinality(S) \in Nat
           /\ \A i \in S : Rank(S, i) \in 1..Cardinality(S)
           /\ \A i, j \in S : i < j => Rank(S, i) < Rank(S, j)
           /\ \A k \in 1..Cardinality(S) : \E i \in S : Rank(S, i) = k
<1> DEFINE upto(i) == {j \in S : j <= i}
           n == Cardinality(S)
<1>1. n \in Nat
  BY FS_CardinalityType
<1>2. ASSUME NEW i \in S
      PROVE  /\ IsFiniteSet(upto(i)) /\ Cardinality(upto(i)) \in 1..n
             /\ Rank(S, i) = Cardinality(upto(i))
  <2>1. upto(i) \in SUBSET S /\ i \in upto(i)
    OBVIOUS
  <2>2. IsFiniteSet(upto(i)) /\ Cardinality(upto(i)) <= n /\ Cardinality(upto(i)) \in Nat
    BY <2>1, FS_Subset, FS_CardinalityType
  <2>3. Cardinality(upto(i)) # 0
    BY <2>1, <2>2, FS_EmptySet
  <2>. QED  BY <1>1, <2>2, <2>3 DEF Rank
<1>3. ASSUME NEW i \in S, NEW j \in S, i < j
      PROVE  Rank(S, i) < Rank(S, j)
  <2> DEFINE more == upto(i) \union {j}
  <2>1. more \in SUBSET upto(j) /\ j \notin upto(i)
    <3>1. /\ i \in Nat /\ j \in Nat
          /\ \A x \in upto(i) : x \in Nat /\ x \in S /\ x <= i
      OBVIOUS
    <3>2. (\A x \in upto(i) : x <= j) /\ j <= j /\ ~(j <= i)
      BY <1>3, <3>1
    <3>3. j \notin upto(i) /\ j \in upto(j)
      BY <3>2
    <3>4. \A x \in upto(i) : x \in upto(j)
      BY <3>1, <3>2
    <3> HIDE DEF upto
    <3>. QED  BY <3>3, <3>4
  <2>2. Cardinality(more) = Cardinality(upto(i)) + 1
    BY <1>2, <2>1, FS_AddElement
  <2>3. Cardinality(more) <= Cardinality(upto(j))
    BY <1>2, <2>1, FS_Subset
  <2> HIDE DEF upto, more
  <2>. QED  BY <1>2, <2>2, <2>3
<1> HIDE DEF upto
<1>4. \A k \in 1..n : \E i \in S : Rank(S, i) = k
  <2> DEFINE r == [i \in S |-> Rank(S, i)]
  <2>1. r \in Injection(S, 1..n)
    <3>1. r \in [S -> 1..n]
      BY <1>2
    <3>2. ASSUME NEW i \in S, NEW j \in S, r[i] = r[j]
          PROVE  i = j
      BY <1>1, <1>2, <1>3, <3>2
    <3>. QED  BY <3>1, <3>2 DEF Injection, IsInjective
  <2>2. IsFiniteSet(1..n) /\ Cardinality(1..n) = n
    BY <1>1, FS_Interval
  <2>3. r \in Surjection(S, 1..n)
    BY <2>1, <2>2, FS_Injection
  <2>. QED  BY <2>3 DEF Surjection
<1>. QED  BY <1>1, <1>2, <1>3, <1>4

(* What rowsIn gives.                                                      *)
LEMMA RowsInAre ==
    ASSUME NEW rs \in Seq(Row)
    PROVE  LET S == Live(rs)
               n == Cardinality(S)
           IN  /\ S \subseteq DOMAIN rs /\ S \subseteq Nat /\ IsFiniteSet(S) /\ n \in Nat
               /\ rowsIn(rs) \in Seq(Row) /\ Len(rowsIn(rs)) = n
               /\ \A i \in S : Rank(S, i) \in 1..n /\ rowsIn(rs)[Rank(S, i)] = rs[i]
               /\ \A i, j \in S : i < j => Rank(S, i) < Rank(S, j)
               /\ \A k \in 1..n : \E i \in S : Rank(S, i) = k /\ rowsIn(rs)[k] = rs[i]
<1> DEFINE S == Live(rs)
           n == Cardinality(S)
<1>1. /\ Len(rs) \in Nat /\ DOMAIN rs = 1..Len(rs) /\ \A i \in DOMAIN rs : rs[i] \in Row
  BY LenProperties
<1>2. S \subseteq DOMAIN rs /\ S \subseteq Nat /\ IsFiniteSet(S)
  <2>1. S \in SUBSET (1..Len(rs)) /\ IsFiniteSet(1..Len(rs))
    BY <1>1, FS_Interval DEF Live
  <2>. QED  BY <1>1, <2>1, FS_Subset
<1> HIDE DEF S
<1>3. /\ n \in Nat /\ \A i \in S : Rank(S, i) \in 1..n
      /\ \A i, j \in S : i < j => Rank(S, i) < Rank(S, j)
      /\ \A k \in 1..n : \E i \in S : Rank(S, i) = k
  BY <1>2, RanksFill
<1> HIDE DEF n
<1>4. \A i, j \in S : Rank(S, i) = Rank(S, j) => i = j
  <2>1. SUFFICES ASSUME NEW i \in S, NEW j \in S, i # j PROVE Rank(S, i) # Rank(S, j)
    OBVIOUS
  <2>2. i \in Nat /\ j \in Nat /\ Rank(S, i) \in Nat /\ Rank(S, j) \in Nat
    BY <1>2, <1>3
  <2>3. i < j \/ j < i
    BY <2>1, <2>2
  <2>. QED  BY <1>3, <2>2, <2>3
<1> DEFINE live_ == [k \in 1..n |-> rs[CHOOSE i \in S : Rank(S, i) = k]]
<1>5. rowsIn(rs) = live_
  BY DEF rowsIn, S, n
<1>6. \A i \in S : live_[Rank(S, i)] = rs[i]
  BY <1>3, <1>4
<1>7. \A k \in 1..n : \E i \in S : Rank(S, i) = k /\ live_[k] = rs[i]
  BY <1>3, <1>6
<1>8. live_ \in [1..n -> Row]
  BY <1>1, <1>2, <1>7
<1>9. live_ \in Seq(Row) /\ Len(live_) = n
  BY <1>3, <1>8, SeqDef
<1> HIDE DEF live_
<1>. QED  BY <1>2, <1>3, <1>5, <1>6, <1>7, <1>9 DEF S, n

(* The place of a row that is looked for by its index.                     *)
Place(rs, idx) == SelectInSeq(rowsIn(rs), LAMBDA row : row.idx = idx)

LEMMA PlaceIs ==
    ASSUME NEW rs \in Seq(Row), Distinct(rs)
    PROVE  /\ \A i \in Live(rs) : Place(rs, rs[i].idx) = Rank(Live(rs), i)
           /\ \A idx : \/ Place(rs, idx) = 0
                       \/ \E i \in Live(rs) : rs[i].idx = idx /\ Place(rs, idx) = Rank(Live(rs), i)
<1> DEFINE S == Live(rs)
           n == Cardinality(S)
           t == rowsIn(rs)
           at(idx) == {k \in 1..Len(t) : t[k].idx = idx}
<1>1. /\ S \subseteq DOMAIN rs /\ S \subseteq Nat /\ n \in Nat /\ Len(t) = n
      /\ \A i \in S : Rank(S, i) \in 1..n /\ t[Rank(S, i)] = rs[i]
      /\ \A k \in 1..n : \E i \in S : Rank(S, i) = k /\ t[k] = rs[i]
  BY RowsInAre
<1>2. \A idx : Place(rs, idx) = IF at(idx) # {} THEN Min(at(idx)) ELSE 0
  BY DEF Place, SelectInSeq
<1> HIDE DEF S, n, t
<1>3. ASSUME NEW i \in S
      PROVE  at(rs[i].idx) = {Rank(S, i)}
  <2>1. Rank(S, i) \in at(rs[i].idx)
    BY <1>1
  <2>2. ASSUME NEW k \in at(rs[i].idx) PROVE k = Rank(S, i)
    <3>1. PICK j \in S : Rank(S, j) = k /\ t[k] = rs[j]
      BY <1>1
    <3>2. rs[j].idx = rs[i].idx /\ i \in DOMAIN rs /\ j \in DOMAIN rs
      BY <1>1, <3>1
    <3>. QED  BY <3>1, <3>2 DEF Distinct
  <2>. QED  BY <2>1, <2>2
<1>4. ASSUME NEW x \in Nat
      PROVE  Min({x}) = x
  BY DEF Min
<1>5. ASSUME NEW i \in S
      PROVE  Place(rs, rs[i].idx) = Rank(S, i)
  <2>1. Rank(S, i) \in Nat /\ at(rs[i].idx) = {Rank(S, i)}
    BY <1>1, <1>3
  <2>2. Place(rs, rs[i].idx) = Min(at(rs[i].idx))
    BY <1>2, <2>1
  <2> HIDE DEF at
  <2>. QED  BY <1>4, <2>1, <2>2
<1>6. ASSUME NEW idx, Place(rs, idx) # 0
      PROVE  \E i \in S : rs[i].idx = idx /\ Place(rs, idx) = Rank(S, i)
  <2>1. PICK k \in 1..n : t[k].idx = idx
    BY <1>1, <1>2, <1>6
  <2>2. PICK i \in S : t[k] = rs[i]
    BY <1>1
  <2>. QED  BY <1>5, <2>1, <2>2
<1>. QED  BY <1>5, <1>6 DEF S
-----------------------------------------------------------------------------
(* The keyboard.                                                           *)

(* Focus moves to a cell of a row that is there.                           *)
LEMMA FocusIsCell ==
    ASSUME rows \in Seq(Row), NEW r \in 1..Len(rowsIn(rows)), NEW c \in 1..Cols, focusCell(r, c)
    PROVE  focus' \in Cell
<1>1. rowsIn(rows)[r] \in Row
  BY RowsInAre, LenProperties
<1>2. rowsIn(rows)[r].idx \in Nat
  BY <1>1 DEF Row
<1>. QED  BY <1>2 DEF focusCell, Cell

(* The place the keyboard starts from.                                     *)
LEMMA RowOfIs ==
    ASSUME TableInv, NEW idx
    PROVE  /\ RowOf(idx) = Place(rows, idx)
           /\ RowOf(idx) \in 0..Len(rowsIn(rows)) /\ Len(rowsIn(rows)) \in Nat
<1>1. rows \in Seq(Row) /\ Distinct(rows)
  BY DEF TableInv, TableTypeOK, Keyed
<1>2. RowOf(idx) = Place(rows, idx)
  BY DEF RowOf, Place
<1>3. /\ Len(rowsIn(rows)) = Cardinality(Live(rows)) /\ Len(rowsIn(rows)) \in Nat
      /\ \A i \in Live(rows) : Rank(Live(rows), i) \in 1..Cardinality(Live(rows))
  BY <1>1, RowsInAre
<1>4. \/ Place(rows, idx) = 0
      \/ \E i \in Live(rows) : Place(rows, idx) = Rank(Live(rows), i)
  BY <1>1, PlaceIs
<1>. QED  BY <1>2, <1>3, <1>4

(* A key that goes one row or one column on.                               *)
LEMMA PressMoves ==
    ASSUME TableInv, focus \in Cell, NEW line, NEW way \in Ways, Press(way[1], way[2], line)
    PROVE  \/ \E col \in 1..Cols : AddRow(line, col)
           \/ /\ \E r \in 1..Len(rowsIn(rows)), col \in 1..Cols : focusCell(r, col)
              /\ UNCHANGED dragged
<1> DEFINE live_ == rowsIn(rows)
           r == RowOf(focus.idx)
           c == focus.col
           over == c + way[2] > Cols
           under == c + way[2] < 1
           col == IF over THEN 1 ELSE IF under THEN Cols ELSE c + way[2]
           to == r + way[1] + (IF over THEN 1 ELSE IF under THEN -1 ELSE 0)
<1>1. c \in 1..Cols /\ Cols \in Nat \ {0} /\ 1 \in 1..Cols
  BY GridAssumption DEF Cell
<1>2. way[1] \in {-1, 0, 1} /\ way[2] \in {-1, 0, 1}
  BY DEF Ways
<1>3. r \in 0..Len(live_) /\ Len(live_) \in Nat
  BY RowOfIs
<1>4. IF live_ = <<>>
        THEN AddRow(line, 1)
        ELSE IF to > Len(live_) THEN AddRow(line, col)
        ELSE /\ focusCell(IF to < 1 THEN 1 ELSE to, col)
             /\ UNCHANGED dragged
  BY DEF Press, navigate
<1> HIDE DEF live_, r, c
<1>5. col \in 1..Cols /\ to \in Int
  BY <1>1, <1>2, <1>3
<1>6. CASE live_ = <<>>
  BY <1>1, <1>4, <1>6
<1>7. CASE live_ # <<>>
  <2>1. Len(live_) # 0
    <3>1. live_ \in Seq(Row)
      BY RowsInAre DEF TableInv, TableTypeOK, live_
    <3>. QED  BY <1>7, <3>1, EmptySeq
  <2> HIDE DEF col, to
  <2>2. CASE to > Len(live_)
    BY <1>4, <1>5, <1>7, <2>2
  <2>3. CASE ~(to > Len(live_))
    <3>1. (IF to < 1 THEN 1 ELSE to) \in 1..Len(live_)
      BY <1>3, <1>5, <2>1, <2>3
    <3>. QED  BY <1>4, <1>5, <1>7, <2>3, <3>1 DEF live_
  <2>. QED  BY <2>2, <2>3
<1>. QED  BY <1>6, <1>7

(* Whatever is done to the table, what is dragged is a row, and what has   *)
(* the focus a cell.                                                       *)
LEMMA CursorStep ==
    ASSUME TableInv, CursorTypeOK, NEW line, GridStep(line)
    PROVE  CursorTypeOK'
<1>1. /\ rows \in Seq(Row) /\ nextIdx \in Nat /\ 1 \in 1..Cols
      /\ \A i \in DOMAIN rows : rows[i] \in Row /\ rows[i].idx \in Nat
  <2>1. rows \in Seq(Row) /\ nextIdx \in Nat /\ 1 \in 1..Cols
    BY GridAssumption DEF TableInv, TableTypeOK
  <2>2. \A i \in DOMAIN rows : rows[i] \in Row
    BY <2>1, LenProperties
  <2>. QED  BY <2>1, <2>2 DEF Row
<1>2. ASSUME NEW col \in 1..Cols, AddRow(line, col)
      PROVE  CursorTypeOK'
  BY <1>1, <1>2 DEF AddRow, CursorTypeOK, Cell
<1>3. ASSUME NEW i \in DOMAIN rows, DeleteRow(i)
      PROVE  CursorTypeOK'
  BY <1>1, <1>3 DEF DeleteRow, CursorTypeOK, Cell
<1>4. ASSUME NEW i \in DOMAIN rows, DragStart(i)
      PROVE  CursorTypeOK'
  BY <1>1, <1>4 DEF DragStart, CursorTypeOK, Cell
<1>5. ASSUME NEW i \in DOMAIN rows, NEW v, EditCell(i, v)
      PROVE  CursorTypeOK'
  BY <1>5 DEF EditCell, CursorTypeOK, Cell
<1>6. ASSUME NEW i \in DOMAIN rows, NEW t, NEW b, DragOver(i, t, b)
      PROVE  CursorTypeOK'
  BY <1>6 DEF DragOver, CursorTypeOK, Cell
<1>7. CASE Drop \/ DragEnd
  BY <1>7 DEF Drop, DragEnd, CursorTypeOK, Cell
<1>8. ASSUME NEW r \in 1..Len(rowsIn(rows)), NEW c \in 1..Cols, focusCell(r, c), UNCHANGED dragged
      PROVE  CursorTypeOK'
  BY <1>1, <1>8, FocusIsCell DEF CursorTypeOK, Cell
<1>9. ASSUME NEW r \in 1..Len(rowsIn(rows)), NEW c \in 1..Cols, ClickCell(r, c)
      PROVE  CursorTypeOK'
  BY <1>8, <1>9 DEF ClickCell
<1>10. ASSUME NEW way \in Ways, Press(way[1], way[2], line)
       PROVE  CursorTypeOK'
  <2>1. focus \in Cell
    BY <1>10 DEF Press, CursorTypeOK
  <2>. QED  BY <1>2, <1>8, <1>10, <2>1, PressMoves
<1>. QED  BY <1>1, <1>2, <1>3, <1>4, <1>5, <1>6, <1>7, <1>9, <1>10 DEF GridStep

(* Types.                                                                  *)
PlainInv ==
    /\ CursorTypeOK
    /\ mode \in {"display", "edit"} /\ working \in {"grid", "picker", "code"}
    /\ lost \in 0..MaxLost /\ acts \in 0..MaxActs

LEMMA PlainInit == Init => PlainInv
BY PageAssumption DEF Init, PlainInv, CursorTypeOK

LEMMA PlainNext ==
    ASSUME IInv, PlainInv, [Next]_vars
    PROVE  PlainInv'
<1>1. ASSUME NEW rs, NEW next, NEW known, Draw(rs, next, known)
      PROVE  CursorTypeOK'
  BY <1>1 DEF Draw, CursorTypeOK, Cell
<1>2. ASSUME ShowRecord \/ ShowForm \/ \E form : ShowAgain(form)
      PROVE  CursorTypeOK' /\ mode' \in {"display", "edit"}
  BY <1>1, <1>2 DEF ShowRecord, ShowForm, ShowAgain, NoTable, EditFresh, EditPlayback
<1>3. ASSUME UNCHANGED <<dragged, focus>>
      PROVE  CursorTypeOK'
  BY <1>3 DEF PlainInv, CursorTypeOK, Cell
<1>4. Event => acts' \in 0..MaxActs
  BY PageAssumption DEF Event, PlainInv
<1>5. CASE Edit \/ Cancel
  BY <1>2, <1>4, <1>5 DEF Edit, Cancel, countVars, PlainInv
<1>6. CASE EditGrid
  <2>1. TableInv /\ GridStep(lines + 1)
    BY <1>6 DEF IInv, EditGrid
  <2>2. CursorTypeOK'
    BY <2>1, CursorStep DEF PlainInv
  <2>. QED  BY <1>4, <1>6, <2>2 DEF EditGrid, pageVars, PlainInv
<1>7. CASE EditPicker \/ EditCode \/ Save \/ ChangeLive
  BY <1>3, <1>4, <1>7 DEF EditPicker, EditCode, Save, ChangeLive,
     gridVars, pageVars, countVars, PlainInv
<1>8. CASE MountCode \/ SaveRefused \/ SaveCommitted \/ LiveDrawn \/ UNCHANGED vars
  BY <1>3, <1>8 DEF MountCode, SaveRefused, SaveCommitted, LiveDrawn, vars,
     gridVars, pageVars, countVars, PlainInv
<1>9. CASE SaveLost
  <2>1. lost' \in 0..MaxLost
    BY <1>9, PageAssumption DEF SaveLost, PlainInv
  <2>. QED  BY <1>3, <1>9, <2>1 DEF SaveLost, gridVars, PlainInv
<1>10. CASE RefusalShown \/ SaveShown \/ LiveShown
  BY <1>2, <1>10 DEF RefusalShown, SaveShown, LiveShown, countVars, PlainInv
<1>. QED  BY <1>5, <1>6, <1>7, <1>8, <1>9, <1>10 DEF Next

(* Whatever the user and the answers do, every variable of the page is of  *)
(* its type: focus is on a cell of a row, and nothing is dragged but rows. *)
THEOREM FormTypeCorrect == Spec => []FormTypeOK
<1>1. IInv /\ LinesInv /\ PlainInv => FormTypeOK
  BY DEF FormTypeOK, IInv, TableInv, PickerInv, CodeInv, LinesInv, CountInv, PlainInv
<1>2. IInv /\ PlainInv /\ [Next]_vars => PlainInv'
  BY PlainNext
<1>. QED  BY <1>1, <1>2, PlainInit, AlwaysInOrder, AlwaysCounted, PTL DEF Spec
-----------------------------------------------------------------------------
(* Numbers of cells.                                                       *)
LEMMA CellNumbers ==
    ASSUME NEW r \in Nat \ {0}, NEW c \in 1..Cols
    PROVE  /\ (r - 1) * Cols + c \in Nat \ {0}
           /\ (r + 1 - 1) * Cols + 1 = (r - 1) * Cols + Cols + 1
           /\ (r - 1) * Cols + c = 1 <=> r = 1 /\ c = 1
           /\ r # 1 => (r - 1 - 1) * Cols + Cols = (r - 1) * Cols + 1 - 1
<1>1. Cols \in Nat \ {0} /\ c \in Nat
  BY GridAssumption
<1>2. PICK p \in Nat : p = r - 1
  OBVIOUS
<1>3. p * Cols \in Nat /\ (p # 0 => p * Cols >= Cols)
  BY <1>1
<1>4. (p + 1) * Cols = p * Cols + Cols /\ (p - 1) * Cols = p * Cols - Cols
  BY <1>1
<1>. QED  BY <1>1, <1>2, <1>3, <1>4

(* The new line comes after all others that are not struck out.            *)
LEMMA NewRowIsLast ==
    ASSUME TableInv, TableInv', NEW line \in Nat, NEW col, AddRow(line, col)
    PROVE  Place(rows', nextIdx) = Len(rowsIn(rows)) + 1
<1> DEFINE L == Len(rows)
           rs == Append(rows, NewRow(line))
<1>1. /\ rows \in Seq(Row) /\ rows' \in Seq(Row) /\ Distinct(rows') /\ nextIdx \in Nat
      /\ L \in Nat /\ DOMAIN rows = 1..L
  BY LenProperties DEF TableInv, TableTypeOK, Keyed
<1>2. NewRow(line) \in Row /\ NewRow(line).idx = nextIdx /\ ~Struck(NewRow(line))
  BY <1>1, GridAssumption DEF NewRow, Row, Struck
<1>3. rs \in Seq(Row) /\ DOMAIN rs = 1..(L + 1) /\ rs[L + 1] = NewRow(line)
      /\ \A i \in 1..L : rs[i] = rows[i]
  BY <1>1, <1>2, AppendProperties, LenProperties
<1>4. rows' = renumber(rs)
  BY DEF AddRow, Renumbered
<1> HIDE DEF rs, L
<1>5. /\ DOMAIN rows' = 1..(L + 1)
      /\ \A i \in 1..(L + 1) : rows'[i].idx = rs[i].idx /\ (Struck(rows'[i]) <=> Struck(rs[i]))
  <2>1. DOMAIN rows' = DOMAIN rs /\ \A i \in DOMAIN rs : rows'[i].idx = rs[i].idx /\ rs[i] \in Row
    BY <1>3, <1>4, RenumberKeepsKeys, LenProperties
  <2>2. ASSUME NEW i \in DOMAIN rs
        PROVE  Struck(rows'[i]) <=> Struck(rs[i])
    <3>1. rows'[i] = IF Struck(rs[i]) THEN rs[i] ELSE [rs[i] EXCEPT !.seq = i]
      BY <1>4 DEF renumber
    <3>2. [rs[i] EXCEPT !.seq = i].op = rs[i].op
      BY <2>1 DEF Row
    <3>. QED  BY <3>1, <3>2 DEF Struck
  <2>. QED  BY <1>3, <2>1, <2>2
<1> DEFINE S == Live(rows)
           T == Live(rows')
<1>6. T = S \union {L + 1} /\ L + 1 \notin S /\ \A i \in T : i <= L + 1
  BY <1>1, <1>2, <1>3, <1>5 DEF Live
<1>7. IsFiniteSet(S) /\ Cardinality(S) = Len(rowsIn(rows)) /\ Cardinality(S) \in Nat
  BY <1>1, RowsInAre
<1>8. Cardinality(T) = Len(rowsIn(rows)) + 1
  BY <1>6, <1>7, FS_AddElement
<1>9. {j \in T : j <= L + 1} = T
  BY <1>6
<1>10. Rank(T, L + 1) = Cardinality(T)
  BY <1>9 DEF Rank
<1>11. L + 1 \in T /\ rows'[L + 1].idx = nextIdx
  <2>1. L + 1 \in 1..(L + 1)
    BY <1>1
  <2>. QED  BY <1>2, <1>3, <1>5, <1>6, <2>1
<1>12. Place(rows', rows'[L + 1].idx) = Rank(T, L + 1)
  BY <1>1, <1>11, PlaceIs
<1>. QED  BY <1>8, <1>10, <1>11, <1>12

(* Where Tab, and Shift+Tab, go from a cell of a line that is not struck   *)
(* out.                                                                    *)
LEMMA TabGoes ==
    ASSUME TableInv, TableInv', focus \in Cell, NEW line \in Nat, NEW d \in {1, -1},
           Press(0, d, line), RowOf(focus.idx) # 0
    PROVE  LET at == CellNumber(rows, focus)
               to == CellNumber(rows', focus')
           IN  to = IF at + d = 0 THEN Cols ELSE at + d
<1> DEFINE live_ == rowsIn(rows)
           n == Len(live_)
           r == RowOf(focus.idx)
           c == focus.col
           over == c + d > Cols
           under == c + d < 1
           col == IF over THEN 1 ELSE IF under THEN Cols ELSE c + d
           to == r + 0 + (IF over THEN 1 ELSE IF under THEN -1 ELSE 0)
           p == IF to < 1 THEN 1 ELSE to
           at == CellNumber(rows, focus)
<1>1. c \in 1..Cols /\ Cols \in Nat \ {0} /\ rows \in Seq(Row) /\ Distinct(rows)
  BY GridAssumption DEF Cell, TableInv, TableTypeOK, Keyed
<1>2. r \in 1..n /\ n \in Nat /\ r = Place(rows, focus.idx)
  BY RowOfIs
<1>3. live_ # <<>>
  <2>1. Len(<<>>) = 0
    OBVIOUS
  <2>. QED  BY <1>2, <2>1
<1>4. at = (r - 1) * Cols + c
  BY <1>2 DEF CellNumber, Place
<1>5. IF to > n THEN AddRow(line, col)
      ELSE focusCell(p, col) /\ UNCHANGED rows
  BY <1>3 DEF Press, navigate
<1>6. CASE to > n
  <2>1. AddRow(line, col)
    BY <1>5, <1>6
  <2> HIDE DEF live_, r, c, at
  <2>2. r = n /\ c = Cols /\ d = 1 /\ col = 1
    BY <1>1, <1>2, <1>6
  <2>3. focus' = [idx |-> nextIdx, col |-> 1]
    BY <2>1, <2>2 DEF AddRow
  <2>4. Place(rows', nextIdx) = n + 1
    BY <2>1, NewRowIsLast DEF live_
  <2>5. CellNumber(rows', focus') = (Place(rows', focus'.idx) - 1) * Cols + focus'.col
    BY DEF CellNumber, Place
  <2>6. CellNumber(rows', focus') = (n + 1 - 1) * Cols + 1
    BY <2>3, <2>4, <2>5
  <2>7. /\ (r - 1) * Cols + c \in Nat \ {0}
        /\ (r + 1 - 1) * Cols + 1 = (r - 1) * Cols + Cols + 1
    BY <1>1, <1>2, CellNumbers
  <2> HIDE DEF n, to, col
  <2>8. CellNumber(rows', focus') = at + d /\ at + d # 0
    BY <1>1, <1>4, <2>2, <2>6, <2>7
  <2>. QED  BY <2>8 DEF at
<1>7. CASE ~(to > n)
  <2>1. focusCell(p, col) /\ UNCHANGED rows
    BY <1>5, <1>7
  <2>2. p \in 1..n
    <3> HIDE DEF live_, n, r, c
    <3>. QED  BY <1>1, <1>2, <1>7
  <2>3. PICK i \in Live(rows) : Rank(Live(rows), i) = p /\ live_[p] = rows[i]
    BY <1>1, <2>2, RowsInAre
  <2> HIDE DEF n, p, to, col, r, c, at
  <2>4. focus' = [idx |-> rows[i].idx, col |-> col]
    BY <2>1, <2>3 DEF focusCell
  <2>5. Place(rows, rows[i].idx) = p
    BY <1>1, <2>3, PlaceIs
  <2>6. CellNumber(rows', focus') = (Place(rows', focus'.idx) - 1) * Cols + focus'.col
    BY DEF CellNumber, Place
  <2>7. CellNumber(rows', focus') = (p - 1) * Cols + col
    BY <2>1, <2>4, <2>5, <2>6
  <2>8. r \in Nat \ {0}
    BY <1>2
  <2> DEFINE x == (r - 1) * Cols
             y == (p - 1) * Cols
  <2>9. /\ x + c \in Nat \ {0}
        /\ (r + 1 - 1) * Cols + 1 = x + Cols + 1
        /\ x + c = 1 <=> r = 1 /\ c = 1
        /\ r # 1 => (r - 1 - 1) * Cols + Cols = x + 1 - 1
    BY <1>1, <2>8, CellNumbers
  <2>10. at = x + c /\ x \in Int
    BY <1>1, <1>4, <2>8
  <2>11. y + col = IF at + d = 0 THEN Cols ELSE at + d
    <3>1. CASE over
      <4>1. p = r + 1 /\ col = 1 /\ d = 1 /\ c = Cols
        BY <1>1, <1>2, <3>1 DEF p, to, col
      <4>2. y + col = x + Cols + 1
        <5>1. y = (r + 1 - 1) * Cols
          <6>1. p = r + 1
            BY <4>1
          <6>2. p - 1 = r /\ r + 1 - 1 = r
            BY <2>8, <6>1
          <6>. QED  BY <6>2
        <5>2. y + col = (r + 1 - 1) * Cols + 1
          <6> HIDE DEF y
          <6>. QED  BY <4>1, <5>1
        <5> HIDE DEF x, y
        <5>. QED  BY <2>9, <5>2
      <4> HIDE DEF x, y
      <4>. QED  BY <1>1, <2>9, <2>10, <4>1, <4>2
    <3>2. CASE under /\ r = 1
      <4>1. p = 1 /\ col = Cols /\ d = -1 /\ c = 1
        BY <1>1, <1>2, <3>2 DEF p, to, col
      <4>2. y = 0
        BY <1>1, <4>1
      <4> HIDE DEF x, y
      <4>. QED  BY <1>1, <2>9, <2>10, <3>2, <4>1, <4>2
    <3>3. CASE under /\ r # 1
      <4>1. p = r - 1 /\ col = Cols /\ d = -1 /\ c = 1
        BY <1>1, <1>2, <3>3 DEF p, to, col
      <4>2. y + col = x + 1 - 1
        BY <2>9, <3>3, <4>1
      <4> HIDE DEF x, y
      <4>. QED  BY <1>1, <2>9, <2>10, <3>3, <4>1, <4>2
    <3>4. CASE ~over /\ ~under
      <4>1. p = r /\ col = c + d /\ (d = -1 => c # 1)
        BY <1>1, <1>2, <3>4 DEF p, to, col
      <4>2. y = x
        BY <4>1
      <4> HIDE DEF x, y
      <4>. QED  BY <1>1, <2>9, <2>10, <4>1, <4>2
    <3>. QED  BY <3>1, <3>2, <3>3, <3>4
  <2>. QED  BY <2>7, <2>11 DEF at, y
<1>. QED  BY <1>6, <1>7

(* However many lines and columns: Tab goes from each cell of a live line  *)
(* to the next, row by row, adding a line after the last, and Shift+Tab    *)
(* back, but from the very first cell.                                     *)
THEOREM TabAlwaysWalks == Spec => TabWalks
<1> DEFINE Walks == \A d \in {1, -1} :
             EditGrid /\ Press(0, d, lines + 1) /\ RowOf(focus.idx) # 0 =>
               LET at == CellNumber(rows, focus) to == CellNumber(rows', focus')
               IN  to = IF at + d = 0 THEN Cols ELSE at + d
<1>1. ASSUME IInv, IInv', PlainInv PROVE Walks
  <2>1. SUFFICES ASSUME NEW d \in {1, -1}, Press(0, d, lines + 1), RowOf(focus.idx) # 0
                 PROVE  LET at == CellNumber(rows, focus) to == CellNumber(rows', focus')
                        IN  to = IF at + d = 0 THEN Cols ELSE at + d
    OBVIOUS
  <2>2. TableInv /\ TableInv' /\ lines + 1 \in Nat
    BY <1>1 DEF IInv, PageTypeOK
  <2>3. focus \in Cell
    BY <1>1, <2>1 DEF PlainInv, CursorTypeOK, Press
  <2>. QED  BY <2>1, <2>2, <2>3, TabGoes
<1>2. IInv /\ IInv' /\ PlainInv /\ [Next]_vars => [Walks]_vars
  BY <1>1
<1>3. IInv /\ PlainInv /\ [Next]_vars => PlainInv'
  BY PlainNext
<1>. QED  BY <1>2, <1>3, PlainInit, AlwaysInOrder, PTL DEF Spec, TabWalks
-----------------------------------------------------------------------------
(* What a save stores. The argument has two parts. While no answer was     *)
(* lost or late, a form that can still be saved shows the children that    *)
(* are stored, each in one row, besides the lines that were added. And     *)
(* while `moved` is false, the sequence numbers of the live rows say what  *)
(* their positions say. So the children a save leaves, one for each live   *)
(* row, are listed in the order of those rows, and there is no other order *)
(* the listing can have.                                                   *)

(* The rows that stand for children, whatever was entered in them.         *)
Known(rs) ==
    {[idx |-> rs[i].idx, id |-> rs[i].id, line |-> rs[i].line]
       : i \in {k \in DOMAIN rs : rs[k].op # "create"}}
Matches(rs, children) ==
    /\ \A x \in Known(rs) : \E c \in children : c.id = x.id /\ c.line = x.line
    /\ \A x, y \in Known(rs) : x.id = y.id => x = y
    /\ \A c \in children : \E x \in Known(rs) : x.id = c.id

(* The sequence numbers say what the positions say.                        *)
Sorted(rs) ==
    \A i, j \in Live(rs) : i < j =>
        \/ rs[i].seq < rs[j].seq
        \/ /\ rs[i].seq = rs[j].seq /\ rs[i].id < rs[j].id
           /\ rs[i].op = "update" /\ rs[j].op = "update"

IdsInv ==
    /\ \A c \in db.children : c.id <= lastId
    /\ \A c, d \in db.children : c.id = d.id => c = d
SortInv ==
    /\ ~moved => Sorted(rows)
    /\ save # None /\ ~save.form.moved => Sorted(save.form.rows)
MatchInv ==
    lost = 0 /\ late = 0 /\ Offering =>
        /\ mode = "edit" => Matches(rows, db.children)
        /\ save # None => Matches(save.form.rows, db.children)
        /\ live # None /\ ~live.old => Matches(live.form.rows, db.children)
StoreInv == IdsInv /\ SortInv /\ MatchInv
-----------------------------------------------------------------------------
(* Events of the table.                                                    *)
SameKeys(r, s) ==
    /\ r.idx = s.idx /\ r.id = s.id /\ r.line = s.line
    /\ r.op = "create" <=> s.op = "create"

LEMMA KnownWithin ==
    ASSUME NEW rs, NEW ss,
           \A i \in DOMAIN rs : rs[i].op # "create" => \E j \in DOMAIN ss : SameKeys(rs[i], ss[j])
    PROVE  Known(rs) \subseteq Known(ss)
BY DEF Known, SameKeys

LEMMA KnownSame ==
    ASSUME NEW rs, NEW ss, DOMAIN ss = DOMAIN rs, \A i \in DOMAIN rs : SameKeys(rs[i], ss[i])
    PROVE  Known(ss) = Known(rs)
<1>1. Known(rs) \subseteq Known(ss)
  BY KnownWithin
<1>2. \A i \in DOMAIN ss : SameKeys(ss[i], rs[i])
  BY DEF SameKeys
<1>3. Known(ss) \subseteq Known(rs)
  BY <1>2, KnownWithin
<1>. QED  BY <1>1, <1>3

(* Renumbering leaves the rows what they are, and puts them in order.      *)
LEMMA RenumberSorts ==
    ASSUME NEW rs \in Seq(Row)
    PROVE  Known(renumber(rs)) = Known(rs) /\ Sorted(renumber(rs))
<1> DEFINE ss == renumber(rs)
<1>1. /\ DOMAIN ss = DOMAIN rs /\ Len(rs) \in Nat /\ DOMAIN rs = 1..Len(rs)
      /\ \A i \in DOMAIN rs : rs[i] \in Row
  BY RenumberKeepsKeys, LenProperties
<1>2. ASSUME NEW i \in DOMAIN rs
      PROVE  SameKeys(rs[i], ss[i]) /\ (~Struck(ss[i]) => ss[i].seq = i)
  <2>1. ss[i] = IF Struck(rs[i]) THEN rs[i] ELSE [rs[i] EXCEPT !.seq = i]
    BY DEF renumber
  <2>2. rs[i] \in Row
    BY <1>1
  <2>3. /\ SameKeys(rs[i], [rs[i] EXCEPT !.seq = i])
        /\ [rs[i] EXCEPT !.seq = i].seq = i /\ [rs[i] EXCEPT !.seq = i].op = rs[i].op
    BY <2>2 DEF Row, SameKeys
  <2>. QED  BY <2>1, <2>3 DEF SameKeys, Struck
<1> HIDE DEF ss
<1>3. Known(ss) = Known(rs)
  BY <1>1, <1>2, KnownSame
<1>4. Sorted(ss)
  BY <1>1, <1>2 DEF Sorted, Live
<1>. QED  BY <1>3, <1>4 DEF ss

LEMMA RenumberedSorts ==
    ASSUME NEW rs \in Seq(Row), Known(rs) = Known(rows), Renumbered(rs)
    PROVE  Known(rows') = Known(rows) /\ Sorted(rows')
<1> DEFINE ss == renumber(rs)
<1>1. Known(ss) = Known(rows) /\ Sorted(ss) /\ rows' = ss
  BY RenumberSorts DEF Renumbered
<1> HIDE DEF ss
<1>2. Known(rows') = Known(ss) /\ (Sorted(rows') <=> Sorted(ss))
  BY <1>1 DEF Known, Sorted, Live, Struck
<1>. QED  BY <1>1, <1>2

(* An added row stands for no child.                                       *)
LEMMA AddRowStores ==
    ASSUME TableInv, NEW line \in Nat, NEW col, AddRow(line, col)
    PROVE  Known(rows') = Known(rows) /\ Sorted(rows')
<1> DEFINE row == NewRow(line)
           rs == Append(rows, row)
<1>1. row \in Row /\ row.op = "create"
  BY GridAssumption DEF NewRow, Row, TableInv, TableTypeOK
<1> HIDE DEF row
<1>2. /\ rows \in Seq(Row) /\ Len(rows) \in Nat /\ DOMAIN rows = 1..Len(rows)
      /\ rs \in Seq(Row) /\ DOMAIN rs = 1..(Len(rows) + 1)
      /\ \A k \in 1..Len(rows) : rs[k] = rows[k]
      /\ rs[Len(rows) + 1] = row
  <2>1. rows \in Seq(Row)
    BY DEF TableInv, TableTypeOK
  <2>. QED  BY <1>1, <2>1, AppendProperties, LenProperties
<1>3. Renumbered(rs)
  BY DEF AddRow, rs, row
<1> HIDE DEF rs
<1>4. \A k \in 1..(Len(rows) + 1) : k \in 1..Len(rows) \/ k = Len(rows) + 1
  BY <1>2
<1>5. \A k \in 1..Len(rows) : k \in 1..(Len(rows) + 1)
  BY <1>2
<1>6. Known(rs) \subseteq Known(rows)
  <2>1. \A i \in DOMAIN rs : rs[i].op # "create" => \E j \in DOMAIN rows : SameKeys(rs[i], rows[j])
    BY <1>1, <1>2, <1>4 DEF SameKeys
  <2>. QED  BY <2>1, KnownWithin
<1>7. Known(rows) \subseteq Known(rs)
  <2>1. \A i \in DOMAIN rows : rows[i].op # "create" => \E j \in DOMAIN rs : SameKeys(rows[i], rs[j])
    BY <1>2, <1>5 DEF SameKeys
  <2>. QED  BY <2>1, KnownWithin
<1>8. Known(rs) = Known(rows)
  BY <1>6, <1>7
<1>. QED  BY <1>2, <1>3, <1>8, RenumberedSorts

(* No event of the table changes which rows stand for children; while      *)
(* nothing has moved, the rows stay in order.                              *)
LEMMA GridStepStores ==
    ASSUME TableInv, NEW line \in Nat, GridStep(line), ~moved => Sorted(rows)
    PROVE  Known(rows') = Known(rows) /\ (~moved' => Sorted(rows'))
<1>1. /\ rows \in Seq(Row) /\ Distinct(rows) /\ DOMAIN rows = 1..Len(rows) /\ Len(rows) \in Nat
      /\ \A i \in DOMAIN rows : rows[i] \in Row
  BY LenProperties DEF TableInv, TableTypeOK, Keyed
<1>2. ASSUME UNCHANGED <<rows, moved>>
      PROVE  Known(rows') = Known(rows) /\ (~moved' => Sorted(rows'))
  BY <1>2 DEF Known, Sorted, Live, Struck
<1>3. ASSUME NEW i \in DOMAIN rows, DeleteRow(i)
      PROVE  Known(rows') = Known(rows) /\ Sorted(rows')
  <2>1. CASE rows[i].op = "create"
    <3> DEFINE rs == RemoveAt(rows, i)
    <3>1. /\ rs \in Seq(Row)
          /\ \A k \in DOMAIN rs : \E j \in DOMAIN rows : rs[k] = rows[j]
          /\ \A j \in DOMAIN rows \ {i} : \E k \in DOMAIN rs : rs[k] = rows[j]
      BY <1>1, RemoveKeepsKeys
    <3>2. Renumbered(rs)
      BY <1>3, <2>1 DEF DeleteRow
    <3> HIDE DEF rs
    <3>3. \A k \in DOMAIN rs : rs[k].op # "create" => \E j \in DOMAIN rows : SameKeys(rs[k], rows[j])
      BY <3>1 DEF SameKeys
    <3>4. \A j \in DOMAIN rows : rows[j].op # "create" => \E k \in DOMAIN rs : SameKeys(rows[j], rs[k])
      BY <2>1, <3>1 DEF SameKeys
    <3>5. Known(rs) = Known(rows)
      <4>1. Known(rs) \subseteq Known(rows)
        BY <3>3, KnownWithin
      <4>2. Known(rows) \subseteq Known(rs)
        BY <3>4, KnownWithin
      <4>. QED  BY <4>1, <4>2
    <3>. QED  BY <3>1, <3>2, <3>5, RenumberedSorts
  <2>2. CASE rows[i].op # "create"
    <3> DEFINE x == [rows[i] EXCEPT !.op = "delete"]
               rs == [rows EXCEPT ![i] = x]
    <3>1. x \in Row /\ SameKeys(rows[i], x)
      BY <1>1, <2>2 DEF Row, SameKeys
    <3>2. Renumbered(rs)
      BY <1>3, <2>2 DEF DeleteRow
    <3> HIDE DEF x
    <3>3. rs \in Seq(Row)
      BY <1>1, <3>1, ExceptSeq
    <3>4. DOMAIN rs = DOMAIN rows /\ \A k \in DOMAIN rows : SameKeys(rows[k], rs[k])
      <4>1. DOMAIN rs = DOMAIN rows /\ \A k \in DOMAIN rows : rs[k] = IF k = i THEN x ELSE rows[k]
        BY <1>1
      <4>. QED  BY <3>1, <4>1 DEF SameKeys
    <3> HIDE DEF rs
    <3>. QED  BY <3>2, <3>3, <3>4, KnownSame, RenumberedSorts
  <2>. QED  BY <2>1, <2>2
<1>4. ASSUME NEW i \in DOMAIN rows, NEW v \in Vals, EditCell(i, v)
      PROVE  Known(rows') = Known(rows) /\ (~moved' => Sorted(rows'))
  <2> DEFINE x == [rows[i] EXCEPT !.val = v]
  <2>1. rows' = [rows EXCEPT ![i] = x] /\ moved' = moved
    BY <1>4 DEF EditCell
  <2>2. /\ SameKeys(rows[i], x)
        /\ x.op = rows[i].op /\ x.seq = rows[i].seq /\ x.id = rows[i].id
    BY <1>1 DEF Row, SameKeys
  <2> HIDE DEF x
  <2>3. DOMAIN rows' = DOMAIN rows /\ \A k \in DOMAIN rows :
          /\ SameKeys(rows[k], rows'[k])
          /\ rows'[k].op = rows[k].op /\ rows'[k].seq = rows[k].seq /\ rows'[k].id = rows[k].id
    <3>1. DOMAIN rows' = DOMAIN rows /\ \A k \in DOMAIN rows : rows'[k] = IF k = i THEN x ELSE rows[k]
      BY <1>1, <2>1
    <3>. QED  BY <2>2, <3>1 DEF SameKeys
  <2>4. Known(rows') = Known(rows)
    BY <2>3, KnownSame
  <2>5. ~moved' => Sorted(rows')
    BY <2>1, <2>3 DEF Sorted, Live, Struck
  <2>. QED  BY <2>4, <2>5
<1>5. ASSUME NEW i \in DOMAIN rows, NEW t \in DOMAIN rows, NEW b \in BOOLEAN, DragOver(i, t, b)
      PROVE  Known(rows') = Known(rows) /\ moved'
  <2>1. PICK j \in DOMAIN rows : rows' = MoveTo(rows, i, j)
    <3>1. i \in 1..Len(rows) /\ t \in 1..Len(rows) /\ t # i
      BY <1>1, <1>5 DEF DragOver
    <3> DEFINE j == IF b THEN IF t < i THEN t ELSE t - 1
                    ELSE IF t < i THEN t + 1 ELSE t
    <3>2. j \in DOMAIN rows
      BY <1>1, <3>1
    <3>3. rows' = MoveTo(rows, i, j)
      BY <1>5 DEF DragOver
    <3>. QED  BY <3>2, <3>3
  <2> DEFINE s == MoveTo(rows, i, j)
  <2>2. /\ DOMAIN s = DOMAIN rows
        /\ \A k \in DOMAIN rows : \E l \in DOMAIN rows : s[k] = rows[l]
        /\ \A l \in DOMAIN rows : \E k \in DOMAIN rows : s[k] = rows[l]
    BY <1>1, MoveKeepsKeys
  <2>3. rows' = s /\ moved'
    BY <1>5, <2>1 DEF DragOver
  <2> HIDE DEF s
  <2>4. Known(rows') \subseteq Known(rows) /\ Known(rows) \subseteq Known(rows')
    <3>1. ASSUME NEW k \in DOMAIN s PROVE \E l \in DOMAIN rows : SameKeys(s[k], rows[l])
      <4>1. PICK l \in DOMAIN rows : s[k] = rows[l]
        BY <2>2
      <4>. QED  BY <4>1 DEF SameKeys
    <3>2. ASSUME NEW l \in DOMAIN rows PROVE \E k \in DOMAIN s : SameKeys(rows[l], s[k])
      <4>1. PICK k \in DOMAIN rows : s[k] = rows[l]
        BY <2>2
      <4>. QED  BY <2>2, <4>1 DEF SameKeys
    <3>3. Known(s) \subseteq Known(rows)
      BY <3>1, KnownWithin
    <3>4. Known(rows) \subseteq Known(s)
      BY <3>2, KnownWithin
    <3>. QED  BY <2>3, <3>3, <3>4 DEF Known
  <2>. QED  BY <2>3, <2>4
<1>6. CASE Drop
  BY <1>1, <1>6, RenumberedSorts DEF Drop
<1>7. ASSUME NEW i \in DOMAIN rows, DragStart(i)
      PROVE  UNCHANGED <<rows, moved>>
  BY <1>7 DEF DragStart
<1>8. ASSUME NEW r, NEW c, ClickCell(r, c)
      PROVE  UNCHANGED <<rows, moved>>
  BY <1>8 DEF ClickCell
<1>9. ASSUME NEW way \in Ways, Press(way[1], way[2], line)
      PROVE  (\E col : AddRow(line, col)) \/ UNCHANGED <<rows, moved>>
  BY <1>9 DEF Press, navigate
<1>10. DragEnd => UNCHANGED <<rows, moved>>
  BY DEF DragEnd
<1>. QED
  BY <1>2, <1>3, <1>4, <1>5, <1>6, <1>7, <1>8, <1>9, <1>10, AddRowStores DEF GridStep
-----------------------------------------------------------------------------
(* Tables drawn anew.                                                      *)
LEMMA MatchesSame ==
    ASSUME NEW rs, NEW ss, Known(ss) = Known(rs), NEW children, Matches(rs, children)
    PROVE  Matches(ss, children)
BY DEF Matches

(* What stands before what in a listing; each child is in it once.         *)
Before(a, b) == a.seq < b.seq \/ (a.seq = b.seq /\ a.id < b.id)

LEMMA ListingIs ==
    ASSUME NEW children \in SUBSET Child, IsFiniteSet(children), NEW list \in Listings(children)
    PROVE  LET n == Cardinality(children)
           IN  /\ n \in Nat /\ list \in [1..n -> children]
               /\ \A i, j \in 1..n : i < j => Before(list[i], list[j])
               /\ \A i, j \in 1..n : list[i] = list[j] => i = j
               /\ \A c \in children : \E i \in 1..n : c = list[i]
<1> DEFINE n == Cardinality(children)
<1>1. n \in Nat /\ IsFiniteSet(1..n) /\ Cardinality(1..n) = n
  BY FS_CardinalityType, FS_Interval
<1>2. list \in [1..n -> children] /\ \A i, j \in 1..n : i < j => Before(list[i], list[j])
  BY DEF Listings, Orders, Before
<1>3. \A i, j \in 1..n : list[i] = list[j] => i = j
  <2>1. SUFFICES ASSUME NEW i \in 1..n, NEW j \in 1..n, i < j PROVE list[i] # list[j]
    BY <1>1
  <2>2. Before(list[i], list[j]) /\ list[i].seq \in Nat /\ list[i].id \in Nat
    BY <1>2, <2>1 DEF Child
  <2>3. ASSUME list[i] = list[j] PROVE FALSE
    <3>1. Before(list[i], list[i])
      BY <2>2, <2>3
    <3>. QED  BY <2>2, <3>1 DEF Before
  <2>. QED  BY <2>3
<1>4. list \in Injection(1..n, children)
  BY <1>2, <1>3 DEF Injection, IsInjective
<1>5. list \in Surjection(1..n, children)
  BY <1>1, <1>4, FS_Injection
<1>. QED  BY <1>1, <1>2, <1>3, <1>5 DEF Surjection

LEMMA FreshStores ==
    ASSUME NEW children \in SUBSET Child, IsFiniteSet(children),
           \A c, d \in children : c.id = d.id => c = d,
           NEW list \in Listings(children)
    PROVE  Matches(FreshRows(list), children) /\ Sorted(FreshRows(list))
<1> DEFINE n == Cardinality(children)
           rs == FreshRows(list)
<1>1. /\ n \in Nat /\ list \in [1..n -> children]
      /\ \A i, j \in 1..n : i < j => Before(list[i], list[j])
      /\ \A i, j \in 1..n : list[i] = list[j] => i = j
      /\ \A c \in children : \E i \in 1..n : c = list[i]
  BY ListingIs
<1>2. /\ DOMAIN rs = 1..n
      /\ \A i \in 1..n : /\ rs[i].op = "update" /\ rs[i].id = list[i].id
                         /\ rs[i].seq = list[i].seq /\ rs[i].line = list[i].line
  BY <1>1 DEF FreshRows
<1> HIDE DEF n, rs
<1>3. \A i \in 1..n : list[i] \in children
  BY <1>1
<1>4. Known(rs) = {[idx |-> rs[i].idx, id |-> list[i].id, line |-> list[i].line] : i \in 1..n}
  BY <1>2 DEF Known
<1>5. Matches(rs, children)
  <2>1. \A x \in Known(rs) : \E c \in children : c.id = x.id /\ c.line = x.line
    BY <1>3, <1>4
  <2>2. \A x, y \in Known(rs) : x.id = y.id => x = y
    BY <1>1, <1>3, <1>4
  <2>3. \A c \in children : \E x \in Known(rs) : x.id = c.id
    <3>1. SUFFICES ASSUME NEW c \in children PROVE \E x \in Known(rs) : x.id = c.id
      OBVIOUS
    <3>2. PICK i \in 1..n : c = list[i]
      BY <1>1
    <3>3. [idx |-> rs[i].idx, id |-> list[i].id, line |-> list[i].line] \in Known(rs)
      BY <1>4
    <3>. QED  BY <3>2, <3>3
  <2>. QED  BY <2>1, <2>2, <2>3 DEF Matches
<1>6. Sorted(rs)
  <2>1. Live(rs) \subseteq 1..n
    BY <1>2 DEF Live
  <2>. QED  BY <1>1, <1>2, <2>1 DEF Sorted, Before
<1>. QED  BY <1>5, <1>6 DEF rs

LEMMA PlaybackStores ==
    ASSUME NEW posted \in Seq(Row), EditPlayback(posted)
    PROVE  Known(rows') = Known(posted) /\ moved'
<1>1. Range(rows') = Range(posted)
  BY PlaybackKeepsRows
<1> DEFINE ss == rows'
<1>2. \A i \in DOMAIN ss : \E j \in DOMAIN posted : ss[i] = posted[j]
  BY <1>1 DEF Range
<1>3. \A j \in DOMAIN posted : \E i \in DOMAIN ss : ss[i] = posted[j]
  BY <1>1 DEF Range
<1> HIDE DEF ss
<1>4. ASSUME NEW i \in DOMAIN ss PROVE \E j \in DOMAIN posted : SameKeys(ss[i], posted[j])
  <2>1. PICK j \in DOMAIN posted : ss[i] = posted[j]
    BY <1>2
  <2>. QED  BY <2>1 DEF SameKeys
<1>5. ASSUME NEW j \in DOMAIN posted PROVE \E i \in DOMAIN ss : SameKeys(posted[j], ss[i])
  <2>1. PICK i \in DOMAIN ss : ss[i] = posted[j]
    BY <1>3
  <2>. QED  BY <2>1 DEF SameKeys
<1>6. Known(ss) \subseteq Known(posted) /\ Known(posted) \subseteq Known(ss)
  <2>1. Known(ss) \subseteq Known(posted)
    BY <1>4, KnownWithin
  <2>2. Known(posted) \subseteq Known(ss)
    BY <1>5, KnownWithin
  <2>. QED  BY <2>1, <2>2
<1>7. moved'
  BY DEF EditPlayback, Draw
<1>. QED  BY <1>6, <1>7 DEF ss
-----------------------------------------------------------------------------
(* The page. Most steps leave the record alone; a request takes its rows   *)
(* from the page, and the page from an answer or from the record.          *)
SaveCarried ==
    save' # None =>
        \/ save'.form.rows = rows /\ save'.form.moved = moved /\ mode = "edit"
        \/ /\ save # None /\ save'.form.rows = save.form.rows
           /\ save'.form.moved = save.form.moved
LiveCarried ==
    live' # None /\ ~live'.old =>
        \/ live'.form.rows = rows /\ mode = "edit"
        \/ live # None /\ ~live.old /\ live'.form.rows = live.form.rows
RowsCarried ==
    mode' = "edit" =>
        \/ mode = "edit" /\ Known(rows') = Known(rows)
        \/ save # None /\ Known(rows') = Known(save.form.rows)
        \/ live # None /\ ~live.old /\ Known(rows') = Known(live.form.rows)
        \/ Matches(rows', db.children)

(* With the primes inside.                                                 *)
LEMMA StoreInvNext ==
    StoreInv' <=>
        /\ \A c \in db'.children : c.id <= lastId'
        /\ \A c, d \in db'.children : c.id = d.id => c = d
        /\ ~moved' => Sorted(rows')
        /\ save' # None /\ ~save'.form.moved => Sorted(save'.form.rows)
        /\ lost' = 0 /\ late' = 0 /\ Offering' =>
             /\ mode' = "edit" => Matches(rows', db'.children)
             /\ save' # None => Matches(save'.form.rows, db'.children)
             /\ live' # None /\ ~live'.old => Matches(live'.form.rows, db'.children)
<1>1. Matches(rows, db.children)' <=> Matches(rows', db'.children)
  BY DEF Matches, Known
<1>2. Matches(save.form.rows, db.children)' <=> Matches(save'.form.rows, db'.children)
  BY DEF Matches, Known
<1>3. Matches(live.form.rows, db.children)' <=> Matches(live'.form.rows, db'.children)
  BY DEF Matches, Known
<1>4. Sorted(rows)' <=> Sorted(rows')
  BY DEF Sorted, Live, Struck
<1>5. Sorted(save.form.rows)' <=> Sorted(save'.form.rows)
  BY DEF Sorted, Live, Struck
<1>. QED  BY <1>1, <1>2, <1>3, <1>4, <1>5 DEF StoreInv, IdsInv, SortInv, MatchInv

LEMMA StoreKept ==
    ASSUME StoreInv, UNCHANGED <<db, lastId>>, ~moved' => Sorted(rows'),
           SaveCarried, LiveCarried, RowsCarried,
           lost' = 0 /\ late' = 0 /\ Offering' => lost = 0 /\ late = 0 /\ Offering
    PROVE  StoreInv'
<1>1. save' # None /\ ~save'.form.moved => Sorted(save'.form.rows)
  BY DEF StoreInv, SortInv, SaveCarried
<1>2. ASSUME lost' = 0, late' = 0, Offering'
      PROVE  /\ mode' = "edit" => Matches(rows', db.children)
             /\ save' # None => Matches(save'.form.rows, db.children)
             /\ live' # None /\ ~live'.old => Matches(live'.form.rows, db.children)
  <2>1. /\ mode = "edit" => Matches(rows, db.children)
        /\ save # None => Matches(save.form.rows, db.children)
        /\ live # None /\ ~live.old => Matches(live.form.rows, db.children)
    BY <1>2 DEF StoreInv, MatchInv
  <2>2. mode' = "edit" => Matches(rows', db.children)
    <3>1. SUFFICES ASSUME mode' = "edit" PROVE Matches(rows', db.children)
      OBVIOUS
    <3> DEFINE ss == rows'
    <3>2. CASE Matches(rows', db.children)
      BY <3>2
    <3>3. CASE \E rs : Known(ss) = Known(rs) /\ Matches(rs, db.children)
      <4> HIDE DEF ss
      <4>1. Matches(ss, db.children)
        BY <3>3, MatchesSame
      <4>. QED  BY <4>1 DEF ss
    <3>. QED  BY <2>1, <3>1, <3>2, <3>3 DEF RowsCarried
  <2>. QED  BY <2>1, <2>2 DEF SaveCarried, LiveCarried
<1>. QED  BY <1>1, <1>2, StoreInvNext DEF StoreInv, IdsInv


LEMMA InitStores == Init => StoreInv
<1>1. SUFFICES ASSUME Init PROVE StoreInv
  OBVIOUS
<1> DEFINE n == Cardinality(db.children)
<1>2. /\ lastId = n /\ \A c \in db.children : c.id \in 1..n
      /\ \A c, d \in db.children : c.id = d.id => c = d
  BY <1>1, PageAssumption DEF Init
<1>3. rows = <<>> /\ save = None /\ live = None /\ mode = "display"
  BY <1>1 DEF Init
<1>4. n \in Nat
  BY <1>1, PageAssumption, FS_CardinalityType DEF Init
<1> HIDE DEF n
<1>5. Sorted(rows)
  BY <1>3 DEF Sorted, Live
<1>. QED  BY <1>2, <1>3, <1>4, <1>5 DEF StoreInv, IdsInv, SortInv, MatchInv

(* Steps that leave the rows alone.                                        *)
LEMMA QuietStores ==
    ASSUME StoreInv, UNCHANGED <<rows, moved, db, lastId, mode, save, live, lost, late>>
    PROVE  StoreInv'
<1>1. SaveCarried /\ LiveCarried
  BY DEF SaveCarried, LiveCarried
<1>2. RowsCarried /\ (~moved' => Sorted(rows')) /\ (Offering' => Offering)
  BY DEF RowsCarried, Known, StoreInv, SortInv, Sorted, Live, Struck, Offering
<1>. QED  BY <1>1, <1>2, StoreKept

LEMMA EditStores ==
    ASSUME IInv, StoreInv, Edit
    PROVE  StoreInv'
<1>1. UNCHANGED <<db, lastId, save, live, lost, late>> /\ EditFresh(db.children)
  BY DEF Edit, ShowForm, countVars
<1>2. db.children \in SUBSET Child /\ IsFiniteSet(db.children)
      /\ \A c, d \in db.children : c.id = d.id => c = d
  BY DEF IInv, PageTypeOK, StoreInv, IdsInv
<1>3. PICK list \in Listings(db.children) : rows' = FreshRows(list)
  BY <1>1 DEF EditFresh, Draw
<1> DEFINE rs == FreshRows(list)
<1>4. Matches(rs, db.children) /\ Sorted(rs)
  BY <1>2, FreshStores
<1> HIDE DEF rs
<1>5. RowsCarried /\ Sorted(rows')
  BY <1>3, <1>4 DEF RowsCarried, rs, Matches, Known, Sorted, Live, Struck
<1>6. SaveCarried /\ LiveCarried /\ (Offering' => Offering)
  BY <1>1 DEF SaveCarried, LiveCarried, Offering
<1>. QED  BY <1>1, <1>5, <1>6, StoreKept

LEMMA CancelStores ==
    ASSUME StoreInv, Cancel
    PROVE  StoreInv'
<1>1. UNCHANGED <<db, lastId, save, live, lost, late>> /\ rows' = <<>> /\ mode' = "display"
  BY DEF Cancel, ShowRecord, NoTable, Draw, countVars
<1>2. RowsCarried /\ Sorted(rows')
  BY <1>1 DEF RowsCarried, Sorted, Live
<1>3. SaveCarried /\ LiveCarried /\ (Offering' => Offering)
  BY <1>1 DEF SaveCarried, LiveCarried, Offering
<1>. QED  BY <1>1, <1>2, <1>3, StoreKept

LEMMA EditGridStores ==
    ASSUME IInv, StoreInv, EditGrid
    PROVE  StoreInv'
<1>1. /\ TableInv /\ lines + 1 \in Nat /\ GridStep(lines + 1) /\ mode = "edit"
      /\ UNCHANGED <<db, lastId, mode, save, live, lost, late>>
  BY DEF IInv, PageTypeOK, EditGrid, pageVars
<1>2. Known(rows') = Known(rows) /\ (~moved' => Sorted(rows'))
  BY <1>1, GridStepStores DEF StoreInv, SortInv
<1>3. RowsCarried
  BY <1>1, <1>2 DEF RowsCarried
<1>4. SaveCarried /\ LiveCarried /\ (Offering' => Offering)
  BY <1>1 DEF SaveCarried, LiveCarried, Offering
<1>. QED  BY <1>1, <1>2, <1>3, <1>4, StoreKept

(* Requests.                                                               *)
LEMMA SendStores ==
    ASSUME IInv, StoreInv, Save \/ ChangeLive
    PROVE  StoreInv'
<1>1. /\ UNCHANGED <<rows, moved, db, lastId, mode, lost, late>> /\ mode = "edit"
      /\ live' = live \/ save' = save
  BY DEF Save, ChangeLive, gridVars, countVars
<1>2. RowsCarried /\ (~moved' => Sorted(rows'))
  BY <1>1 DEF RowsCarried, Known, StoreInv, SortInv, Sorted, Live, Struck
<1> DEFINE f == Form
<1>3. f.rows = rows /\ f.moved = moved
  BY DEF Form
<1> HIDE DEF f
<1>4. CASE Save
  <2>1. save' = [form |-> f, status |-> "sent"] /\ save = None /\ live' = live
    BY <1>4 DEF Save, f
  <2>2. save'.form.rows = rows /\ save'.form.moved = moved
    BY <1>3, <2>1
  <2>3. SaveCarried /\ LiveCarried
    BY <1>1, <2>1, <2>2 DEF SaveCarried, LiveCarried
  <2>4. Offering
    BY <2>1 DEF Offering
  <2>. QED  BY <1>1, <1>2, <2>3, <2>4, StoreKept
<1>5. CASE ChangeLive
  <2>1. live' = [form |-> f, status |-> "sent", old |-> FALSE] /\ save' = save
    BY <1>5 DEF ChangeLive, f
  <2>2. live'.form.rows = rows
    BY <1>3, <2>1
  <2>3. SaveCarried /\ LiveCarried /\ (Offering' => Offering)
    BY <1>1, <2>1, <2>2 DEF SaveCarried, LiveCarried, Offering
  <2>. QED  BY <1>1, <1>2, <2>3, StoreKept
<1>. QED  BY <1>4, <1>5

LEMMA RedrawnKeepsMoved ==
    ASSUME NEW form \in Forms
    PROVE  Redrawn(form).moved = form.moved
BY DEF Forms, Redrawn

LEMMA AnswerStores ==
    ASSUME IInv, StoreInv, SaveRefused \/ LiveDrawn
    PROVE  StoreInv'
<1>1. UNCHANGED <<rows, moved, db, lastId, mode, lost, late>> /\ PageTypeOK
  BY DEF SaveRefused, LiveDrawn, gridVars, countVars, IInv
<1>2. RowsCarried /\ (~moved' => Sorted(rows'))
  BY <1>1 DEF RowsCarried, Known, StoreInv, SortInv, Sorted, Live, Struck
<1>3. CASE SaveRefused
  <2>1. /\ save' = [form |-> Redrawn(save.form), status |-> "refused"] /\ live' = live
        /\ save # None /\ save.status = "sent"
    BY <1>3 DEF SaveRefused
  <2>2. save'.form.rows = save.form.rows /\ save'.form.moved = save.form.moved
    <3>1. save.form \in Forms
      BY <2>1, FormRows DEF SaveRequest
    <3>2. Redrawn(save.form).rows = save.form.rows /\ Redrawn(save.form).moved = save.form.moved
      BY <1>1, <3>1, RedrawnIsForm, RedrawnKeepsMoved
    <3>. QED  BY <2>1, <3>2
  <2>3. SaveCarried /\ LiveCarried
    BY <2>1, <2>2 DEF SaveCarried, LiveCarried
  <2>4. Offering
    BY <2>1 DEF Offering
  <2>. QED  BY <1>1, <1>2, <2>3, <2>4, StoreKept
<1>4. CASE LiveDrawn
  <2>1. /\ live' = [live EXCEPT !.status = "drawn", !.form = Redrawn(live.form)]
        /\ save' = save /\ live # None
    BY <1>4 DEF LiveDrawn
  <2>2. live'.form.rows = live.form.rows /\ live'.old = live.old
    <3>1. live.form \in Forms /\ live \in LiveRequest
      BY <2>1, FormRows DEF LiveRequest
    <3>2. Redrawn(live.form).rows = live.form.rows /\ Redrawn(live.form) \in Forms
      BY <1>1, <3>1, RedrawnIsForm
    <3>. QED  BY <2>1, <3>1, <3>2 DEF LiveRequest
  <2>3. SaveCarried /\ LiveCarried /\ (Offering' => Offering)
    BY <2>1, <2>2 DEF SaveCarried, LiveCarried, Offering
  <2>. QED  BY <1>1, <1>2, <2>3, StoreKept
<1>. QED  BY <1>3, <1>4

LEMMA RefusalShownStores ==
    ASSUME IInv, StoreInv, RefusalShown
    PROVE  StoreInv'
<1>1. /\ UNCHANGED <<db, lastId, live, lost, late>> /\ save' = None /\ save # None
      /\ save.status = "refused" /\ save.form.rows \in Seq(Row)
  BY FormRows DEF RefusalShown, countVars
<1>2. Known(rows') = Known(save.form.rows) /\ moved'
  BY <1>1, PlaybackStores DEF RefusalShown, ShowAgain
<1>3. RowsCarried /\ SaveCarried /\ LiveCarried /\ Offering
  BY <1>1, <1>2 DEF RowsCarried, SaveCarried, LiveCarried, Offering
<1>. QED  BY <1>1, <1>2, <1>3, StoreKept

(* The form is gone, and what is still to come is old.                     *)
LEMMA SaveShownStores ==
    ASSUME IInv, StoreInv, SaveShown
    PROVE  StoreInv'
<1>1. /\ UNCHANGED <<db, lastId>> /\ save' = None /\ rows' = <<>> /\ mode' = "display"
      /\ live' = IF live = None THEN None ELSE [live EXCEPT !.old = TRUE]
  BY DEF SaveShown, ShowRecord, NoTable, Draw
<1>2. live' # None => live'.old
  BY <1>1, FormRows DEF LiveRequest
<1>3. Sorted(rows')
  BY <1>1 DEF Sorted, Live
<1>. QED  BY <1>1, <1>2, <1>3, StoreInvNext DEF StoreInv, IdsInv

LEMMA SaveLostStores ==
    ASSUME CountInv, StoreInv, SaveLost
    PROVE  StoreInv'
<1>1. /\ UNCHANGED <<rows, moved, db, lastId, mode, live, late>> /\ save' = None
      /\ lost' = IF save.status = "saved" THEN lost + 1 ELSE lost
      /\ lost \in Nat
  BY DEF SaveLost, gridVars, CountInv
<1>2. SaveCarried /\ LiveCarried
  BY <1>1 DEF SaveCarried, LiveCarried
<1>3. RowsCarried /\ (~moved' => Sorted(rows'))
  BY <1>1 DEF RowsCarried, Known, StoreInv, SortInv, Sorted, Live, Struck
<1>4. lost' = 0 => lost = 0 /\ Offering
  BY <1>1 DEF Offering
<1>. QED  BY <1>1, <1>2, <1>3, <1>4, StoreKept

LEMMA LiveShownStores ==
    ASSUME IInv, CountInv, StoreInv, LiveShown
    PROVE  StoreInv'
<1>1. /\ UNCHANGED <<db, lastId, save, lost>> /\ live' = None /\ live # None
      /\ late' = IF live.old THEN late + 1 ELSE late
      /\ live \in LiveRequest /\ live.form.rows \in Seq(Row) /\ late \in Nat
  BY FormRows DEF LiveShown, CountInv
<1>2. Known(rows') = Known(live.form.rows) /\ moved'
  BY <1>1, PlaybackStores DEF LiveShown, ShowAgain
<1>3. CASE live.old
  <2>1. late' # 0
    BY <1>1, <1>3
  <2>2. save' # None /\ ~save'.form.moved => Sorted(save'.form.rows)
    BY <1>1 DEF StoreInv, SortInv
  <2>. QED  BY <1>1, <1>2, <2>1, <2>2, StoreInvNext DEF StoreInv, IdsInv
<1>4. CASE ~live.old
  <2>1. RowsCarried /\ SaveCarried /\ LiveCarried /\ (Offering' => Offering) /\ UNCHANGED late
    BY <1>1, <1>2, <1>4 DEF RowsCarried, SaveCarried, LiveCarried, Offering
  <2>. QED  BY <1>1, <1>2, <2>1, StoreKept
<1>. QED  BY <1>1, <1>3, <1>4 DEF LiveRequest

-----------------------------------------------------------------------------
(* The server. New children are numbered one after the other.              *)
LEMMA RanksOfRows ==
    ASSUME NEW S, S \subseteq Row, IsFiniteSet(S), \A r, s \in S : r.idx = s.idx => r = s
    PROVE  /\ Cardinality(S) \in Nat
           /\ \A r \in S : RankOf(r, S) \in 1..Cardinality(S)
           /\ \A r, s \in S : RankOf(r, S) = RankOf(s, S) => r = s
<1> DEFINE upto(r) == {x \in S : x.idx <= r.idx}
           n == Cardinality(S)
<1>1. n \in Nat /\ \A r \in S : r.idx \in Nat
  BY FS_CardinalityType DEF Row
<1>2. ASSUME NEW r \in S
      PROVE  /\ IsFiniteSet(upto(r)) /\ Cardinality(upto(r)) \in 1..n
             /\ RankOf(r, S) = Cardinality(upto(r))
  <2>1. upto(r) \in SUBSET S /\ r \in upto(r)
    BY <1>1
  <2>2. IsFiniteSet(upto(r)) /\ Cardinality(upto(r)) <= n /\ Cardinality(upto(r)) \in Nat
    BY <2>1, FS_Subset, FS_CardinalityType
  <2>3. Cardinality(upto(r)) # 0
    BY <2>1, <2>2, FS_EmptySet
  <2>. QED  BY <1>1, <2>2, <2>3 DEF RankOf
<1>3. ASSUME NEW r \in S, NEW s \in S, r.idx < s.idx
      PROVE  RankOf(r, S) # RankOf(s, S)
  <2> DEFINE more == upto(r) \union {s}
  <2>1. more \in SUBSET upto(s) /\ s \notin upto(r)
    <3>1. \A x \in S : x.idx <= r.idx => x.idx <= s.idx
      BY <1>1, <1>3
    <3>2. s.idx <= s.idx /\ ~(s.idx <= r.idx)
      BY <1>1, <1>3
    <3>. QED  BY <3>1, <3>2
  <2>2. Cardinality(more) = Cardinality(upto(r)) + 1
    BY <1>2, <2>1, FS_AddElement
  <2>3. Cardinality(more) <= Cardinality(upto(s))
    BY <1>2, <2>1, FS_Subset
  <2> HIDE DEF upto, more
  <2>. QED  BY <1>2, <2>2, <2>3
<1> HIDE DEF upto
<1>4. ASSUME NEW r \in S, NEW s \in S, RankOf(r, S) = RankOf(s, S)
      PROVE  r = s
  <2>1. ~(r.idx < s.idx) /\ ~(s.idx < r.idx)
    BY <1>3, <1>4
  <2>. QED  BY <1>1, <2>1
<1>. QED  BY <1>1, <1>2, <1>4

(* The rows a save creates something from have different indices.          *)
LEMMA CreatesDiffer ==
    ASSUME NEW posted \in Seq(Row), Distinct(posted)
    PROVE  /\ Creates(posted) \subseteq Row /\ IsFiniteSet(Creates(posted))
           /\ \A r, s \in Range(posted) : r.idx = s.idx => r = s
<1>1. Range(posted) \subseteq Row /\ IsFiniteSet(Range(posted))
  BY RowsFinite
<1>2. Creates(posted) \in SUBSET Range(posted)
  BY DEF Creates
<1>3. \A r, s \in Range(posted) : r.idx = s.idx => r = s
  BY DEF Range, Distinct
<1>. QED  BY <1>1, <1>2, <1>3, FS_Subset

LEMMA CommandsKeepIds ==
    ASSUME NEW children \in SUBSET Child, NEW last \in Nat,
           NEW posted \in Seq(Row), Distinct(posted),
           \A c \in children : c.id <= last,
           \A c, d \in children : c.id = d.id => c = d
    PROVE  LET made == apply_o2m_commands(children, posted, last)
           IN  /\ \A c \in made : c.id <= last + Cardinality(Creates(posted))
               /\ \A c, d \in made : c.id = d.id => c = d
<1> DEFINE made == apply_o2m_commands(children, posted, last)
           written(c) == {row \in Range(posted) : row.id = c.id /\ row.op = "update"}
           removed == {row.id : row \in {r \in Range(posted) : Struck(r)}}
           left == {x \in children : x.id \notin removed}
           keep == [c \in left |->
                      IF written(c) = {} THEN c
                      ELSE LET row == CHOOSE row \in written(c) : TRUE
                           IN  [c EXCEPT !.seq = row.seq, !.val = row.val]]
           T == Creates(posted)
           create == [row \in T |->
                        [id |-> last + RankOf(row, T), seq |-> row.seq,
                         val |-> row.val, line |-> row.line]]
<1>1. made = {keep[c] : c \in left} \union {create[row] : row \in T}
  BY DEF apply_o2m_commands
<1>2. ASSUME NEW c \in left
      PROVE  keep[c].id = c.id /\ c.id <= last /\ c.id \in Nat /\ c \in children
  <2>1. c \in Child /\ c \in children
    OBVIOUS
  <2>2. CASE written(c) = {}
    BY <2>1, <2>2 DEF Child
  <2>3. CASE written(c) # {}
    <3>1. PICK row \in written(c) : keep[c] = [c EXCEPT !.seq = row.seq, !.val = row.val]
      BY <2>3
    <3>. QED  BY <2>1, <3>1 DEF Child
  <2>. QED  BY <2>2, <2>3
<1>3. /\ Cardinality(T) \in Nat
      /\ \A row \in T : RankOf(row, T) \in 1..Cardinality(T)
      /\ \A r, s \in T : RankOf(r, T) = RankOf(s, T) => r = s
  <2>1. T \subseteq Row /\ IsFiniteSet(T) /\ \A r, s \in T : r.idx = s.idx => r = s
    BY CreatesDiffer DEF Creates
  <2> HIDE DEF T
  <2>. QED  BY <2>1, RanksOfRows
<1>4. \A row \in T : create[row].id = last + RankOf(row, T)
  OBVIOUS
<1> HIDE DEF made, keep, create, left, T
<1>5. \A c \in made : c.id <= last + Cardinality(T)
  BY <1>1, <1>2, <1>3, <1>4
<1>6. ASSUME NEW c \in made, NEW d \in made, c.id = d.id
      PROVE  c = d
  <2>1. CASE \E x, y \in left : c = keep[x] /\ d = keep[y]
    BY <1>2, <1>6, <2>1
  <2>2. CASE \E r, s \in T : c = create[r] /\ d = create[s]
    <3>1. PICK r \in T, s \in T : c = create[r] /\ d = create[s]
      BY <2>2
    <3>2. last + RankOf(r, T) = last + RankOf(s, T)
      BY <1>4, <1>6, <3>1
    <3>3. RankOf(r, T) = RankOf(s, T)
      BY <1>3, <3>2
    <3>. QED  BY <1>3, <3>1, <3>3
  <2>3. ASSUME NEW x \in left, NEW r \in T PROVE keep[x].id # create[r].id
    BY <1>2, <1>3, <1>4
  <2>. QED  BY <1>1, <1>6, <2>1, <2>2, <2>3
<1>. QED  BY <1>5, <1>6 DEF made, T

(* What becomes of a row that is not struck out.                           *)
Stored(row, posted, last) ==
    [id |-> IF row.op = "create" THEN last + RankOf(row, Creates(posted)) ELSE row.id,
     seq |-> row.seq, val |-> row.val, line |-> row.line]

LEMMA CommandsAre ==
    ASSUME NEW children \in SUBSET Child, \A c, d \in children : c.id = d.id => c = d,
           NEW posted \in Seq(Row), Distinct(posted), Matches(posted, children), NEW last
    PROVE  apply_o2m_commands(children, posted, last)
             = {Stored(posted[i], posted, last) : i \in Live(posted)}
<1> DEFINE made == apply_o2m_commands(children, posted, last)
           S == Live(posted)
           written(c) == {row \in Range(posted) : row.id = c.id /\ row.op = "update"}
           removed == {row.id : row \in {r \in Range(posted) : Struck(r)}}
           left == {x \in children : x.id \notin removed}
           keep == [c \in left |->
                      IF written(c) = {} THEN c
                      ELSE LET row == CHOOSE row \in written(c) : TRUE
                           IN  [c EXCEPT !.seq = row.seq, !.val = row.val]]
           T == Creates(posted)
           create == [row \in T |->
                        [id |-> last + RankOf(row, T), seq |-> row.seq,
                         val |-> row.val, line |-> row.line]]
           made2 == {Stored(posted[i], posted, last) : i \in S}
<1>1. made = {keep[c] : c \in left} \union {create[row] : row \in T}
  BY DEF apply_o2m_commands
<1>2. \A i \in DOMAIN posted : posted[i] \in Row
  BY LenProperties
<1>3. /\ \A i, k \in DOMAIN posted :
           posted[i].op # "create" /\ posted[k].op # "create" /\ posted[i].id = posted[k].id => i = k
      /\ \A i \in DOMAIN posted : posted[i].op # "create" =>
           \E c \in children : c.id = posted[i].id /\ c.line = posted[i].line
      /\ \A c \in children : \E i \in DOMAIN posted : posted[i].op # "create" /\ posted[i].id = c.id
  <2> DEFINE known(i) == [idx |-> posted[i].idx, id |-> posted[i].id, line |-> posted[i].line]
  <2>1. Known(posted) = {known(i) : i \in {k \in DOMAIN posted : posted[k].op # "create"}}
    BY DEF Known
  <2>2. ASSUME NEW i \in DOMAIN posted, NEW k \in DOMAIN posted,
               posted[i].op # "create", posted[k].op # "create", posted[i].id = posted[k].id
        PROVE  i = k
    <3>1. known(i) \in Known(posted) /\ known(k) \in Known(posted)
      BY <2>1, <2>2
    <3>2. known(i) = known(k)
      <4>1. known(i).id = known(k).id
        BY <2>2
      <4> HIDE DEF known
      <4>. QED  BY <3>1, <4>1 DEF Matches
    <3>3. known(i).idx = known(k).idx
      BY <3>2
    <3>. QED  BY <2>2, <3>3 DEF Distinct
  <2>3. ASSUME NEW i \in DOMAIN posted, posted[i].op # "create"
        PROVE  \E c \in children : c.id = posted[i].id /\ c.line = posted[i].line
    <3>1. known(i) \in Known(posted)
      BY <2>1, <2>3
    <3>2. PICK c \in children : c.id = known(i).id /\ c.line = known(i).line
      BY <3>1 DEF Matches
    <3>. QED  BY <3>2
  <2>4. ASSUME NEW c \in children
        PROVE  \E i \in DOMAIN posted : posted[i].op # "create" /\ posted[i].id = c.id
    <3>1. PICK x \in Known(posted) : x.id = c.id
      BY DEF Matches
    <3>2. PICK i \in DOMAIN posted : posted[i].op # "create" /\ x = known(i)
      BY <2>1, <3>1
    <3>. QED  BY <3>1, <3>2
  <2>. QED  BY <2>2, <2>3, <2>4
(* A row with "update" writes its child, which no other row removes.       *)
<1>4. ASSUME NEW i \in DOMAIN posted, posted[i].op = "update",
             NEW c \in children, c.id = posted[i].id
      PROVE  c \in left /\ keep[c] = Stored(posted[i], posted, last)
  <2> DEFINE row == posted[i]
  <2>1. ASSUME NEW k \in DOMAIN posted, posted[k].id = c.id, posted[k].op # "create"
        PROVE  k = i
    BY <1>3, <1>4, <2>1
  <2>2. c \in left
    <3>1. ASSUME c.id \in removed PROVE FALSE
      <4>1. PICK k \in DOMAIN posted : Struck(posted[k]) /\ posted[k].id = c.id
        BY <3>1 DEF Range
      <4>2. k = i
        BY <2>1, <4>1 DEF Struck
      <4>. QED  BY <1>4, <4>1, <4>2 DEF Struck
    <3>. QED  BY <3>1
  <2>3. written(c) = {row}
    <3>1. row \in written(c)
      BY <1>4 DEF Range
    <3>2. ASSUME NEW r \in written(c) PROVE r = row
      <4>1. PICK k \in DOMAIN posted : r = posted[k] /\ posted[k].id = c.id /\ posted[k].op = "update"
        BY DEF Range
      <4>. QED  BY <2>1, <4>1
    <3>. QED  BY <3>1, <3>2
  <2>4. keep[c] = [c EXCEPT !.seq = row.seq, !.val = row.val]
    BY <2>2, <2>3
  <2>5. c.line = row.line
    <3>1. PICK d \in children : d.id = posted[i].id /\ d.line = posted[i].line
      BY <1>3, <1>4
    <3>. QED  BY <1>4, <3>1
  <2>6. c \in Child /\ row \in Row /\ row.op = "update"
    BY <1>2, <1>4
  <2> HIDE DEF keep, left, row
  <2>7. [c EXCEPT !.seq = row.seq, !.val = row.val]
          = [id |-> row.id, seq |-> row.seq, val |-> row.val, line |-> row.line]
    <3> DEFINE d == [c EXCEPT !.seq = row.seq, !.val = row.val]
               e == [id |-> row.id, seq |-> row.seq, val |-> row.val, line |-> row.line]
    <3>1. row.id \in Nat /\ row.line \in Nat /\ row.seq \in Nat /\ row.val \in Vals
      BY <1>4, <2>6 DEF Child, Row, row
    <3>2. d \in Child /\ d.id = c.id /\ d.seq = row.seq /\ d.val = row.val /\ d.line = c.line
      BY <2>6, <3>1 DEF Child
    <3>3. e \in Child /\ e.id = row.id /\ e.seq = row.seq /\ e.val = row.val /\ e.line = row.line
      BY <3>1 DEF Child
    <3>4. \A x, y \in Child : x.id = y.id /\ x.seq = y.seq /\ x.val = y.val /\ x.line = y.line => x = y
      BY DEF Child
    <3>5. c.id = row.id
      BY <1>4 DEF row
    <3> HIDE DEF d, e
    <3>6. d = e
      BY <2>5, <3>2, <3>3, <3>4, <3>5
    <3>. QED  BY <3>6 DEF d, e
  <2>8. Stored(row, posted, last)
          = [id |-> row.id, seq |-> row.seq, val |-> row.val, line |-> row.line]
    BY <2>6 DEF Stored
  <2>. QED  BY <2>2, <2>4, <2>7, <2>8 DEF row
<1>5. \A i \in DOMAIN posted : posted[i].op = "create" =>
        posted[i] \in T /\ create[posted[i]] = Stored(posted[i], posted, last)
  BY DEF Creates, Range, Stored
<1>6. ASSUME NEW c \in left
      PROVE  keep[c] \in made2
  <2>1. PICK i \in DOMAIN posted : posted[i].op # "create" /\ posted[i].id = c.id
    BY <1>3
  <2>2. posted[i].op # "delete"
    <3>1. ASSUME posted[i].op = "delete" PROVE posted[i].id \in removed
      BY <3>1 DEF Range, Struck
    <3>. QED  BY <2>1, <3>1
  <2>3. posted[i].op = "update"
    BY <1>2, <2>1, <2>2 DEF Row
  <2>4. i \in S
    BY <2>3 DEF Live, Struck
  <2>5. c \in children
    OBVIOUS
  <2> HIDE DEF keep, left
  <2>6. keep[c] = Stored(posted[i], posted, last)
    BY <1>4, <2>1, <2>3, <2>5
  <2>. QED  BY <2>4, <2>6
<1>7. ASSUME NEW row \in T
      PROVE  create[row] \in made2
  <2>1. PICK i \in DOMAIN posted : row = posted[i] /\ posted[i].op = "create"
    BY DEF Creates, Range
  <2>2. i \in S
    BY <2>1 DEF Live, Struck
  <2> HIDE DEF create
  <2>. QED  BY <1>5, <2>1, <2>2
<1>8. ASSUME NEW i \in S
      PROVE  Stored(posted[i], posted, last) \in made
  <2>1. i \in DOMAIN posted /\ posted[i].op # "delete" /\ posted[i] \in Row
    BY <1>2 DEF Live, Struck
  <2>2. CASE posted[i].op = "create"
    <3> HIDE DEF create, made, keep, left, T
    <3>. QED  BY <1>1, <1>5, <2>1, <2>2
  <2>3. CASE posted[i].op = "update"
    <3>1. PICK c \in children : c.id = posted[i].id
      BY <1>3, <2>1, <2>3
    <3> HIDE DEF create, made, keep, left, T
    <3>. QED  BY <1>1, <1>4, <2>1, <2>3, <3>1
  <2>. QED  BY <2>1, <2>2, <2>3 DEF Row
<1> HIDE DEF create, made, keep, left, T, S
<1>9. made \subseteq made2
  BY <1>1, <1>6, <1>7
<1>10. made2 \subseteq made
  BY <1>8
<1>. QED  BY <1>9, <1>10 DEF made, S


LEMMA SaveCommittedStores ==
    ASSUME IInv, StoreInv, SaveCommitted
    PROVE  StoreInv'
<1> DEFINE posted == save.form.rows
           made == apply_o2m_commands(db.children, posted, lastId)
           last2 == lastId + Cardinality(Creates(posted))
<1>1. /\ posted \in Seq(Row) /\ Distinct(posted) /\ save # None /\ save \in SaveRequest
      /\ db.children \in SUBSET Child /\ lastId \in Nat
      /\ \A c \in db.children : c.id <= lastId
      /\ \A c, d \in db.children : c.id = d.id => c = d
  BY FormRows DEF IInv, RequestInv, PageTypeOK, SaveCommitted, StoreInv, IdsInv
<1>2. /\ \A c \in made : c.id <= last2
      /\ \A c, d \in made : c.id = d.id => c = d
  BY <1>1, CommandsKeepIds
<1>3. db'.children = made /\ lastId' = last2 /\ UNCHANGED <<rows, moved>>
  BY DEF SaveCommitted, gridVars
<1>4. /\ save' # None /\ save'.status = "saved"
      /\ save'.form.rows = posted /\ save'.form.moved = save.form.moved
  <2>1. save' = [save EXCEPT !.status = "saved"]
    BY DEF SaveCommitted
  <2>2. save' \in SaveRequest /\ save'.status = "saved" /\ save'.form = save.form
    BY <1>1, <2>1 DEF SaveRequest
  <2>. QED  BY <2>2, PageAssumption
<1> HIDE DEF made, last2
<1>5. ~Offering'
  BY <1>4 DEF Offering
<1>6. ~moved' => Sorted(rows')
  BY <1>3 DEF StoreInv, SortInv, Sorted, Live, Struck
<1>7. save' # None /\ ~save'.form.moved => Sorted(save'.form.rows)
  BY <1>1, <1>4 DEF StoreInv, SortInv
<1>. QED  BY <1>2, <1>3, <1>5, <1>6, <1>7, StoreInvNext

LEMMA NextStores ==
    ASSUME IInv, LinesInv, StoreInv, [Next]_vars
    PROVE  StoreInv'
<1>1. CASE EditPicker \/ EditCode \/ MountCode \/ UNCHANGED vars
  BY <1>1, QuietStores DEF EditPicker, EditCode, MountCode, vars, gridVars, pageVars, countVars
<1>. QED
  BY <1>1, EditStores, CancelStores, EditGridStores, SendStores, AnswerStores,
     SaveCommittedStores, RefusalShownStores, SaveShownStores, SaveLostStores,
     LiveShownStores DEF Next, LinesInv

LEMMA AlwaysStores == Spec => []StoreInv
<1>1. IInv /\ LinesInv /\ StoreInv /\ [Next]_vars => StoreInv'
  BY NextStores
<1>. QED  BY <1>1, InitStores, AlwaysInOrder, AlwaysCounted, PTL DEF Spec
-----------------------------------------------------------------------------
(* There is one order. The place of a child in a listing is the number of  *)
(* children that do not come after it.                                     *)
InOrder(s, S, n) ==
    /\ s \in [1..n -> S]
    /\ \A i, j \in 1..n : i < j => Before(s[i], s[j])
    /\ \A c \in S : \E i \in 1..n : c = s[i]

LEMMA PlaceInOrder ==
    ASSUME NEW S \in SUBSET Child, NEW n \in Nat, NEW s, InOrder(s, S, n), NEW k \in 1..n
    PROVE  Cardinality({c \in S : c = s[k] \/ Before(c, s[k])}) = k
<1> DEFINE D == {c \in S : c = s[k] \/ Before(c, s[k])}
           f == [i \in 1..k |-> s[i]]
<1> USE DEF InOrder
<1>1. \A i \in 1..n : s[i] \in S /\ s[i].seq \in Nat /\ s[i].id \in Nat
  BY DEF Child
<1>2. \A i \in 1..k : i \in 1..n /\ i \in Nat /\ (i = k \/ i < k)
  OBVIOUS
<1>3. ASSUME NEW i \in 1..n, NEW j \in 1..n, i < j
      PROVE  s[i] # s[j] /\ ~Before(s[j], s[i])
  <2>1. Before(s[i], s[j])
    BY <1>3
  <2>2. ASSUME s[i] = s[j] PROVE FALSE
    <3>1. Before(s[i], s[i])
      BY <2>1, <2>2
    <3>. QED  BY <1>1, <3>1 DEF Before
  <2>3. ~Before(s[j], s[i])
    BY <1>1, <2>1 DEF Before
  <2>. QED  BY <2>2, <2>3
<1>4. f \in [1..k -> D]
  BY <1>1, <1>2
<1>5. \A i, j \in 1..k : f[i] = f[j] => i = j
  <2>1. SUFFICES ASSUME NEW i \in 1..k, NEW j \in 1..k, i # j PROVE s[i] # s[j]
    OBVIOUS
  <2>2. i \in 1..n /\ j \in 1..n /\ (i < j \/ j < i)
    BY <1>2, <2>1
  <2>. QED  BY <1>3, <2>2
<1>6. \A c \in D : \E i \in 1..k : f[i] = c
  <2>1. SUFFICES ASSUME NEW c \in D PROVE \E i \in 1..k : s[i] = c
    OBVIOUS
  <2>2. PICK i \in 1..n : c = s[i]
    OBVIOUS
  <2>3. ~(k < i)
    BY <1>3, <2>2
  <2>4. i \in 1..k
    BY <2>3
  <2>. QED  BY <2>2, <2>4
<1> HIDE DEF D, f
<1>7. f \in Bijection(1..k, D)
  BY <1>4, <1>5, <1>6 DEF Bijection, Injection, IsInjective, Surjection
<1>8. ExistsBijection(1..k, D) /\ k \in Nat
  BY <1>7 DEF ExistsBijection
<1>. QED  BY <1>8, FS_CountingElements DEF D

LEMMA OneOrder ==
    ASSUME NEW S \in SUBSET Child, NEW n \in Nat,
           NEW s, InOrder(s, S, n), NEW t, InOrder(t, S, n)
    PROVE  \A k \in 1..n : s[k] = t[k]
<1> DEFINE upto(x) == Cardinality({c \in S : c = x \/ Before(c, x)})
<1>1. \A k \in 1..n : upto(s[k]) = k
  BY PlaceInOrder
<1>2. \A k \in 1..n : upto(t[k]) = k
  BY PlaceInOrder
<1> HIDE DEF upto
<1>3. SUFFICES ASSUME NEW k \in 1..n PROVE s[k] = t[k]
  OBVIOUS
<1>4. PICK m \in 1..n : s[k] = t[m]
  BY DEF InOrder
<1>5. m = k
  BY <1>1, <1>2, <1>4
<1>. QED  BY <1>4, <1>5

(* The children a save leaves are listed in the order of the live rows.    *)
LEMMA StoredIsListed ==
    ASSUME NEW children \in SUBSET Child, IsFiniteSet(children),
           \A c, d \in children : c.id = d.id => c = d,
           NEW posted \in Seq(Row), Distinct(posted), Matches(posted, children),
           Sorted(posted), NEW last \in Nat,
           NEW list \in Listings(apply_o2m_commands(children, posted, last))
    PROVE  [i \in DOMAIN list |-> <<list[i].line, list[i].val>>] = Shown(posted)
<1> DEFINE made == apply_o2m_commands(children, posted, last)
           S == Live(posted)
           m == Cardinality(S)
           t == rowsIn(posted)
           result(row) == Stored(row, posted, last)
           order == [k \in 1..m |-> result(t[k])]
<1>1. /\ made \in SUBSET Child /\ IsFiniteSet(made)
      /\ made = {result(posted[i]) : i \in S}
  <2>1. made \in SUBSET Child /\ IsFiniteSet(made)
    BY CommandsGiveChildren
  <2>2. made = {result(posted[i]) : i \in S}
    BY CommandsAre
  <2>. QED  BY <2>1, <2>2
<1>2. /\ S \subseteq DOMAIN posted /\ S \subseteq Nat /\ m \in Nat
      /\ t \in Seq(Row) /\ Len(t) = m
      /\ \A i \in S : Rank(S, i) \in 1..m /\ t[Rank(S, i)] = posted[i]
      /\ \A i, j \in S : i < j => Rank(S, i) < Rank(S, j)
      /\ \A k \in 1..m : \E i \in S : Rank(S, i) = k /\ t[k] = posted[i]
  BY RowsInAre
<1>3. DOMAIN t = 1..m
  BY <1>2, LenProperties
<1>4. ASSUME NEW i \in S, NEW j \in S, i < j
      PROVE  Before(result(posted[i]), result(posted[j]))
  <2>1. \/ posted[i].seq < posted[j].seq
        \/ /\ posted[i].seq = posted[j].seq /\ posted[i].id < posted[j].id
           /\ posted[i].op = "update" /\ posted[j].op = "update"
    BY <1>4 DEF Sorted
  <2>. QED  BY <2>1 DEF Before, Stored
<1>5. \A row : result(row).line = row.line /\ result(row).val = row.val
  BY DEF Stored
<1> HIDE DEF made, S, m, t, result
<1>6. order \in [1..m -> made]
  BY <1>1, <1>2
<1>7. \A k, l \in 1..m : k < l => Before(order[k], order[l])
  <2>1. SUFFICES ASSUME NEW k \in 1..m, NEW l \in 1..m, k < l
                 PROVE  Before(result(t[k]), result(t[l]))
    OBVIOUS
  <2>2. PICK i \in S, j \in S : /\ Rank(S, i) = k /\ t[k] = posted[i]
                                /\ Rank(S, j) = l /\ t[l] = posted[j]
    BY <1>2
  <2>3. i < j
    <3>1. i \in Nat /\ j \in Nat /\ k \in Nat /\ l \in Nat
      BY <1>2
    <3>2. i # j /\ ~(j < i)
      BY <1>2, <2>1, <2>2, <3>1
    <3>. QED  BY <3>1, <3>2
  <2>. QED  BY <1>4, <2>2, <2>3
<1>8. \A c \in made : \E k \in 1..m : c = order[k]
  BY <1>1, <1>2
<1>9. Cardinality(made) = m
  <2>1. \A k, l \in 1..m : order[k] = order[l] => k = l
    <3>1. SUFFICES ASSUME NEW k \in 1..m, NEW l \in 1..m, k < l PROVE order[k] # order[l]
      BY <1>2
    <3>2. Before(order[k], order[l]) /\ order[k].seq \in Nat /\ order[k].id \in Nat
      BY <1>1, <1>6, <1>7, <3>1 DEF Child
    <3> HIDE DEF order
    <3>3. ASSUME order[k] = order[l] PROVE FALSE
      <4>1. Before(order[k], order[k])
        BY <3>2, <3>3
      <4>. QED  BY <3>2, <4>1 DEF Before
    <3>. QED  BY <3>3
  <2> HIDE DEF order
  <2>2. order \in Bijection(1..m, made)
    BY <1>6, <1>8, <2>1 DEF Bijection, Injection, IsInjective, Surjection
  <2>3. ExistsBijection(1..m, made)
    BY <2>2 DEF ExistsBijection
  <2>. QED  BY <1>2, <2>3, FS_CountingElements
<1>10. /\ list \in [1..m -> made]
       /\ \A i, j \in 1..m : i < j => Before(list[i], list[j])
       /\ \A c \in made : \E i \in 1..m : c = list[i]
  <2>1. list \in Listings(made)
    BY DEF made
  <2>2. made \in SUBSET Child /\ IsFiniteSet(made)
    BY <1>1
  <2>3. LET n == Cardinality(made)
        IN  /\ list \in [1..n -> made]
            /\ \A i, j \in 1..n : i < j => Before(list[i], list[j])
            /\ \A c \in made : \E i \in 1..n : c = list[i]
    BY <2>1, <2>2, ListingIs
  <2>. QED  BY <1>9, <2>3
<1>11. \A k \in 1..m : list[k] = order[k]
  <2> HIDE DEF order
  <2>1. made \in SUBSET Child /\ m \in Nat
    BY <1>1, <1>2
  <2>2. InOrder(order, made, m)
    BY <1>6, <1>7, <1>8 DEF InOrder
  <2>3. InOrder(list, made, m)
    BY <1>10 DEF InOrder
  <2>. QED  BY <2>1, <2>2, <2>3, OneOrder
<1>12. \A k \in 1..m : list[k].line = t[k].line /\ list[k].val = t[k].val
  BY <1>5, <1>11
<1>13. DOMAIN list = 1..m
  BY <1>10
<1> HIDE DEF order
<1>14. [i \in DOMAIN list |-> <<list[i].line, list[i].val>>] = [i \in 1..m |-> <<t[i].line, t[i].val>>]
  BY <1>12, <1>13
<1>. QED  BY <1>3, <1>14 DEF Shown, t

(* However many lines are added, deleted, edited and dragged about: a save *)
(* stores the lines in the order and with the cells that were on the       *)
(* screen, except for rows moved without a drop or drawn again, and for a  *)
(* form that an answer lost or late made outdated.                         *)
THEOREM StoredIsAlwaysShown == Spec => StoredAsShown
<1> DEFINE Told == \A list \in Listings(db'.children) :
                     [i \in DOMAIN list |-> <<list[i].line, list[i].val>>] = Shown(save.form.rows)
<1>1. ASSUME IInv, StoreInv, SaveCommitted, ~save.form.moved, lost = 0, late = 0
      PROVE  Told
  <2> DEFINE posted == save.form.rows
             made == apply_o2m_commands(db.children, posted, lastId)
  <2>1. /\ posted \in Seq(Row) /\ Distinct(posted) /\ save # None /\ save.status = "sent"
        /\ db.children \in SUBSET Child /\ IsFiniteSet(db.children) /\ lastId \in Nat
        /\ \A c, d \in db.children : c.id = d.id => c = d
    BY <1>1, FormRows DEF IInv, RequestInv, PageTypeOK, SaveCommitted, StoreInv, IdsInv
  <2>2. Sorted(posted) /\ Matches(posted, db.children)
    BY <1>1, <2>1 DEF StoreInv, SortInv, MatchInv, Offering
  <2>3. db'.children = made
    BY <1>1 DEF SaveCommitted
  <2> HIDE DEF posted
  <2>4. \A list \in Listings(made) :
          [i \in DOMAIN list |-> <<list[i].line, list[i].val>>] = Shown(posted)
    BY <2>1, <2>2, StoredIsListed
  <2> HIDE DEF made
  <2>. QED  BY <2>3, <2>4 DEF posted
<1>2. IInv /\ StoreInv => [SaveCommitted /\ ~save.form.moved /\ lost = 0 /\ late = 0 => Told]_vars
  BY <1>1
<1>. QED  BY <1>2, AlwaysInOrder, AlwaysStores, PTL DEF StoredAsShown

=============================================================================
