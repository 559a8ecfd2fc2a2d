----------------------- MODULE ComputePropagationProofs -----------------------
(***************************************************************************)
(* Proofs about ComputePropagation, for any schema without cycles, any     *)
(* rows and values and any number of operations of one session: the order  *)
(* in which create() computes, the cache as a mirror of the rows, and the  *)
(* types of what is computed and queued.                                   *)
(***************************************************************************)
EXTENDS ComputePropagation, FiniteSetTheorems, SequenceTheorems, WellFoundedInduction, TLAPS

(* A view has a column, a cell and a tuple for everything.                 *)
Viewing(rows, cells, tuples) == [row : {rows}, cache : {cells}, kids : {tuples}]
ViewOK(v) ==
    /\ v \in Viewing(v.row, v.cache, v.kids)
    /\ v.row = [r \in Recs |-> [f \in Columns |-> v.row[r][f]]]
    /\ v.cache = [r \in Recs |-> [f \in Fields |-> v.cache[r][f]]]
    /\ v.kids = [r \in Recs |-> v.kids[r]]

(* The cache of a view holds what its rows hold, in rows that do not exist *)
(* too: their number may be given to a new row.                            *)
Mirrors(v) ==
    /\ ViewOK(v)
    /\ \A r \in Recs :
         /\ \A f \in Columns : v.cache[r][f] \in {Absent, v.row[r][f]}
         /\ v.kids[r] \in {Absent, ChildrenOf(v.row, r)}

(* A row that does not exist is nobody's child.                            *)
RowsInv == alive \subseteq Recs /\ \A r \in Recs \ alive : row[r][Link] = None
MirrorInv ==
    /\ RowsInv
    /\ cache = [s \in Sessions |-> cache[s]] /\ kids = [s \in Sessions |-> kids[s]]
    /\ \A s \in Sessions : Mirrors(ViewOf(s))
-----------------------------------------------------------------------------
(* Views.                                                                  *)

LEMMA Schema == Link \in Columns /\ Columns \subseteq Fields /\ None \notin Recs
BY GraphAssumption DEF Columns, Fields

(* What a view is made of.                                                 *)
LEMMA ViewParts ==
    ASSUME NEW rows, NEW cells, NEW tuples, NEW v \in Viewing(rows, cells, tuples)
    PROVE  /\ v.row = rows /\ v.cache = cells /\ v.kids = tuples
           /\ v \in Viewing(v.row, v.cache, v.kids)
BY DEF Viewing

(* A view through which one reads what the rows hold.                      *)
LEMMA ReadsRows ==
    ASSUME NEW v, Mirrors(v), NEW r \in Recs
    PROVE  LinkIn(v, r) = v.row[r][Link] /\ KidsIn(v, r) = ChildrenOf(v.row, r)
BY Schema DEF Mirrors, LinkIn, KidsIn

(* Loading cells fills them with what the rows hold.                       *)
LEMMA LoadMirrors ==
    ASSUME NEW v, Mirrors(v), NEW cells
    PROVE  Mirrors(Load(v, cells)) /\ Load(v, cells).row = v.row
<1> DEFINE val == Value(v)
           filled == [r \in Recs |-> [f \in Fields |->
              IF <<r, f>> \in cells /\ v.cache[r][f] = Absent
              THEN IF f \in Columns THEN v.row[r][f] ELSE val[f][r]
              ELSE v.cache[r][f]]]
           tuples == [r \in Recs |-> IF <<r>> \in cells THEN KidsIn(v, r) ELSE v.kids[r]]
           w == Load(v, cells)
<1>1. w = [v EXCEPT !.cache = filled, !.kids = tuples]
  BY DEF Load
<1> HIDE DEF val
<1>2. /\ \A r \in Recs : \A f \in Columns : filled[r][f] \in {Absent, v.row[r][f]}
      /\ \A r \in Recs : tuples[r] \in {Absent, ChildrenOf(v.row, r)}
  <2>1. \A r \in Recs : \A f \in Columns : filled[r][f] \in {Absent, v.row[r][f]}
    BY Schema DEF Mirrors
  <2>2. \A r \in Recs : tuples[r] \in {Absent, ChildrenOf(v.row, r)}
    BY ReadsRows DEF Mirrors
  <2>. QED  BY <2>1, <2>2
<1>3. /\ filled = [r \in Recs |-> [f \in Fields |-> filled[r][f]]]
      /\ tuples = [r \in Recs |-> tuples[r]]
  OBVIOUS
<1> HIDE DEF filled, tuples, w
<1>4. w \in Viewing(v.row, filled, tuples)
  BY <1>1 DEF Mirrors, ViewOK, Viewing
<1>5. w.row = v.row /\ w.cache = filled /\ w.kids = tuples /\ w \in Viewing(w.row, w.cache, w.kids)
  BY <1>4, ViewParts
<1>6. ViewOK(w)
  BY <1>3, <1>5 DEF Mirrors, ViewOK
<1>. QED  BY <1>2, <1>5, <1>6 DEF Mirrors, w

(* Recomputing a field other than Link writes cells and columns alike.     *)
LEMMA ComputeMirrors ==
    ASSUME NEW v, Mirrors(v), NEW f, f # Link, NEW ids
    PROVE  /\ Mirrors(ComputeField(v, f, ids))
           /\ \A r \in Recs : ComputeField(v, f, ids).row[r][Link] = v.row[r][Link]
<1> DEFINE w == Load(v, UNION {MethodLoads(v, f, r) : r \in ids})
           new == [r \in ids |-> Result(v, f, r)]
           cells == [r \in Recs |-> IF r \in ids THEN [w.cache[r] EXCEPT ![f] = new[r]]
                                                 ELSE w.cache[r]]
           rows == [r \in Recs |-> IF r \in ids THEN [w.row[r] EXCEPT ![f] = new[r]]
                                                ELSE w.row[r]]
           x == ComputeField(v, f, ids)
<1>1. x = [w EXCEPT !.cache = cells, !.row = rows]
  BY DEF ComputeField
<1>2. Mirrors(w) /\ w.row = v.row
  BY LoadMirrors
<1> HIDE DEF w, new
<1>3. /\ rows = [r \in Recs |-> [g \in Columns |-> rows[r][g]]]
      /\ cells = [r \in Recs |-> [g \in Fields |-> cells[r][g]]]
  <2>1. ASSUME NEW r \in Recs
        PROVE  rows[r] = [g \in Columns |-> rows[r][g]] /\ cells[r] = [g \in Fields |-> cells[r][g]]
    <3>1. /\ w.row[r] = [g \in Columns |-> w.row[r][g]]
          /\ w.cache[r] = [g \in Fields |-> w.cache[r][g]]
      BY <1>2 DEF Mirrors, ViewOK
    <3>. QED  BY <3>1
  <2>2. rows = [r \in Recs |-> rows[r]] /\ cells = [r \in Recs |-> cells[r]]
    OBVIOUS
  <2> HIDE DEF rows, cells
  <2>. QED  BY <2>1, <2>2
<1>4. \A r \in Recs : /\ rows[r][Link] = w.row[r][Link]
                      /\ \A g \in Columns : cells[r][g] \in {Absent, rows[r][g]}
  <2>1. SUFFICES ASSUME NEW r \in Recs
                 PROVE  /\ rows[r][Link] = w.row[r][Link]
                        /\ \A g \in Columns : cells[r][g] \in {Absent, rows[r][g]}
    OBVIOUS
  <2>2. /\ w.row[r] = [g \in Columns |-> w.row[r][g]]
        /\ w.cache[r] = [g \in Fields |-> w.cache[r][g]]
        /\ \A g \in Columns : w.cache[r][g] \in {Absent, w.row[r][g]}
    BY <1>2 DEF Mirrors, ViewOK
  <2>. QED  BY <2>2, Schema
<1> HIDE DEF rows, cells, x
<1>5. x \in Viewing(rows, cells, w.kids)
  BY <1>1, <1>2 DEF Mirrors, ViewOK, Viewing
<1>6. x.row = rows /\ x.cache = cells /\ x.kids = w.kids /\ x \in Viewing(x.row, x.cache, x.kids)
  BY <1>5, ViewParts
<1>7. ViewOK(x)
  BY <1>2, <1>3, <1>6 DEF Mirrors, ViewOK
<1>8. \A r \in Recs : x.kids[r] \in {Absent, ChildrenOf(x.row, r)}
  BY <1>2, <1>4, <1>6 DEF Mirrors, ChildrenOf
<1>. QED  BY <1>2, <1>4, <1>6, <1>7, <1>8 DEF Mirrors, x

(* Forgetting forgets.                                                     *)
LEMMA ForgetGives ==
    ASSUME NEW v, ViewOK(v), NEW ids, NEW fs
    PROVE  LET w == Forget(v, ids, fs)
           IN  /\ ViewOK(w) /\ w.row = v.row /\ w.kids = v.kids
               /\ \A r \in Recs, f \in Fields :
                    w.cache[r][f] = IF r \in ids /\ f \in fs THEN Absent ELSE v.cache[r][f]
<1> DEFINE cells == [r \in Recs |-> [f \in Fields |->
                       IF r \in ids /\ f \in fs THEN Absent ELSE v.cache[r][f]]]
           w == Forget(v, ids, fs)
<1>1. w = [v EXCEPT !.cache = cells] /\ cells = [r \in Recs |-> [f \in Fields |-> cells[r][f]]]
  BY DEF Forget
<1>2. \A r \in Recs, f \in Fields :
        cells[r][f] = IF r \in ids /\ f \in fs THEN Absent ELSE v.cache[r][f]
  OBVIOUS
<1> HIDE DEF cells, w
<1>3. w \in Viewing(v.row, cells, v.kids)
  BY <1>1 DEF ViewOK, Viewing
<1>4. w.row = v.row /\ w.cache = cells /\ w.kids = v.kids /\ w \in Viewing(w.row, w.cache, w.kids)
  BY <1>3, ViewParts
<1>. QED  BY <1>1, <1>2, <1>4 DEF ViewOK, w

LEMMA ForgetKidsGives ==
    ASSUME NEW v, ViewOK(v), NEW ids
    PROVE  LET w == ForgetKids(v, ids)
           IN  /\ ViewOK(w) /\ w.row = v.row /\ w.cache = v.cache
               /\ \A r \in Recs : w.kids[r] = IF r \in ids THEN Absent ELSE v.kids[r]
<1> DEFINE tuples == [r \in Recs |-> IF r \in ids THEN Absent ELSE v.kids[r]]
           w == ForgetKids(v, ids)
<1>1. w = [v EXCEPT !.kids = tuples] /\ tuples = [r \in Recs |-> tuples[r]]
  BY DEF ForgetKids
<1>2. \A r \in Recs : tuples[r] = IF r \in ids THEN Absent ELSE v.kids[r]
  OBVIOUS
<1> HIDE DEF tuples, w
<1>3. w \in Viewing(v.row, v.cache, tuples)
  BY <1>1 DEF ViewOK, Viewing
<1>4. w.row = v.row /\ w.cache = v.cache /\ w.kids = tuples /\ w \in Viewing(w.row, w.cache, w.kids)
  BY <1>3, ViewParts
<1>. QED  BY <1>1, <1>2, <1>4 DEF ViewOK, w

(* So does forgetting, and it never spoils a mirror.                       *)
LEMMA ForgetMirrors ==
    ASSUME NEW v, Mirrors(v), NEW ids, NEW fs
    PROVE  /\ Mirrors(Forget(v, ids, fs)) /\ Forget(v, ids, fs).row = v.row
           /\ Mirrors(ForgetKids(v, ids)) /\ ForgetKids(v, ids).row = v.row
<1> DEFINE w == Forget(v, ids, fs)
           x == ForgetKids(v, ids)
<1>1. ViewOK(v)
  BY DEF Mirrors
<1>2. /\ ViewOK(w) /\ w.row = v.row /\ w.kids = v.kids
      /\ \A r \in Recs, f \in Fields :
           w.cache[r][f] = IF r \in ids /\ f \in fs THEN Absent ELSE v.cache[r][f]
  BY <1>1, ForgetGives
<1>3. /\ ViewOK(x) /\ x.row = v.row /\ x.cache = v.cache
      /\ \A r \in Recs : x.kids[r] = IF r \in ids THEN Absent ELSE v.kids[r]
  BY <1>1, ForgetKidsGives
<1> HIDE DEF w, x
<1>4. Mirrors(w)
  BY <1>2, Schema DEF Mirrors
<1>5. Mirrors(x)
  BY <1>3 DEF Mirrors
<1>. QED  BY <1>2, <1>3, <1>4, <1>5 DEF w, x

(* Assigning values writes them in the cells and the columns of the ids.   *)
LEMMA AssignGives ==
    ASSUME NEW v, ViewOK(v), NEW ids, NEW vals
    PROVE  LET w == Assign(v, ids, vals)
           IN  /\ ViewOK(w) /\ w.kids = v.kids
               /\ \A r \in Recs : \A f \in Columns :
                    w.row[r][f] = IF r \in ids /\ f \in DOMAIN vals THEN vals[f] ELSE v.row[r][f]
               /\ \A r \in Recs : \A f \in Fields :
                    w.cache[r][f] = IF r \in ids /\ f \in DOMAIN vals THEN vals[f]
                                    ELSE v.cache[r][f]
<1> DEFINE put(x) == [f \in DOMAIN x |-> IF f \in DOMAIN vals THEN vals[f] ELSE x[f]]
           rows == [r \in Recs |-> IF r \in ids THEN put(v.row[r]) ELSE v.row[r]]
           cells == [r \in Recs |-> IF r \in ids THEN put(v.cache[r]) ELSE v.cache[r]]
           w == Assign(v, ids, vals)
<1>1. w = [v EXCEPT !.row = rows, !.cache = cells]
  BY DEF Assign
<1>2. ASSUME NEW r \in Recs
      PROVE  /\ DOMAIN v.row[r] = Columns /\ DOMAIN v.cache[r] = Fields
             /\ v.row[r] = [f \in Columns |-> v.row[r][f]]
             /\ v.cache[r] = [f \in Fields |-> v.cache[r][f]]
  BY DEF ViewOK
<1>3. ASSUME NEW r \in Recs
      PROVE  /\ rows[r] = [f \in Columns |-> rows[r][f]]
             /\ cells[r] = [f \in Fields |-> cells[r][f]]
             /\ \A f \in Columns :
                  rows[r][f] = IF r \in ids /\ f \in DOMAIN vals THEN vals[f] ELSE v.row[r][f]
             /\ \A f \in Fields :
                  cells[r][f] = IF r \in ids /\ f \in DOMAIN vals THEN vals[f] ELSE v.cache[r][f]
  BY <1>2
<1>4. rows = [r \in Recs |-> rows[r]] /\ cells = [r \in Recs |-> cells[r]]
  OBVIOUS
<1> HIDE DEF rows, cells, w
<1>5. w \in Viewing(rows, cells, v.kids)
  BY <1>1 DEF ViewOK, Viewing
<1>6. w.row = rows /\ w.cache = cells /\ w.kids = v.kids /\ w \in Viewing(w.row, w.cache, w.kids)
  BY <1>5, ViewParts
<1>7. ViewOK(w)
  BY <1>3, <1>4, <1>6 DEF ViewOK
<1>. QED  BY <1>3, <1>6, <1>7 DEF w

-----------------------------------------------------------------------------
(* Folds. A set that has 0 and with each number the next has all numbers.  *)
LEMMA NatSet ==
    ASSUME NEW T, 0 \in T, \A k \in Nat : k \in T => k + 1 \in T
    PROVE  Nat \subseteq T
<1> DEFINE bad == Nat \ T
           R == OpToRel(<, Nat)
<1>1. SUFFICES ASSUME bad # {} PROVE FALSE
  OBVIOUS
<1>2. IsWellFoundedOn(R, Nat)
  BY NatLessThanWellFounded
<1> HIDE DEF R
<1>3. PICK x \in bad : \A y \in bad : ~(<<y, x>> \in R)
  <2> HIDE DEF bad
  <2>1. bad \subseteq Nat
    BY DEF bad
  <2>. QED  BY <1>1, <1>2, <2>1, WFMin
<1>4. x \in Nat /\ x # 0 /\ x - 1 \in Nat /\ x - 1 < x
  OBVIOUS
<1>5. <<x - 1, x>> \in R
  BY <1>4 DEF R, OpToRel
<1>6. x - 1 \in T
  BY <1>3, <1>4, <1>5
<1>7. x - 1 + 1 = x
  BY <1>4
<1>. QED  BY <1>4, <1>6, <1>7

(* The computes of create(), one after the other.                          *)
ComputeAll(v, q, r) == FoldLeft(LAMBDA acc, f : ComputeField(acc, f, {r}), v, q)

(* The fold over q, as a function of the set of positions it has done.     *)
Body(g, v, q, r, s) ==
    IF s = {} THEN v ELSE ComputeField(g[s \ {Max(s)}], q[Max(s)], {r})
Folding(v, q, r) ==
    CHOOSE g : g = [s \in SUBSET DOMAIN q |-> Body(g, v, q, r, s)]

LEMMA MaxOfFirst ==
    ASSUME NEW k \in Nat, k # 0
    PROVE  Max(1..k) = k /\ (1..k) \ {k} = 1..(k - 1)
<1>1. k \in 1..k /\ \A y \in 1..k : k >= y
  OBVIOUS
<1>2. \A x \in 1..k : (\A y \in 1..k : x >= y) => x = k
  BY <1>1
<1>3. Max(1..k) = k
  BY <1>1, <1>2 DEF Max
<1>. QED  BY <1>3

LEMMA MaxIsIn ==
    ASSUME NEW n \in Nat, NEW s \in SUBSET (1..n), s # {}
    PROVE  Max(s) \in s
<1>1. \E x \in s : \A y \in s : x >= y
  <2> DEFINE T == {k \in Nat : \A t \in SUBSET (1..k) : t # {} => \E x \in t : \A y \in t : x >= y}
  <2>1. 0 \in T
    <3>1. 1..0 = {}
      OBVIOUS
    <3>2. \A t \in SUBSET (1..0) : t = {}
      BY <3>1
    <3>. QED  BY <3>2
  <2>2. ASSUME NEW k \in Nat, k \in T
        PROVE  k + 1 \in T
    <3>1. SUFFICES ASSUME NEW t \in SUBSET (1..(k + 1)), t # {}
                   PROVE  \E x \in t : \A y \in t : x >= y
      OBVIOUS
    <3>2. CASE k + 1 \in t
      BY <3>1, <3>2
    <3>3. CASE k + 1 \notin t
      <4>1. t \in SUBSET (1..k)
        BY <3>1, <3>3
      <4>. QED  BY <2>2, <3>1, <4>1
    <3>. QED  BY <3>2, <3>3
  <2> HIDE DEF T
  <2>3. n \in T
    BY <2>1, <2>2, NatSet
  <2>. QED  BY <2>3 DEF T
<1>. QED  BY <1>1 DEF Max

(* The fold exists: it is built for sets of ever more positions.           *)
LEMMA FoldingIs ==
    ASSUME NEW S, NEW q \in Seq(S), NEW v, NEW r
    PROVE  \A s \in SUBSET DOMAIN q : Folding(v, q, r)[s] = Body(Folding(v, q, r), v, q, r, s)
<1> DEFINE n == Len(q)
           D == SUBSET (1..n)
           Right(g, m) == \A s \in D : Cardinality(s) <= m => g[s] = Body(g, v, q, r, s)
           T == {m \in Nat : \E g : g = [s \in D |-> g[s]] /\ Right(g, m)}
<1>1. n \in Nat /\ DOMAIN q = 1..n
  BY LenProperties
<1>2. IsFiniteSet(1..n) /\ Cardinality(1..n) = n
  BY <1>1, FS_Interval
<1>3. \A s \in D : IsFiniteSet(s) /\ Cardinality(s) \in Nat /\ Cardinality(s) <= n
  BY <1>2, FS_Subset, FS_CardinalityType
<1>4. ASSUME NEW s \in D, s # {}
      PROVE  s \ {Max(s)} \in D /\ Cardinality(s \ {Max(s)}) = Cardinality(s) - 1
  <2>1. Max(s) \in s
    BY <1>1, <1>4, MaxIsIn
  <2>. QED  BY <1>3, <2>1, FS_RemoveElement
<1>5. \A s \in D : Cardinality(s) = 0 => s = {}
  BY <1>3, FS_EmptySet
<1>6. 0 \in T
  <2> DEFINE g == [s \in D |-> v]
  <2>1. Right(g, 0)
    BY <1>3, <1>5 DEF Body
  <2>2. g = [s \in D |-> g[s]]
    OBVIOUS
  <2> HIDE DEF g
  <2>. QED  BY <2>1, <2>2
<1>7. ASSUME NEW m \in Nat, m \in T
      PROVE  m + 1 \in T
  <2>1. PICK g : Right(g, m)
    BY <1>7
  <2> DEFINE h == [s \in D |-> IF Cardinality(s) <= m THEN g[s] ELSE Body(g, v, q, r, s)]
  <2>2. ASSUME NEW s \in D, Cardinality(s) <= m + 1
        PROVE  h[s] = Body(h, v, q, r, s)
    <3>1. h[s] = Body(g, v, q, r, s)
      BY <2>1
    <3>2. CASE s = {}
      BY <3>1, <3>2 DEF Body
    <3>3. CASE s # {}
      <4>1. /\ s \ {Max(s)} \in D /\ Cardinality(s \ {Max(s)}) = Cardinality(s) - 1
            /\ Cardinality(s) \in Nat
        BY <1>3, <1>4, <3>3
      <4>2. Cardinality(s \ {Max(s)}) <= m
        BY <4>1, <2>2, <1>7
      <4>3. h[s \ {Max(s)}] = g[s \ {Max(s)}]
        BY <4>1, <4>2
      <4> HIDE DEF h
      <4>. QED  BY <3>1, <3>3, <4>3 DEF Body
    <3>. QED  BY <3>2, <3>3
  <2>3. h = [s \in D |-> h[s]]
    OBVIOUS
  <2> HIDE DEF h
  <2>4. Right(h, m + 1)
    BY <2>2
  <2> HIDE DEF Right
  <2>. QED  BY <1>7, <2>3, <2>4
<1>8. n \in T
  <2> HIDE DEF T
  <2>. QED  BY <1>1, <1>6, <1>7, NatSet
<1>9. PICK g : g = [s \in D |-> g[s]] /\ Right(g, n)
  BY <1>8
<1>10. g = [s \in D |-> Body(g, v, q, r, s)]
  <2>1. \A s \in D : g[s] = Body(g, v, q, r, s)
    BY <1>3, <1>9
  <2>. QED  BY <1>9, <2>1
<1>11. \E f : f = [s \in SUBSET DOMAIN q |-> Body(f, v, q, r, s)]
  BY <1>1, <1>10
<1>12. Folding(v, q, r) = [s \in SUBSET DOMAIN q |-> Body(Folding(v, q, r), v, q, r, s)]
  BY <1>11 DEF Folding
<1>. QED  BY <1>12

LEMMA ComputeAllIsFolding ==
    ASSUME NEW v, NEW q, NEW r
    PROVE  ComputeAll(v, q, r) = Folding(v, q, r)[DOMAIN q]
BY DEF ComputeAll, FoldLeft, MapThenFoldSet, Folding, Body

(* Computing the stored fields of a row one after the other keeps the      *)
(* mirror and the links.                                                   *)
LEMMA ComputeAllMirrors ==
    ASSUME NEW q \in Seq(Stored), NEW v, Mirrors(v), NEW r
    PROVE  /\ Mirrors(ComputeAll(v, q, r))
           /\ \A x \in Recs : ComputeAll(v, q, r).row[x][Link] = v.row[x][Link]
<1> DEFINE g == Folding(v, q, r)
           Right(w) == Mirrors(w) /\ \A x \in Recs : w.row[x][Link] = v.row[x][Link]
           T == {k \in Nat : k <= Len(q) => Right(g[1..k])}
<1>1. /\ Len(q) \in Nat /\ DOMAIN q = 1..Len(q)
      /\ \A k \in 1..Len(q) : q[k] \in Stored
  BY LenProperties, ElementOfSeq
<1>2. \A f \in Stored : f # Link
  BY GraphAssumption DEF Computes
<1>3. \A s \in SUBSET DOMAIN q : g[s] = Body(g, v, q, r, s)
  BY FoldingIs
<1> HIDE DEF g
<1>4. 0 \in T
  <2>1. 1..0 = {} /\ 1..0 \in SUBSET DOMAIN q
    OBVIOUS
  <2>2. g[1..0] = v
    BY <1>3, <2>1 DEF Body
  <2>. QED  BY <2>2
<1>5. ASSUME NEW k \in Nat, k \in T
      PROVE  k + 1 \in T
  <2>1. SUFFICES ASSUME k + 1 <= Len(q)
                 PROVE  Right(g[1..(k + 1)])
    OBVIOUS
  <2>2. Right(g[1..k])
    BY <1>1, <1>5, <2>1
  <2>3. k + 1 \in Nat /\ k + 1 # 0 /\ k + 1 \in 1..(k + 1) /\ 1..(k + 1) \subseteq 1..Len(q)
    BY <1>1, <2>1
  <2>4. Max(1..(k + 1)) = k + 1 /\ (1..(k + 1)) \ {k + 1} = 1..k
    BY <2>3, MaxOfFirst
  <2>5. g[1..(k + 1)] = ComputeField(g[1..k], q[k + 1], {r})
    <3>1. 1..(k + 1) \in SUBSET DOMAIN q /\ 1..(k + 1) # {}
      BY <1>1, <2>3
    <3>. QED  BY <1>3, <2>4, <3>1 DEF Body
  <2>6. q[k + 1] # Link
    BY <1>1, <1>2, <2>1, <2>3
  <2>7. /\ Mirrors(g[1..(k + 1)])
        /\ \A x \in Recs : g[1..(k + 1)].row[x][Link] = g[1..k].row[x][Link]
    <3> DEFINE w == g[1..k]
               f == q[k + 1]
    <3>1. Mirrors(w) /\ f # Link
      BY <2>2, <2>6
    <3> HIDE DEF w, f
    <3>2. /\ Mirrors(ComputeField(w, f, {r}))
          /\ \A x \in Recs : ComputeField(w, f, {r}).row[x][Link] = w.row[x][Link]
      BY <3>1, ComputeMirrors
    <3>. QED  BY <2>5, <3>2 DEF w, f
  <2>. QED  BY <2>2, <2>7
<1>6. Len(q) \in T
  <2> HIDE DEF T
  <2>. QED  BY <1>1, <1>4, <1>5, NatSet
<1>7. Right(g[DOMAIN q])
  BY <1>1, <1>6
<1>. QED  BY <1>7, ComputeAllIsFolding DEF g
-----------------------------------------------------------------------------
(* g goes from `start` through n steps, and there is such a g.             *)
IsChain(D, n, start, next, g) ==
    g \in [0..n -> D] /\ g[0] = start /\ \A i \in 1..n : g[i] = next[i][g[i - 1]]

LEMMA Chain ==
    ASSUME NEW D, NEW n \in Nat, NEW start \in D, NEW next \in [1..n -> [D -> D]]
    PROVE  \E g : IsChain(D, n, start, next, g)
<1> DEFINE Run(g, m) == g[0] = start /\ \A i \in 1..m : g[i] = next[i][g[i - 1]]
           T == {m \in Nat : m <= n => \E g \in [0..m -> D] : Run(g, m)}
<1>1. 0 \in T
  <2> DEFINE g == [i \in 0..0 |-> start]
  <2>1. g \in [0..0 -> D] /\ Run(g, 0)
    OBVIOUS
  <2>. QED  BY <2>1
<1>2. ASSUME NEW m \in Nat, m \in T
      PROVE  m + 1 \in T
  <2>1. SUFFICES ASSUME m + 1 <= n
                 PROVE  \E g \in [0..(m + 1) -> D] : Run(g, m + 1)
    OBVIOUS
  <2>2. PICK g \in [0..m -> D] : Run(g, m)
    BY <1>2, <2>1
  <2> DEFINE h == [i \in 0..(m + 1) |-> IF i = m + 1 THEN next[m + 1][g[m]] ELSE g[i]]
  <2>3. m \in 0..m /\ m + 1 \in 1..n
    BY <2>1
  <2>4. g[m] \in D /\ next[m + 1] \in [D -> D]
    BY <2>3
  <2>5. h \in [0..(m + 1) -> D]
    BY <2>4
  <2>6. h[0] = start
    BY <2>2
  <2>7. ASSUME NEW i \in 1..(m + 1)
        PROVE  h[i] = next[i][h[i - 1]]
    <3>1. CASE i = m + 1
      BY <3>1
    <3>2. CASE i \in 1..m
      BY <2>2, <3>2
    <3>. QED  BY <3>1, <3>2
  <2>. QED  BY <2>5, <2>6, <2>7
<1> HIDE DEF T
<1>3. n \in T
  BY <1>1, <1>2, NatSet
<1>. QED  BY <1>3 DEF T, IsChain

(* A property of what is at each position, from the first to the last.     *)
LEMMA Along ==
    ASSUME NEW D, NEW n \in Nat, NEW g, g[0] \in D,
           \A i \in 1..n : g[i - 1] \in D => g[i] \in D
    PROVE  \A i \in 0..n : g[i] \in D
<1> DEFINE T == {i \in Nat : i <= n => g[i] \in D}
<1>1. 0 \in T
  OBVIOUS
<1>2. ASSUME NEW i \in Nat, i \in T
      PROVE  i + 1 \in T
  <2>1. SUFFICES ASSUME i + 1 <= n PROVE g[i + 1] \in D
    OBVIOUS
  <2>2. g[i] \in D /\ i + 1 \in 1..n /\ (i + 1) - 1 = i
    BY <1>2, <2>1
  <2>. QED  BY <2>2
<1> HIDE DEF T
<1>3. Nat \subseteq T
  BY <1>1, <1>2, NatSet
<1>. QED  BY <1>3 DEF T

(* A path walked through a view whose links and tuples stay in D ends in D.*)
LEMMA ReachStays ==
    ASSUME NEW D, NEW v, NEW p, p.hops \in Seq({"m2o", "o2m"}), NEW r \in D,
           \A x \in D : LinkIn(v, x) \in D \cup {None} /\ KidsIn(v, x) \subseteq D
    PROVE  Reach(v, p, r) \subseteq D
<1> DEFINE n == Len(p.hops)
           Hop(i, X) == IF p.hops[i] = "m2o" THEN {LinkIn(v, x) : x \in X} \ {None}
                        ELSE UNION {KidsIn(v, x) : x \in X}
           Right(at) == at = [i \in 0..n |-> IF i = 0 THEN {r} ELSE Hop(i, at[i - 1])]
           next == [i \in 1..n |-> [X \in SUBSET D |-> Hop(i, X)]]
<1>1. n \in Nat
  BY LenProperties
<1>2. \A i \in 1..n : \A X \in SUBSET D : Hop(i, X) \in SUBSET D
  OBVIOUS
<1>3. next \in [1..n -> [SUBSET D -> SUBSET D]]
  <2> HIDE DEF Hop
  <2>. QED  BY <1>2
<1>4. Walk(v, p, r) = CHOOSE at : Right(at)
  BY DEF Walk
<1> HIDE DEF n
<1>5. PICK g : IsChain(SUBSET D, n, {r}, next, g)
  <2> HIDE DEF next
  <2>1. {r} \in SUBSET D
    OBVIOUS
  <2>. QED  BY <1>1, <1>3, <2>1, Chain
<1>6. Right(g)
  <2> HIDE DEF Hop
  <2>1. /\ g \in [0..n -> SUBSET D] /\ g[0] = {r}
        /\ \A i \in 1..n : g[i] = Hop(i, g[i - 1])
    <3>1. /\ g \in [0..n -> SUBSET D] /\ g[0] = {r}
          /\ \A i \in 1..n : g[i] = next[i][g[i - 1]]
      BY <1>5 DEF IsChain
    <3>2. ASSUME NEW i \in 1..n
          PROVE  next[i][g[i - 1]] = Hop(i, g[i - 1])
      <4>1. i - 1 \in 0..n
        BY <1>1
      <4>2. g[i - 1] \in SUBSET D
        BY <3>1, <4>1
      <4>. QED  BY <4>2
    <3>. QED  BY <3>1, <3>2
  <2>2. ASSUME NEW i \in 0..n
        PROVE  g[i] = IF i = 0 THEN {r} ELSE Hop(i, g[i - 1])
    <3>1. CASE i = 0
      BY <2>1, <3>1
    <3>2. CASE i # 0
      <4>1. i \in 1..n /\ i - 1 \in 0..n
        BY <1>1, <3>2
      <4>. QED  BY <2>1, <3>2, <4>1
    <3>. QED  BY <3>1, <3>2
  <2>. QED  BY <2>2, <2>1
<1> HIDE DEF Right
<1>7. Right(Walk(v, p, r))
  BY <1>4, <1>6
<1> DEFINE w == Walk(v, p, r)
<1>8. w[0] = {r} /\ \A i \in 1..n : w[i] = Hop(i, w[i - 1])
  <2> HIDE DEF Hop, w
  <2>1. w = [i \in 0..n |-> IF i = 0 THEN {r} ELSE Hop(i, w[i - 1])]
    BY <1>7 DEF Right, w
  <2>2. \A i \in 0..n : w[i] = IF i = 0 THEN {r} ELSE Hop(i, w[i - 1])
    BY <2>1
  <2>3. 0 \in 0..n /\ \A i \in 1..n : i \in 0..n /\ i # 0
    BY <1>1
  <2>. QED  BY <2>2, <2>3
<1> HIDE DEF Hop, w
<1>9. w[n] \in SUBSET D
  <2>1. w[0] \in SUBSET D
    BY <1>8
  <2>2. \A i \in 1..n : w[i - 1] \in SUBSET D => w[i] \in SUBSET D
    BY <1>2, <1>8
  <2>3. \A i \in 0..n : w[i] \in SUBSET D
    BY <1>1, <2>1, <2>2, Along
  <2>. QED  BY <1>1, <2>3
<1>. QED  BY <1>9 DEF Reach, w, n

(* The walk back from rows of D, along links between rows of D.            *)
LEMMA SourcesStay ==
    ASSUME NEW D, NEW link, NEW e, e.back \in Seq({"m2o", "o2m"}), NEW ids \in SUBSET D,
           \A r \in D : link[r] \in D \cup {None},
           \A r \in Recs : link[r] \in D => r \in D
    PROVE  FindSourceIds(link, e, ids) \subseteq D
<1> DEFINE n == Len(e.back)
           first == IF e.start = "o2m" THEN Back(link, "o2m", ids) ELSE ids
           Right(from) == from = [i \in 0..n |-> IF i = n THEN first
                                                 ELSE Back(link, e.back[i + 1], from[i + 1])]
           next == [i \in 1..n |-> [X \in SUBSET D |-> Back(link, e.back[n - i + 1], X)]]
<1>1. n \in Nat
  BY LenProperties
<1>2. \A h : \A X \in SUBSET D : Back(link, h, X) \in SUBSET D
  BY DEF Back
<1>3. first \in SUBSET D /\ next \in [1..n -> [SUBSET D -> SUBSET D]]
  BY <1>2
<1>4. FindSourceIds(link, e, ids) = (CHOOSE from : Right(from))[0]
  BY DEF FindSourceIds
<1> HIDE DEF n, first
<1>5. PICK g : IsChain(SUBSET D, n, first, next, g)
  <2> HIDE DEF next
  <2>. QED  BY <1>1, <1>3, Chain
<1>6. /\ g \in [0..n -> SUBSET D] /\ g[0] = first
       /\ \A i \in 1..n : g[i] = next[i][g[i - 1]]
  BY <1>5 DEF IsChain
<1> DEFINE h == [i \in 0..n |-> g[n - i]]
<1>7. Right(h)
  <2>1. ASSUME NEW i \in 0..n
        PROVE  h[i] = IF i = n THEN first ELSE Back(link, e.back[i + 1], h[i + 1])
    <3>1. CASE i = n
      BY <1>1, <1>6, <3>1
    <3>2. CASE i # n
      <4>1. n - i \in 1..n /\ (n - i) - 1 = n - (i + 1) /\ n - (n - i) + 1 = i + 1 /\ i + 1 \in 0..n
        BY <1>1, <3>2
      <4>2. g[n - (i + 1)] \in SUBSET D
        <5>1. n - (i + 1) \in 0..n
          BY <1>1, <3>2
        <5>. QED  BY <1>6, <5>1
      <4>3. g[n - i] = next[n - i][g[n - (i + 1)]]
        BY <1>6, <4>1
      <4>4. next[n - i][g[n - (i + 1)]] = Back(link, e.back[i + 1], g[n - (i + 1)])
        BY <4>1, <4>2
      <4>5. h[i] = g[n - i] /\ h[i + 1] = g[n - (i + 1)]
        BY <4>1
      <4>. QED  BY <3>2, <4>3, <4>4, <4>5
    <3>. QED  BY <3>1, <3>2
  <2> HIDE DEF h
  <2>2. h = [i \in 0..n |-> h[i]]
    BY DEF h
  <2>. QED  BY <2>1, <2>2
<1> HIDE DEF Right
<1> DEFINE from == CHOOSE from : Right(from)
<1>8. Right(from)
  BY <1>7
<1> HIDE DEF from
<1>9. \A i \in 0..n : from[i] = IF i = n THEN first ELSE Back(link, e.back[i + 1], from[i + 1])
  <2>1. from = [i \in 0..n |-> IF i = n THEN first ELSE Back(link, e.back[i + 1], from[i + 1])]
    BY <1>8 DEF Right
  <2>. QED  BY <2>1
<1> DEFINE k == [i \in 0..n |-> from[n - i]]
<1>10. k[0] \in SUBSET D
  BY <1>1, <1>3, <1>9
<1>11. ASSUME NEW i \in 1..n, k[i - 1] \in SUBSET D
       PROVE  k[i] \in SUBSET D
  <2>1. /\ n - i \in 0..n /\ n - i # n /\ n - i + 1 = n - (i - 1)
        /\ i \in 0..n /\ i - 1 \in 0..n
    BY <1>1
  <2>2. k[i] = from[n - i] /\ k[i - 1] = from[n - (i - 1)]
    BY <2>1
  <2> HIDE DEF k
  <2>3. from[n - i] = Back(link, e.back[n - i + 1], from[n - i + 1])
    BY <1>9, <2>1
  <2>4. from[n - i + 1] \in SUBSET D
    BY <1>11, <2>1, <2>2
  <2>. QED  BY <1>2, <2>2, <2>3, <2>4
<1>12. \A i \in 0..n : k[i] \in SUBSET D
  <2> HIDE DEF k
  <2>. QED  BY <1>1, <1>10, <1>11, Along
<1>13. from[0] \in SUBSET D
  <2>1. n \in 0..n /\ n - n = 0
    BY <1>1
  <2>2. k[n] = from[n - n]
    BY <2>1
  <2> HIDE DEF k
  <2>. QED  BY <1>12, <2>1, <2>2
<1>. QED  BY <1>4, <1>13 DEF from

(* Sequences put end to end.                                               *)
LEMMA FlatIsSeq ==
    ASSUME NEW S, NEW seqs \in Seq(Seq(S))
    PROVE  FlattenSeq(seqs) \in Seq(S)
<1> DEFINE n == Len(seqs)
           Right(flat) == flat = [i \in 1..n |-> IF i = 1 THEN seqs[i] ELSE flat[i - 1] \o seqs[i]]
           next == [i \in 1..n |-> [q \in Seq(S) |-> q \o seqs[i]]]
<1>1. n \in Nat /\ \A i \in 1..n : seqs[i] \in Seq(S)
  BY LenProperties, ElementOfSeq
<1>2. CASE n = 0
  <2>1. FlattenSeq(seqs) = seqs
    BY <1>2 DEF FlattenSeq
  <2>2. seqs = <<>>
    BY <1>2, EmptySeq
  <2>. QED  BY <2>1, <2>2
<1>3. CASE n # 0
  <2>1. FlattenSeq(seqs) = (CHOOSE flat : Right(flat))[n]
    BY <1>3 DEF FlattenSeq
  <2> HIDE DEF n
  <2>2. next \in [1..n -> [Seq(S) -> Seq(S)]]
    <3>1. ASSUME NEW i \in 1..n, NEW q \in Seq(S)
          PROVE  q \o seqs[i] \in Seq(S)
      BY <1>1, ConcatProperties
    <3>. QED  BY <3>1
  <2>3. PICK g : IsChain(Seq(S), n, <<>>, next, g)
    <3> HIDE DEF next
    <3>1. <<>> \in Seq(S)
      OBVIOUS
    <3>. QED  BY <1>1, <2>2, <3>1, Chain
  <2>4. /\ g \in [0..n -> Seq(S)] /\ g[0] = <<>>
         /\ \A i \in 1..n : g[i] = next[i][g[i - 1]]
    BY <2>3 DEF IsChain
  <2> DEFINE h == [i \in 1..n |-> g[i]]
  <2>5. Right(h)
    <3>1. ASSUME NEW i \in 1..n
          PROVE  h[i] = IF i = 1 THEN seqs[i] ELSE h[i - 1] \o seqs[i]
      <4>1. i - 1 \in 0..n /\ i \in 0..n
        BY <1>1
      <4>2. h[i] = g[i - 1] \o seqs[i]
        <5>1. g[i - 1] \in Seq(S)
          BY <2>4, <4>1
        <5>. QED  BY <2>4, <5>1
      <4>3. CASE i = 1
        <5>1. g[i - 1] = <<>> /\ seqs[i] \in Seq(S)
          BY <1>1, <2>4, <4>3
        <5>. QED  BY <4>2, <4>3, <5>1, ConcatEmptySeq
      <4>4. CASE i # 1
        <5>1. i - 1 \in 1..n
          BY <1>1, <4>4
        <5>. QED  BY <4>2, <4>4, <5>1
      <4>. QED  BY <4>3, <4>4
    <3> HIDE DEF h
    <3>2. h = [i \in 1..n |-> h[i]]
      BY DEF h
    <3>. QED  BY <3>1, <3>2
  <2> HIDE DEF Right
  <2> DEFINE flat == CHOOSE flat : Right(flat)
  <2>6. Right(flat)
    BY <2>5
  <2> HIDE DEF flat
  <2>7. \A i \in 1..n : flat[i] = IF i = 1 THEN seqs[i] ELSE flat[i - 1] \o seqs[i]
    <3>1. flat = [i \in 1..n |-> IF i = 1 THEN seqs[i] ELSE flat[i - 1] \o seqs[i]]
      BY <2>6 DEF Right
    <3>. QED  BY <3>1
  <2> DEFINE k == [i \in 0..(n - 1) |-> flat[i + 1]]
  <2>8. n - 1 \in Nat
    BY <1>1, <1>3
  <2>9. k[0] \in Seq(S)
    BY <1>1, <1>3, <2>7, <2>8
  <2>10. ASSUME NEW i \in 1..(n - 1), k[i - 1] \in Seq(S)
        PROVE  k[i] \in Seq(S)
    <3>1. /\ i \in 0..(n - 1) /\ i - 1 \in 0..(n - 1) /\ i + 1 \in 1..n /\ i + 1 # 1
          /\ (i + 1) - 1 = i /\ (i - 1) + 1 = i
      BY <1>1
    <3>2. k[i] = flat[i + 1] /\ k[i - 1] = flat[i]
      BY <3>1
    <3> HIDE DEF k
    <3>3. flat[i + 1] = flat[i] \o seqs[i + 1]
      BY <2>7, <3>1
    <3>4. flat[i] \in Seq(S) /\ seqs[i + 1] \in Seq(S)
      BY <1>1, <2>10, <3>1, <3>2
    <3>. QED  BY <3>2, <3>3, <3>4, ConcatProperties
  <2>11. \A i \in 0..(n - 1) : k[i] \in Seq(S)
    <3> HIDE DEF k
    <3>. QED  BY <2>8, <2>9, <2>10, Along
  <2>12. flat[n] \in Seq(S)
    <3>1. n - 1 \in 0..(n - 1) /\ (n - 1) + 1 = n
      BY <1>1, <1>3
    <3>2. k[n - 1] = flat[n]
      BY <3>1
    <3> HIDE DEF k
    <3>. QED  BY <2>11, <3>1, <3>2
  <2>. QED  BY <2>1, <2>12 DEF flat
<1>. QED  BY <1>2, <1>3
-----------------------------------------------------------------------------
(* The queue.                                                              *)
Hops == {"m2o", "o2m"}
Edge == [on : Fields, start : Hops \cup {"self"}, back : Seq(Hops)]
Entries(D) == [field : Computes, ids : SUBSET D]

LEMMA PathIsTyped ==
    ASSUME NEW f \in Computes, NEW i \in DOMAIN Depends[f]
    PROVE  /\ Depends[f] \in Seq(Path) /\ Depends[f][i] \in Path
           /\ Depends[f][i].hops \in Seq(Hops) /\ Depends[f][i].leaf \in Fields
<1>1. Depends[f] \in Seq(Path)
  BY GraphAssumption
<1>2. Depends[f][i] \in Path
  BY <1>1, LenProperties, ElementOfSeq
<1>. QED  BY <1>1, <1>2 DEF Path, Hops

LEMMA EdgesAreTyped ==
    ASSUME NEW p \in Path
    PROVE  Edges(p) \in Seq(Edge)
<1>1. p.hops \in Seq(Hops) /\ p.leaf \in Fields
  BY DEF Path, Hops
<1>2. /\ Len(p.hops) \in Nat /\ DOMAIN p.hops = 1..Len(p.hops)
      /\ \A i \in DOMAIN p.hops : p.hops[i] \in Hops
  BY <1>1, LenProperties, ElementOfSeq
<1> DEFINE at == [i \in DOMAIN p.hops |->
                    [on |-> Link, start |-> p.hops[i], back |-> SubSeq(p.hops, 1, i - 1)]]
           leaf == [on |-> p.leaf, start |-> "self", back |-> p.hops]
<1>3. ASSUME NEW i \in DOMAIN p.hops
      PROVE  SubSeq(p.hops, 1, i - 1) \in Seq(Hops)
  <2>1. 1 \in 1..Len(p.hops) + 1 /\ i - 1 \in 1 - 1 .. Len(p.hops)
    BY <1>2
  <2>. QED  BY <1>1, <2>1, SubSeqProperties
<1>4. at \in Seq(Edge)
  <2>1. \A i \in 1..Len(p.hops) : at[i] \in Edge
    BY <1>2, <1>3, Schema DEF Edge
  <2>2. DOMAIN at = 1..Len(p.hops) /\ at = [i \in 1..Len(p.hops) |-> at[i]]
    BY <1>2
  <2> HIDE DEF at
  <2>3. at \in [1..Len(p.hops) -> Edge]
    BY <2>1, <2>2
  <2>. QED  BY <1>2, <2>3
<1>5. leaf \in Edge
  BY <1>1 DEF Edge
<1>6. Edges(p) = Append(at, leaf)
  BY DEF Edges
<1> HIDE DEF at, leaf
<1>. QED  BY <1>4, <1>5, <1>6, AppendProperties

(* A sequence of sequences put end to end, one for every position of s.    *)
LEMMA SeqByPosition ==
    ASSUME NEW S, NEW n \in Nat, NEW q, q = [i \in 1..n |-> q[i]], \A i \in 1..n : q[i] \in S
    PROVE  q \in Seq(S)
<1>1. q \in [1..n -> S]
  OBVIOUS
<1>. QED  BY <1>1

LEMMA IndexIsTyped == EdgeIndex \in Seq([field : Computes, edge : Edge])
<1> DEFINE S == [field : Computes, edge : Edge]
           Listen(d, i) == LET es == Edges(Depends[Decl[d]][i])
                           IN  [j \in DOMAIN es |-> [field |-> Decl[d], edge |-> es[j]]]
           Listens(d) == [i \in DOMAIN Depends[Decl[d]] |-> Listen(d, i)]
           all == [d \in DOMAIN Decl |-> FlattenSeq(Listens(d))]
<1>1. /\ Len(Decl) \in Nat /\ DOMAIN Decl = 1..Len(Decl)
      /\ \A d \in DOMAIN Decl : Decl[d] \in Computes
  BY GraphAssumption, LenProperties, ElementOfSeq
<1>2. ASSUME NEW d \in DOMAIN Decl, NEW i \in DOMAIN Depends[Decl[d]]
      PROVE  Listen(d, i) \in Seq(S)
  <2> DEFINE es == Edges(Depends[Decl[d]][i])
             q == [j \in DOMAIN es |-> [field |-> Decl[d], edge |-> es[j]]]
  <2>1. es \in Seq(Edge)
    BY <1>1, PathIsTyped, EdgesAreTyped
  <2> HIDE DEF es
  <2>2. Len(es) \in Nat /\ DOMAIN es = 1..Len(es) /\ \A j \in DOMAIN es : es[j] \in Edge
    BY <2>1, LenProperties, ElementOfSeq
  <2>3. q = [j \in 1..Len(es) |-> q[j]] /\ \A j \in 1..Len(es) : q[j] \in S
    BY <1>1, <2>2
  <2>4. Listen(d, i) = q
    BY DEF es
  <2> HIDE DEF q
  <2>. QED  BY <2>2, <2>3, <2>4, SeqByPosition
<1>3. ASSUME NEW d \in DOMAIN Decl
      PROVE  FlattenSeq(Listens(d)) \in Seq(S)
  <2>1. Depends[Decl[d]] \in Seq(Path)
    BY <1>1, GraphAssumption
  <2>2. Len(Depends[Decl[d]]) \in Nat /\ DOMAIN Depends[Decl[d]] = 1..Len(Depends[Decl[d]])
    BY <2>1, LenProperties
  <2>3. /\ Listens(d) = [i \in 1..Len(Depends[Decl[d]]) |-> Listens(d)[i]]
        /\ \A i \in 1..Len(Depends[Decl[d]]) : Listens(d)[i] \in Seq(S)
    <3> HIDE DEF Listen
    <3>. QED  BY <1>2, <2>2
  <2> HIDE DEF Listens
  <2>4. Listens(d) \in Seq(Seq(S))
    <3> HIDE DEF S
    <3>. QED  BY <2>2, <2>3, SeqByPosition
  <2>. QED  BY <2>4, FlatIsSeq
<1>4. all = [d \in 1..Len(Decl) |-> all[d]] /\ \A d \in 1..Len(Decl) : all[d] \in Seq(S)
  <2> HIDE DEF Listens, S
  <2>. QED  BY <1>1, <1>3
<1>5. EdgeIndex = FlattenSeq(all)
  BY DEF EdgeIndex
<1> HIDE DEF all, S
<1>6. all \in Seq(Seq(S))
  BY <1>1, <1>4, SeqByPosition
<1>. QED  BY <1>5, <1>6, FlatIsSeq DEF S

(* What a change adds to the queue is about rows that links lead to.       *)
LEMMA FanOutIsTyped ==
    ASSUME NEW D, NEW link, NEW n \in Nat, NEW fs, DOMAIN fs = 1..n, NEW ids \in SUBSET D,
           \A r \in D : link[r] \in D \cup {None},
           \A r \in Recs : link[r] \in D => r \in D
    PROVE  FanOut(link, fs, ids) \in Seq(Entries(D))
<1> DEFINE S == Entries(D)
           found(k, i) == IF EdgeIndex[i].edge.on = fs[k]
                          THEN FindSourceIds(link, EdgeIndex[i].edge, ids) ELSE {}
           Entry(k, i) == IF found(k, i) = {} THEN <<>>
                          ELSE <<[field |-> EdgeIndex[i].field, ids |-> found(k, i)]>>
           Hits(k) == [i \in DOMAIN EdgeIndex |-> Entry(k, i)]
           all == [k \in DOMAIN fs |-> FlattenSeq(Hits(k))]
<1>1. /\ Len(EdgeIndex) \in Nat /\ DOMAIN EdgeIndex = 1..Len(EdgeIndex)
      /\ \A i \in DOMAIN EdgeIndex : EdgeIndex[i] \in [field : Computes, edge : Edge]
  BY IndexIsTyped, LenProperties, ElementOfSeq
<1>2. ASSUME NEW k, NEW i \in DOMAIN EdgeIndex
      PROVE  Entry(k, i) \in Seq(S)
  <2>1. EdgeIndex[i].field \in Computes /\ EdgeIndex[i].edge.back \in Seq({"m2o", "o2m"})
    BY <1>1 DEF Edge, Hops
  <2>2. found(k, i) \subseteq D
    <3>1. FindSourceIds(link, EdgeIndex[i].edge, ids) \subseteq D
      BY <2>1, SourcesStay
    <3>. QED  BY <3>1
  <2> HIDE DEF found
  <2>3. [field |-> EdgeIndex[i].field, ids |-> found(k, i)] \in S
    BY <2>1, <2>2 DEF Entries
  <2> HIDE DEF S
  <2>. QED  BY <2>3
<1>3. ASSUME NEW k
      PROVE  FlattenSeq(Hits(k)) \in Seq(S)
  <2> HIDE DEF Entry
  <2>1. /\ Hits(k) = [i \in 1..Len(EdgeIndex) |-> Hits(k)[i]]
        /\ \A i \in 1..Len(EdgeIndex) : Hits(k)[i] \in Seq(S)
    BY <1>1, <1>2
  <2> HIDE DEF Hits, S
  <2>2. Hits(k) \in Seq(Seq(S))
    BY <1>1, <2>1, SeqByPosition
  <2>. QED  BY <2>2, FlatIsSeq
<1>4. all = [k \in 1..n |-> all[k]] /\ \A k \in 1..n : all[k] \in Seq(S)
  <2> HIDE DEF Hits, S
  <2>. QED  BY <1>3
<1>5. FanOut(link, fs, ids) = FlattenSeq(all)
  BY DEF FanOut
<1> HIDE DEF all, S
<1>6. all \in Seq(Seq(S))
  BY <1>4, SeqByPosition
<1>. QED  BY <1>5, <1>6, FlatIsSeq DEF S
-----------------------------------------------------------------------------
(* Values. val gives a set of facts for every field of every record: what  *)
(* `given` says, except that the cells of `open` are gathered.             *)
Solves(v, open, given, val) ==
    val = [f \in Fields |-> [r \in Recs |->
             IF <<r, f>> \in open THEN Gather(v, f, r, val) ELSE given[f][r]]]

(* The fields of a rank: what is gathered for one comes from lower ranks.  *)
IsRank(rank) ==
    /\ rank \in [Fields -> 0 .. Len(Decl)]
    /\ \A f \in Computes : \A p \in PathsOf(f) : p.leaf \in Fields /\ rank[p.leaf] < rank[f]
    /\ \A f \in Computes : rank[f] > 0

LEMMA FieldsAreRanked == Len(Decl) \in Nat /\ \E rank : IsRank(rank)
<1>1. Len(Decl) \in Nat /\ Cardinality(Computes) = Len(Decl)
  BY GraphAssumption, LenProperties
<1>2. PICK rk \in [Computes -> 1 .. Cardinality(Computes)] :
        \A f \in Computes : \A p \in PathsOf(f) : p.leaf \in Computes => rk[p.leaf] < rk[f]
  BY GraphAssumption DEF Acyclic
<1> DEFINE rank == [f \in Fields |-> IF f \in Computes THEN rk[f] ELSE 0]
<1>3. rank \in [Fields -> 0 .. Len(Decl)]
  BY <1>1, <1>2
<1>4. Computes \subseteq Fields
  BY DEF Computes, Fields, Columns
<1>5. ASSUME NEW f \in Computes, NEW p \in PathsOf(f)
      PROVE  p.leaf \in Fields
  BY <1>5, PathIsTyped DEF PathsOf, ToSet
<1>6. ASSUME NEW f \in Computes, NEW p \in PathsOf(f)
      PROVE  rank[p.leaf] < rank[f]
  <2>1. rank[f] = rk[f] /\ rk[f] \in 1 .. Len(Decl)
    BY <1>1, <1>2, <1>4
  <2>2. CASE p.leaf \in Computes
    BY <1>2, <1>4, <2>1, <2>2
  <2>3. CASE p.leaf \notin Computes
    BY <1>1, <1>5, <2>1, <2>3
  <2>. QED  BY <2>2, <2>3
<1>7. \A f \in Computes : rank[f] > 0
  BY <1>1, <1>2, <1>4
<1> HIDE DEF rank
<1>8. IsRank(rank)
  BY <1>3, <1>5, <1>6, <1>7 DEF IsRank
<1>. QED  BY <1>1, <1>8

(* What is gathered depends on the fields that the paths end at.           *)
LEMMA GatherReads ==
    ASSUME NEW v, NEW f, NEW r, NEW val, NEW w, \A p \in PathsOf(f) : val[p.leaf] = w[p.leaf]
    PROVE  Gather(v, f, r, val) = Gather(v, f, r, w)
BY DEF Gather

(* Acyclic fields have values.                                             *)
LEMMA Solvable ==
    ASSUME NEW v, NEW open \in SUBSET (Recs \X Computes), NEW given
    PROVE  \E val : Solves(v, open, given, val)
<1>1. PICK rank : IsRank(rank)
  BY FieldsAreRanked
<1> DEFINE Cell(f, r, val) == IF <<r, f>> \in open THEN Gather(v, f, r, val) ELSE given[f][r]
           Upto(k, val) ==
             /\ val = [f \in Fields |-> [r \in Recs |-> val[f][r]]]
             /\ \A f \in Fields : rank[f] <= k => \A r \in Recs : val[f][r] = Cell(f, r, val)
           T == {k \in Nat : \E val : Upto(k, val)}
<1>2. rank \in [Fields -> 0 .. Len(Decl)] /\ Len(Decl) \in Nat
  BY <1>1, FieldsAreRanked DEF IsRank
<1>3. 0 \in T
  <2> DEFINE val == [f \in Fields |-> [r \in Recs |-> given[f][r]]]
  <2>1. val = [f \in Fields |-> [r \in Recs |-> val[f][r]]]
    OBVIOUS
  <2>2. ASSUME NEW f \in Fields, rank[f] <= 0, NEW r \in Recs
        PROVE  val[f][r] = Cell(f, r, val)
    <3>1. f \notin Computes
      BY <1>1, <1>2, <2>2 DEF IsRank
    <3>. QED  BY <3>1
  <2> HIDE DEF val, Cell
  <2>3. Upto(0, val)
    BY <2>1, <2>2
  <2>. QED  BY <2>3
<1>4. ASSUME NEW k \in Nat, k \in T
      PROVE  k + 1 \in T
  <2>1. PICK g : Upto(k, g)
    BY <1>4
  <2> DEFINE h == [f \in Fields |-> [r \in Recs |->
                     IF rank[f] <= k THEN g[f][r] ELSE Cell(f, r, g)]]
  <2> HIDE DEF Cell
  <2>2. \A f \in Fields : rank[f] <= k => h[f] = g[f]
    <3>1. \A f \in Fields : g[f] = [r \in Recs |-> g[f][r]]
      BY <2>1
    <3>. QED  BY <3>1
  <2>3. ASSUME NEW f \in Fields, rank[f] <= k + 1, NEW r \in Recs
        PROVE  Cell(f, r, h) = Cell(f, r, g)
    <3>1. CASE <<r, f>> \in open
      <4>1. f \in Computes
        BY <3>1
      <4>2. ASSUME NEW p \in PathsOf(f)
            PROVE  h[p.leaf] = g[p.leaf]
        <5>1. p.leaf \in Fields /\ rank[p.leaf] < rank[f]
          BY <1>1, <4>1 DEF IsRank
        <5>2. rank[p.leaf] \in Nat /\ rank[f] \in Nat
          BY <1>2, <5>1
        <5>3. rank[p.leaf] <= k
          BY <2>3, <5>1, <5>2
        <5> HIDE DEF h
        <5>. QED  BY <2>2, <5>1, <5>3
      <4> HIDE DEF h
      <4>. QED  BY <4>2, GatherReads DEF Cell
    <3>2. CASE <<r, f>> \notin open
      BY <3>2 DEF Cell
    <3>. QED  BY <3>1, <3>2
  <2>4. ASSUME NEW f \in Fields, rank[f] <= k + 1, NEW r \in Recs
        PROVE  h[f][r] = Cell(f, r, h)
    <3>1. CASE rank[f] <= k
      <4>1. h[f][r] = g[f][r] /\ g[f][r] = Cell(f, r, g)
        BY <2>1, <3>1
      <4>. QED  BY <2>3, <2>4, <4>1
    <3>2. CASE ~(rank[f] <= k)
      <4>1. h[f][r] = Cell(f, r, g)
        BY <3>2
      <4> HIDE DEF h
      <4>. QED  BY <2>3, <2>4, <4>1
    <3>. QED  BY <3>1, <3>2
  <2>5. h = [f \in Fields |-> [r \in Recs |-> h[f][r]]]
    OBVIOUS
  <2> HIDE DEF h
  <2>6. Upto(k + 1, h)
    BY <2>4, <2>5
  <2>. QED  BY <2>6
<1>5. Len(Decl) \in T
  <2> HIDE DEF T
  <2>. QED  BY <1>2, <1>3, <1>4, NatSet
<1>6. PICK val : Upto(Len(Decl), val)
  BY <1>5
<1> HIDE DEF Cell
<1>7. \A f \in Fields, r \in Recs : val[f][r] = Cell(f, r, val)
  <2>1. \A f \in Fields : rank[f] <= Len(Decl)
    BY <1>2
  <2>. QED  BY <1>6, <2>1
<1>8. val = [f \in Fields |-> [r \in Recs |-> Cell(f, r, val)]]
  BY <1>6, <1>7
<1>. QED  BY <1>8 DEF Solves, Cell

(* A view whose links and One2many tuples are records.                     *)
Linked(v) ==
    \A r \in Recs : LinkIn(v, r) \in Recs \cup {None} /\ KidsIn(v, r) \subseteq Recs

LEMMA GatherIsFacts ==
    ASSUME NEW v, Linked(v), NEW f \in Computes, NEW r \in Recs, NEW val,
           \A p \in PathsOf(f) : \A x \in Recs : val[p.leaf][x] \subseteq Facts
    PROVE  Gather(v, f, r, val) \subseteq Facts
<1>1. ASSUME NEW p \in PathsOf(f)
      PROVE  Reach(v, p, r) \subseteq Recs
  <2>1. p.hops \in Seq({"m2o", "o2m"})
    BY PathIsTyped DEF PathsOf, ToSet, Hops
  <2>. QED  BY <2>1, ReachStays DEF Linked
<1>. QED  BY <1>1 DEF Gather

(* Where what is given are facts, so is every value.                       *)
LEMMA SolutionIsFacts ==
    ASSUME NEW v, Linked(v), NEW open \in SUBSET (Recs \X Computes), NEW given, NEW val,
           Solves(v, open, given, val),
           \A f \in Fields, r \in Recs : <<r, f>> \notin open => given[f][r] \subseteq Facts
    PROVE  \A f \in Fields, r \in Recs : val[f][r] \subseteq Facts
<1>1. PICK rank : IsRank(rank)
  BY FieldsAreRanked
<1>2. rank \in [Fields -> 0 .. Len(Decl)] /\ Len(Decl) \in Nat
  BY <1>1, FieldsAreRanked DEF IsRank
<1>3. \A f \in Fields, r \in Recs :
        val[f][r] = IF <<r, f>> \in open THEN Gather(v, f, r, val) ELSE given[f][r]
  BY DEF Solves
<1> DEFINE T == {k \in Nat : \A f \in Fields, r \in Recs : rank[f] <= k => val[f][r] \subseteq Facts}
<1>4. ASSUME NEW f \in Fields, NEW r \in Recs,
             \A g \in Fields, x \in Recs : rank[g] < rank[f] => val[g][x] \subseteq Facts
      PROVE  val[f][r] \subseteq Facts
  <2>1. CASE <<r, f>> \notin open
    BY <1>3, <2>1
  <2>2. CASE <<r, f>> \in open
    <3>1. f \in Computes
      BY <2>2
    <3>2. \A p \in PathsOf(f) : p.leaf \in Fields /\ rank[p.leaf] < rank[f]
      BY <1>1, <3>1 DEF IsRank
    <3>3. \A p \in PathsOf(f) : \A x \in Recs : val[p.leaf][x] \subseteq Facts
      BY <1>4, <3>2
    <3>4. Gather(v, f, r, val) \subseteq Facts
      BY <3>1, <3>3, GatherIsFacts
    <3>. QED  BY <1>3, <2>2, <3>4
  <2>. QED  BY <2>1, <2>2
<1>5. \A f \in Fields : rank[f] \in Nat /\ rank[f] <= Len(Decl)
  BY <1>2
<1>6. 0 \in T
  <2>1. ASSUME NEW f \in Fields, NEW r \in Recs, rank[f] <= 0
        PROVE  val[f][r] \subseteq Facts
    <3>1. \A g \in Fields : ~(rank[g] < rank[f])
      BY <1>5, <2>1
    <3>. QED  BY <1>4, <3>1
  <2>. QED  BY <2>1
<1>7. ASSUME NEW k \in Nat, k \in T
      PROVE  k + 1 \in T
  <2>1. ASSUME NEW f \in Fields, NEW r \in Recs, rank[f] <= k + 1
        PROVE  val[f][r] \subseteq Facts
    <3>1. \A g \in Fields : rank[g] < rank[f] => rank[g] <= k
      BY <1>5, <2>1
    <3>2. \A g \in Fields, x \in Recs : rank[g] < rank[f] => val[g][x] \subseteq Facts
      BY <1>7, <3>1
    <3>. QED  BY <1>4, <3>2
  <2>. QED  BY <2>1
<1>8. Len(Decl) \in T
  <2> HIDE DEF T
  <2>. QED  BY <1>2, <1>6, <1>7, NatSet
<1>. QED  BY <1>5, <1>8
-----------------------------------------------------------------------------
(* Typed rows and views. A field of a row is None or of its kind.          *)
TypedRows(rows) == \A r \in Recs, f \in Columns : IsValue(f, rows[r][f])
TypedView(v) ==
    /\ ViewOK(v) /\ TypedRows(v.row)
    /\ \A r \in Recs : \A f \in Fields : v.cache[r][f] = Absent \/ IsValue(f, v.cache[r][f])
    /\ \A r \in Recs : v.kids[r] = Absent \/ v.kids[r] \subseteq Recs

LEMMA LinkValue == \A x : IsValue(Link, x) => x \in Recs \cup {None}
BY GraphAssumption DEF IsValue

LEMMA ValueIsFacts ==
    ASSUME NEW r \in Recs, NEW f \in Fields, NEW x, IsValue(f, x)
    PROVE  AsFacts(r, f, x) \subseteq Facts
<1>1. CASE f \in Computes /\ x # None
  BY <1>1, GraphAssumption DEF AsFacts, IsValue
<1>2. CASE ~(f \in Computes /\ x # None)
  <2>1. x \in Vals \cup Recs \cup {None}
    BY <1>2 DEF IsValue
  <2>2. AsFacts(r, f, x) = {Fact(r, f, x)}
    BY <1>2 DEF AsFacts
  <2>. QED  BY <2>1, <2>2 DEF Facts
<1>. QED  BY <1>1, <1>2

LEMMA TypedIsLinked ==
    ASSUME NEW v, TypedRows(v.row),
           \A r \in Recs : \A f \in Fields : v.cache[r][f] = Absent \/ IsValue(f, v.cache[r][f]),
           \A r \in Recs : v.kids[r] = Absent \/ v.kids[r] \subseteq Recs
    PROVE  Linked(v)
<1>1. SUFFICES ASSUME NEW r \in Recs
               PROVE  LinkIn(v, r) \in Recs \cup {None} /\ KidsIn(v, r) \subseteq Recs
  BY DEF Linked
<1>2. LinkIn(v, r) \in Recs \cup {None}
  <2>1. IsValue(Link, v.row[r][Link])
    BY Schema DEF TypedRows
  <2>2. v.cache[r][Link] = Absent \/ IsValue(Link, v.cache[r][Link])
    BY Schema
  <2>. QED  BY <2>1, <2>2, LinkValue DEF LinkIn
<1>3. KidsIn(v, r) \subseteq Recs
  BY DEF KidsIn, ChildrenOf
<1>. QED  BY <1>2, <1>3

LEMMA ColumnOrLazy == \A f \in Fields : f \in Columns \/ f \in Computes
BY DEF Fields, Computes

(* What a compute method sees of a typed view is typed.                    *)
LEMMA ReadingIsFacts ==
    ASSUME NEW v, TypedView(v)
    PROVE  \A f \in Fields, r \in Recs : Value(v)[f][r] \subseteq Facts
<1> DEFINE open == {c \in Recs \X Computes : v.cache[c[1]][c[2]] = Absent /\ c[2] \notin Columns}
           Given(f, r) == IF v.cache[r][f] # Absent THEN AsFacts(r, f, v.cache[r][f])
                          ELSE AsFacts(r, f, v.row[r][f])
           given == [f \in Fields |-> [r \in Recs |-> Given(f, r)]]
           Right(val) == val = [f \in Fields |-> [r \in Recs |->
                           IF v.cache[r][f] /= Absent THEN AsFacts(r, f, v.cache[r][f])
                           ELSE IF f \in Columns THEN AsFacts(r, f, v.row[r][f])
                           ELSE Gather(v, f, r, val)]]
<1>1. Value(v) = CHOOSE val : Right(val)
  BY DEF Value
<1>2. \A f \in Fields, r \in Recs :
        <<r, f>> \in open <=> v.cache[r][f] = Absent /\ f \notin Columns
  BY ColumnOrLazy
<1>3. \A f \in Fields, r \in Recs : given[f][r] = Given(f, r)
  OBVIOUS
<1>4. open \in SUBSET (Recs \X Computes)
  OBVIOUS
<1> HIDE DEF open, given
<1>5. ASSUME NEW val
      PROVE  Right(val) <=> Solves(v, open, given, val)
  <2> DEFINE A(f, r) == IF v.cache[r][f] /= Absent THEN AsFacts(r, f, v.cache[r][f])
                        ELSE IF f \in Columns THEN AsFacts(r, f, v.row[r][f])
                        ELSE Gather(v, f, r, val)
             B(f, r) == IF <<r, f>> \in open THEN Gather(v, f, r, val) ELSE given[f][r]
  <2>1. \A f \in Fields, r \in Recs : A(f, r) = B(f, r)
    BY <1>2, <1>3
  <2>2. /\ Right(val) <=> val = [f \in Fields |-> [r \in Recs |-> A(f, r)]]
        /\ Solves(v, open, given, val) <=> val = [f \in Fields |-> [r \in Recs |-> B(f, r)]]
    BY DEF Solves
  <2> HIDE DEF A, B, Right
  <2>. QED  BY <2>1, <2>2
<1>6. \E val : Right(val)
  BY <1>4, <1>5, Solvable
<1> HIDE DEF Right
<1>7. Solves(v, open, given, Value(v))
  BY <1>1, <1>5, <1>6
<1>8. Linked(v)
  BY TypedIsLinked DEF TypedView
<1>9. ASSUME NEW f \in Fields, NEW r \in Recs, <<r, f>> \notin open
      PROVE  given[f][r] \subseteq Facts
  <2>1. CASE v.cache[r][f] # Absent
    <3>1. IsValue(f, v.cache[r][f])
      BY <2>1 DEF TypedView
    <3>. QED  BY <1>3, <2>1, <3>1, ValueIsFacts
  <2>2. CASE v.cache[r][f] = Absent
    <3>1. f \in Columns
      BY <1>2, <1>9, <2>2
    <3>2. IsValue(f, v.row[r][f])
      BY <3>1 DEF TypedView, TypedRows
    <3>. QED  BY <1>3, <2>2, <3>2, ValueIsFacts
  <2>. QED  BY <2>1, <2>2
<1>. QED  BY <1>4, <1>7, <1>8, <1>9, SolutionIsFacts

(* So is what the database says it should be.                              *)
LEMMA TruthIsFacts ==
    ASSUME NEW rows, TypedRows(rows)
    PROVE  \A f \in Fields, r \in Recs : Truth(rows)[f][r] \subseteq Facts
<1> DEFINE cold == [row |-> rows, cache |-> NoCache, kids |-> NoKids]
           open == Recs \X Computes
           given == [f \in Fields |-> [r \in Recs |-> AsFacts(r, f, rows[r][f])]]
           Right(val) == val = [f \in Fields |-> [r \in Recs |->
                           IF f \in Computes THEN Gather(cold, f, r, val)
                                             ELSE AsFacts(r, f, rows[r][f])]]
<1>1. Truth(rows) = CHOOSE val : Right(val)
  BY DEF Truth
<1>2. Linked(cold)
  <2>1. cold.row = rows /\ cold.cache = NoCache /\ cold.kids = NoKids
    OBVIOUS
  <2> HIDE DEF cold
  <2>. QED  BY <2>1, TypedIsLinked DEF NoCache, NoKids
<1> HIDE DEF cold
<1>3. \A f \in Fields, r \in Recs : given[f][r] = AsFacts(r, f, rows[r][f])
  OBVIOUS
<1>4. \A f \in Fields, r \in Recs : <<r, f>> \in open <=> f \in Computes
  OBVIOUS
<1>5. open \in SUBSET (Recs \X Computes)
  OBVIOUS
<1> HIDE DEF open, given
<1>6. ASSUME NEW val
      PROVE  Right(val) <=> Solves(cold, open, given, val)
  <2> DEFINE A(f, r) == IF f \in Computes THEN Gather(cold, f, r, val)
                                         ELSE AsFacts(r, f, rows[r][f])
             B(f, r) == IF <<r, f>> \in open THEN Gather(cold, f, r, val) ELSE given[f][r]
  <2>1. \A f \in Fields, r \in Recs : A(f, r) = B(f, r)
    BY <1>3, <1>4
  <2>2. /\ Right(val) <=> val = [f \in Fields |-> [r \in Recs |-> A(f, r)]]
        /\ Solves(cold, open, given, val) <=> val = [f \in Fields |-> [r \in Recs |-> B(f, r)]]
    BY DEF Solves
  <2> HIDE DEF A, B, Right
  <2>. QED  BY <2>1, <2>2
<1>7. \E val : Right(val)
  BY <1>6, <1>5, Solvable
<1> HIDE DEF Right
<1>8. Solves(cold, open, given, Truth(rows))
  BY <1>1, <1>6, <1>7
<1>9. ASSUME NEW f \in Fields, NEW r \in Recs, <<r, f>> \notin open
      PROVE  given[f][r] \subseteq Facts
  <2>1. f \in Columns
    BY <1>4, <1>9, ColumnOrLazy
  <2>2. IsValue(f, rows[r][f])
    BY <2>1 DEF TypedRows
  <2>. QED  BY <1>3, <2>2, ValueIsFacts
<1>. QED  BY <1>2, <1>8, <1>9, <1>5, SolutionIsFacts

(* A set of facts is a value of a computed field.                          *)
LEMMA FactsAreValue == \A f \in Computes : \A x : x \subseteq Facts => IsValue(f, x)
BY DEF IsValue

LEMMA ResultIsFacts ==
    ASSUME NEW v, TypedView(v), NEW f \in Computes, NEW r \in Recs
    PROVE  Result(v, f, r) \subseteq Facts
<1>1. Linked(v)
  BY TypedIsLinked DEF TypedView
<1>2. \A p \in PathsOf(f) : p.leaf \in Fields
  BY PathIsTyped DEF PathsOf, ToSet
<1>3. \A p \in PathsOf(f) : \A x \in Recs : Value(v)[p.leaf][x] \subseteq Facts
  BY <1>2, ReadingIsFacts
<1>. QED  BY <1>1, <1>3, GatherIsFacts DEF Result

-----------------------------------------------------------------------------
(* What reads and writes make of a typed view.                             *)
LEMMA LoadIsTyped ==
    ASSUME NEW v, TypedView(v), NEW cells
    PROVE  TypedView(Load(v, cells)) /\ Load(v, cells).row = v.row
<1> DEFINE val == Value(v)
           filled == [r \in Recs |-> [f \in Fields |->
              IF <<r, f>> \in cells /\ v.cache[r][f] = Absent
              THEN IF f \in Columns THEN v.row[r][f] ELSE val[f][r]
              ELSE v.cache[r][f]]]
           tuples == [r \in Recs |-> IF <<r>> \in cells THEN KidsIn(v, r) ELSE v.kids[r]]
           w == Load(v, cells)
<1>1. w = [v EXCEPT !.cache = filled, !.kids = tuples]
  BY DEF Load
<1>2. \A f \in Fields, r \in Recs : val[f][r] \subseteq Facts
  BY ReadingIsFacts
<1> HIDE DEF val
<1>3. ASSUME NEW r \in Recs, NEW f \in Fields
      PROVE  filled[r][f] = Absent \/ IsValue(f, filled[r][f])
  <2>1. v.cache[r][f] = Absent \/ IsValue(f, v.cache[r][f])
    BY DEF TypedView
  <2>2. f \in Columns => IsValue(f, v.row[r][f])
    BY DEF TypedView, TypedRows
  <2>3. f \notin Columns => IsValue(f, val[f][r])
    BY <1>2, ColumnOrLazy, FactsAreValue
  <2>. QED  BY <2>1, <2>2, <2>3
<1>4. \A r \in Recs : tuples[r] = Absent \/ tuples[r] \subseteq Recs
  BY DEF TypedView, KidsIn, ChildrenOf
<1>5. /\ filled = [r \in Recs |-> [f \in Fields |-> filled[r][f]]]
      /\ tuples = [r \in Recs |-> tuples[r]]
  OBVIOUS
<1> HIDE DEF filled, tuples, w
<1>6. w \in Viewing(v.row, filled, tuples)
  BY <1>1 DEF TypedView, ViewOK, Viewing
<1>7. w.row = v.row /\ w.cache = filled /\ w.kids = tuples /\ w \in Viewing(w.row, w.cache, w.kids)
  BY <1>6, ViewParts
<1>8. ViewOK(w)
  BY <1>5, <1>7 DEF TypedView, ViewOK
<1>. QED  BY <1>3, <1>4, <1>7, <1>8 DEF TypedView, w

LEMMA ComputeIsTyped ==
    ASSUME NEW v, TypedView(v), NEW f \in Stored, NEW ids
    PROVE  LET w == ComputeField(v, f, ids)
           IN  /\ TypedView(w)
               /\ \A r \in Recs, g \in Columns : r \notin ids \/ g # f => w.row[r][g] = v.row[r][g]
<1> DEFINE w == Load(v, UNION {MethodLoads(v, f, r) : r \in ids})
           new == [r \in ids |-> Result(v, f, r)]
           cells == [r \in Recs |-> IF r \in ids THEN [w.cache[r] EXCEPT ![f] = new[r]]
                                                 ELSE w.cache[r]]
           rows == [r \in Recs |-> IF r \in ids THEN [w.row[r] EXCEPT ![f] = new[r]]
                                                ELSE w.row[r]]
           x == ComputeField(v, f, ids)
<1>1. x = [w EXCEPT !.cache = cells, !.row = rows]
  BY DEF ComputeField
<1>2. TypedView(w) /\ w.row = v.row
  BY LoadIsTyped
<1>3. f \in Computes /\ f \in Columns /\ f \in Fields
  BY DEF Computes, Columns, Fields
<1>4. \A r \in ids \cap Recs : IsValue(f, new[r])
  BY <1>3, ResultIsFacts, FactsAreValue
<1> HIDE DEF w, new
<1>5. ASSUME NEW r \in Recs
      PROVE  /\ rows[r] = [g \in Columns |-> rows[r][g]] /\ cells[r] = [g \in Fields |-> cells[r][g]]
             /\ \A g \in Columns : rows[r][g] = IF r \in ids /\ g = f THEN new[r] ELSE w.row[r][g]
             /\ \A g \in Fields : cells[r][g] = IF r \in ids /\ g = f THEN new[r] ELSE w.cache[r][g]
  <2>1. /\ w.row[r] = [g \in Columns |-> w.row[r][g]]
        /\ w.cache[r] = [g \in Fields |-> w.cache[r][g]]
    BY <1>2 DEF TypedView, ViewOK
  <2>. QED  BY <1>3, <2>1
<1>6. rows = [r \in Recs |-> rows[r]] /\ cells = [r \in Recs |-> cells[r]]
  OBVIOUS
<1> HIDE DEF rows, cells, x
<1>7. x \in Viewing(rows, cells, w.kids)
  BY <1>1, <1>2 DEF TypedView, ViewOK, Viewing
<1>8. x.row = rows /\ x.cache = cells /\ x.kids = w.kids /\ x \in Viewing(x.row, x.cache, x.kids)
  BY <1>7, ViewParts
<1>9. ViewOK(x)
  <2>1. rows = [r \in Recs |-> [g \in Columns |-> rows[r][g]]]
    BY <1>5, <1>6
  <2>2. cells = [r \in Recs |-> [g \in Fields |-> cells[r][g]]]
    BY <1>5, <1>6
  <2>. QED  BY <1>2, <1>8, <2>1, <2>2 DEF TypedView, ViewOK
<1>10. /\ \A r \in Recs : \A g \in Columns :
            x.row[r][g] = IF r \in ids /\ g = f THEN new[r] ELSE w.row[r][g]
       /\ \A r \in Recs : \A g \in Fields :
            x.cache[r][g] = IF r \in ids /\ g = f THEN new[r] ELSE w.cache[r][g]
  <2>1. x.row = rows /\ x.cache = cells
    BY <1>8
  <2>. QED  BY <1>5, <2>1, Zenon
<1>11. TypedRows(x.row)
  <2>1. \A r \in Recs, g \in Columns : IsValue(g, w.row[r][g])
    BY <1>2 DEF TypedView, TypedRows
  <2>. QED  BY <1>4, <1>10, <2>1 DEF TypedRows
<1>12. \A r \in Recs : \A g \in Fields : x.cache[r][g] = Absent \/ IsValue(g, x.cache[r][g])
  <2>1. \A r \in Recs : \A g \in Fields : w.cache[r][g] = Absent \/ IsValue(g, w.cache[r][g])
    BY <1>2 DEF TypedView
  <2>. QED  BY <1>4, <1>10, <2>1
<1>13. \A r \in Recs : x.kids[r] = Absent \/ x.kids[r] \subseteq Recs
  BY <1>2, <1>8 DEF TypedView
<1>14. \A r \in Recs, g \in Columns : r \notin ids \/ g # f => x.row[r][g] = v.row[r][g]
  BY <1>2, <1>10
<1>. QED  BY <1>9, <1>11, <1>12, <1>13, <1>14 DEF TypedView, x

LEMMA ForgetIsTyped ==
    ASSUME NEW v, TypedView(v), NEW ids, NEW fs
    PROVE  /\ TypedView(Forget(v, ids, fs)) /\ Forget(v, ids, fs).row = v.row
           /\ TypedView(ForgetKids(v, ids)) /\ ForgetKids(v, ids).row = v.row
           /\ TypedView(ForgetRows(v, ids)) /\ ForgetRows(v, ids).row = v.row
<1>1. ASSUME NEW u, TypedView(u)
      PROVE  TypedView(ForgetKids(u, ids)) /\ ForgetKids(u, ids).row = u.row
  <2> DEFINE x == ForgetKids(u, ids)
  <2>1. /\ ViewOK(x) /\ x.row = u.row /\ x.cache = u.cache
        /\ \A r \in Recs : x.kids[r] = IF r \in ids THEN Absent ELSE u.kids[r]
    BY <1>1, ForgetKidsGives DEF TypedView
  <2> HIDE DEF x
  <2>2. TypedView(x)
    BY <1>1, <2>1 DEF TypedView
  <2>. QED  BY <2>1, <2>2 DEF x
<1>2. ASSUME NEW gs
      PROVE  TypedView(Forget(v, ids, gs)) /\ Forget(v, ids, gs).row = v.row
  <2> DEFINE w == Forget(v, ids, gs)
  <2>1. /\ ViewOK(w) /\ w.row = v.row /\ w.kids = v.kids
        /\ \A r \in Recs, f \in Fields :
             w.cache[r][f] = IF r \in ids /\ f \in gs THEN Absent ELSE v.cache[r][f]
    BY ForgetGives DEF TypedView
  <2> HIDE DEF w
  <2>2. TypedView(w)
    BY <2>1 DEF TypedView
  <2>. QED  BY <2>1, <2>2 DEF w
<1>3. TypedView(ForgetRows(v, ids)) /\ ForgetRows(v, ids).row = v.row
  <2> DEFINE w == Forget(v, ids, Fields)
  <2>1. TypedView(w) /\ w.row = v.row
    BY <1>2
  <2>2. ForgetRows(v, ids) = ForgetKids(w, ids)
    BY DEF ForgetRows
  <2> HIDE DEF w
  <2>. QED  BY <1>1, <2>1, <2>2
<1>. QED  BY <1>1, <1>2, <1>3

LEMMA AssignIsTyped ==
    ASSUME NEW v, TypedView(v), NEW ids, NEW vals,
           \A f \in DOMAIN vals : IsValue(f, vals[f])
    PROVE  LET w == Assign(v, ids, vals)
           IN  /\ TypedView(w)
               /\ \A r \in Recs : \A f \in Columns :
                    w.row[r][f] = IF r \in ids /\ f \in DOMAIN vals THEN vals[f] ELSE v.row[r][f]
<1> DEFINE w == Assign(v, ids, vals)
<1>1. /\ ViewOK(w) /\ w.kids = v.kids
      /\ \A r \in Recs : \A f \in Columns :
           w.row[r][f] = IF r \in ids /\ f \in DOMAIN vals THEN vals[f] ELSE v.row[r][f]
      /\ \A r \in Recs : \A f \in Fields :
           w.cache[r][f] = IF r \in ids /\ f \in DOMAIN vals THEN vals[f] ELSE v.cache[r][f]
  BY AssignGives DEF TypedView
<1> HIDE DEF w
<1>2. TypedRows(w.row)
  BY <1>1 DEF TypedView, TypedRows
<1>3. TypedView(w)
  BY <1>1, <1>2 DEF TypedView
<1>. QED  BY <1>1, <1>3 DEF w
-----------------------------------------------------------------------------
(* The order of create(). The visits of the fields q, one after the other, *)
(* and the fold of them as a function of the set of positions it has done. *)
Orders == Seq(Stored)
Through(w, o, q) == FoldLeft(LAMBDA a, g : w[g][a], o, q)
Turn(g, w, o, q, s) == IF s = {} THEN o ELSE w[q[Max(s)]][g[s \ {Max(s)}]]
Turning(w, o, q) ==
    CHOOSE g : g = [s \in SUBSET DOMAIN q |-> Turn(g, w, o, q, s)]

LEMMA ThroughIsTurning ==
    ASSUME NEW w, NEW o, NEW q
    PROVE  Through(w, o, q) = Turning(w, o, q)[DOMAIN q]
BY DEF Through, FoldLeft, MapThenFoldSet, Turning, Turn

LEMMA TurningIs ==
    ASSUME NEW S, NEW q \in Seq(S), NEW w, NEW o
    PROVE  \A s \in SUBSET DOMAIN q : Turning(w, o, q)[s] = Turn(Turning(w, o, q), w, o, q, s)
<1> DEFINE n == Len(q)
           D == SUBSET (1..n)
           Right(g, m) == \A s \in D : Cardinality(s) <= m => g[s] = Turn(g, w, o, q, s)
           T == {m \in Nat : \E g : g = [s \in D |-> g[s]] /\ Right(g, m)}
<1>1. n \in Nat /\ DOMAIN q = 1..n
  BY LenProperties
<1>2. IsFiniteSet(1..n) /\ Cardinality(1..n) = n
  BY <1>1, FS_Interval
<1>3. \A s \in D : IsFiniteSet(s) /\ Cardinality(s) \in Nat /\ Cardinality(s) <= n
  BY <1>2, FS_Subset, FS_CardinalityType
<1>4. ASSUME NEW s \in D, s # {}
      PROVE  s \ {Max(s)} \in D /\ Cardinality(s \ {Max(s)}) = Cardinality(s) - 1
  <2>1. Max(s) \in s
    BY <1>1, <1>4, MaxIsIn
  <2>. QED  BY <1>3, <2>1, FS_RemoveElement
<1>5. \A s \in D : Cardinality(s) = 0 => s = {}
  BY <1>3, FS_EmptySet
<1>6. 0 \in T
  <2> DEFINE g == [s \in D |-> o]
  <2>1. Right(g, 0)
    BY <1>3, <1>5 DEF Turn
  <2>2. g = [s \in D |-> g[s]]
    OBVIOUS
  <2> HIDE DEF g
  <2>. QED  BY <2>1, <2>2
<1>7. ASSUME NEW m \in Nat, m \in T
      PROVE  m + 1 \in T
  <2>1. PICK g : Right(g, m)
    BY <1>7
  <2> DEFINE h == [s \in D |-> IF Cardinality(s) <= m THEN g[s] ELSE Turn(g, w, o, q, s)]
  <2>2. ASSUME NEW s \in D, Cardinality(s) <= m + 1
        PROVE  h[s] = Turn(h, w, o, q, s)
    <3>1. h[s] = Turn(g, w, o, q, s)
      BY <2>1
    <3>2. CASE s = {}
      BY <3>1, <3>2 DEF Turn
    <3>3. CASE s # {}
      <4>1. /\ s \ {Max(s)} \in D /\ Cardinality(s \ {Max(s)}) = Cardinality(s) - 1
            /\ Cardinality(s) \in Nat
        BY <1>3, <1>4, <3>3
      <4>2. Cardinality(s \ {Max(s)}) <= m
        BY <4>1, <2>2, <1>7
      <4>3. h[s \ {Max(s)}] = g[s \ {Max(s)}]
        BY <4>1, <4>2
      <4> HIDE DEF h
      <4>. QED  BY <3>1, <3>3, <4>3 DEF Turn
    <3>. QED  BY <3>2, <3>3
  <2>3. h = [s \in D |-> h[s]]
    OBVIOUS
  <2> HIDE DEF h
  <2>4. Right(h, m + 1)
    BY <2>2
  <2> HIDE DEF Right
  <2>. QED  BY <1>7, <2>3, <2>4
<1>8. n \in T
  <2> HIDE DEF T
  <2>. QED  BY <1>1, <1>6, <1>7, NatSet
<1>9. PICK g : g = [s \in D |-> g[s]] /\ Right(g, n)
  BY <1>8
<1>10. g = [s \in D |-> Turn(g, w, o, q, s)]
  <2>1. \A s \in D : g[s] = Turn(g, w, o, q, s)
    BY <1>3, <1>9
  <2>. QED  BY <1>9, <2>1
<1>11. \E f : f = [s \in SUBSET DOMAIN q |-> Turn(f, w, o, q, s)]
  BY <1>1, <1>10
<1>12. Turning(w, o, q) = [s \in SUBSET DOMAIN q |-> Turn(Turning(w, o, q), w, o, q, s)]
  BY <1>11 DEF Turning
<1>. QED  BY <1>12

(* Visits that make orders of orders, all together, make an order, and the *)
(* same one if each of them makes the same.                                *)
LEMMA ThroughIsOrder ==
    ASSUME NEW G, NEW q \in Seq(G), NEW u, NEW w, NEW o \in Orders,
           \A g \in G : \A a \in Orders : w[g][a] \in Orders /\ u[g][a] = w[g][a]
    PROVE  Through(w, o, q) \in Orders /\ Through(u, o, q) = Through(w, o, q)
<1> DEFINE x == Turning(w, o, q)
           y == Turning(u, o, q)
           T == {k \in Nat : k <= Len(q) => x[1..k] \in Orders /\ y[1..k] = x[1..k]}
<1>1. /\ Len(q) \in Nat /\ DOMAIN q = 1..Len(q)
      /\ \A k \in 1..Len(q) : q[k] \in G
  BY LenProperties, ElementOfSeq
<1>2. \A s \in SUBSET DOMAIN q : x[s] = Turn(x, w, o, q, s) /\ y[s] = Turn(y, u, o, q, s)
  BY TurningIs
<1> HIDE DEF x, y
<1>3. 0 \in T
  <2>1. 1..0 = {} /\ 1..0 \in SUBSET DOMAIN q
    OBVIOUS
  <2>2. x[1..0] = o /\ y[1..0] = o
    BY <1>2, <2>1 DEF Turn
  <2>. QED  BY <2>2
<1>4. ASSUME NEW k \in Nat, k \in T
      PROVE  k + 1 \in T
  <2>1. SUFFICES ASSUME k + 1 <= Len(q)
                 PROVE  x[1..(k + 1)] \in Orders /\ y[1..(k + 1)] = x[1..(k + 1)]
    OBVIOUS
  <2>2. x[1..k] \in Orders /\ y[1..k] = x[1..k]
    BY <1>1, <1>4, <2>1
  <2>3. k + 1 \in Nat /\ k + 1 # 0 /\ k + 1 \in 1..(k + 1) /\ 1..(k + 1) \subseteq 1..Len(q)
    BY <1>1, <2>1
  <2>4. Max(1..(k + 1)) = k + 1 /\ (1..(k + 1)) \ {k + 1} = 1..k
    BY <2>3, MaxOfFirst
  <2>5. 1..(k + 1) \in SUBSET DOMAIN q /\ 1..(k + 1) # {}
    BY <1>1, <2>3
  <2>6. x[1..(k + 1)] = w[q[k + 1]][x[1..k]] /\ y[1..(k + 1)] = u[q[k + 1]][y[1..k]]
    <3> DEFINE S == 1..(k + 1)
    <3>1. Max(S) = k + 1 /\ S \ {Max(S)} = 1..k /\ S # {} /\ S \in SUBSET DOMAIN q
      BY <2>4, <2>5
    <3> HIDE DEF S
    <3>2. x[S] = w[q[Max(S)]][x[S \ {Max(S)}]] /\ y[S] = u[q[Max(S)]][y[S \ {Max(S)}]]
      BY <1>2, <3>1 DEF Turn
    <3>. QED  BY <3>1, <3>2 DEF S
  <2>7. q[k + 1] \in G
    BY <1>1, <2>3
  <2>. QED  BY <2>2, <2>6, <2>7
<1>5. Len(q) \in T
  <2> HIDE DEF T
  <2>. QED  BY <1>1, <1>3, <1>4, NatSet
<1>6. x[DOMAIN q] \in Orders /\ y[DOMAIN q] = x[DOMAIN q]
  BY <1>1, <1>5
<1>. QED  BY <1>6, ThroughIsTurning DEF x, y

(* One visit.                                                              *)
Visit(w, f, o) ==
    IF f \notin Stored \/ Contains(o, f) THEN o
    ELSE Append(Through(w, o, LeavesOf(f)), f)

LEMMA LeavesAreLower ==
    ASSUME NEW rank, IsRank(rank), NEW f \in Stored
    PROVE  LeavesOf(f) \in Seq({g \in Fields : rank[g] < rank[f]})
<1>1. f \in Computes /\ Depends[f] \in Seq(Path)
  BY GraphAssumption DEF Computes
<1>2. Len(Depends[f]) \in Nat /\ DOMAIN Depends[f] = 1..Len(Depends[f])
  BY <1>1, LenProperties
<1>3. ASSUME NEW i \in 1..Len(Depends[f])
      PROVE  LeavesOf(f)[i] \in {g \in Fields : rank[g] < rank[f]}
  <2>1. LeavesOf(f)[i] = Depends[f][i].leaf /\ Depends[f][i] \in PathsOf(f)
    BY <1>2 DEF LeavesOf, PathsOf, ToSet
  <2>. QED  BY <1>1, <2>1 DEF IsRank
<1>4. LeavesOf(f) = [i \in 1..Len(Depends[f]) |-> LeavesOf(f)[i]]
  BY <1>2 DEF LeavesOf
<1>. QED  BY <1>2, <1>3, <1>4, SeqByPosition

(* A visit depends on the visits of fields of lower rank.                  *)
AgreeBelow(rank, f, u, w) ==
    \A g \in Fields, a \in Orders : rank[g] < rank[f] => w[g][a] \in Orders /\ u[g][a] = w[g][a]

LEMMA VisitReads ==
    ASSUME NEW rank, IsRank(rank), NEW f \in Fields, NEW o \in Orders, NEW u, NEW w,
           AgreeBelow(rank, f, u, w)
    PROVE  Visit(w, f, o) \in Orders /\ Visit(u, f, o) = Visit(w, f, o)
<1>1. CASE f \notin Stored \/ Contains(o, f)
  BY <1>1 DEF Visit
<1>2. CASE f \in Stored /\ ~Contains(o, f)
  <2> DEFINE G == {g \in Fields : rank[g] < rank[f]}
  <2>1. LeavesOf(f) \in Seq(G)
    BY <1>2, LeavesAreLower
  <2>2. \A g \in G : \A a \in Orders : w[g][a] \in Orders /\ u[g][a] = w[g][a]
    BY DEF AgreeBelow
  <2> HIDE DEF G
  <2>3. /\ Through(w, o, LeavesOf(f)) \in Orders
        /\ Through(u, o, LeavesOf(f)) = Through(w, o, LeavesOf(f))
    BY <2>1, <2>2, ThroughIsOrder
  <2>. QED  BY <1>2, <2>3, AppendProperties DEF Visit, Orders
<1>. QED  BY <1>1, <1>2

Visits(w) == w = [f \in Fields |-> [o \in Orders |-> Visit(w, f, o)]]

LEMMA Visitable == \E w : Visits(w)
<1>1. PICK rank : IsRank(rank)
  BY FieldsAreRanked
<1>2. rank \in [Fields -> 0 .. Len(Decl)] /\ Len(Decl) \in Nat
  BY <1>1, FieldsAreRanked DEF IsRank
<1> DEFINE Upto(k, w) ==
             /\ w = [f \in Fields |-> [o \in Orders |-> w[f][o]]]
             /\ \A f \in Fields, o \in Orders :
                  rank[f] < k => w[f][o] = Visit(w, f, o) /\ w[f][o] \in Orders
           T == {k \in Nat : \E w : Upto(k, w)}
<1>3. 0 \in T
  <2> DEFINE w == [f \in Fields |-> [o \in Orders |-> o]]
  <2>1. \A f \in Fields : ~(rank[f] < 0)
    BY <1>2
  <2>2. w = [f \in Fields |-> [o \in Orders |-> w[f][o]]]
    OBVIOUS
  <2> HIDE DEF w
  <2>3. Upto(0, w)
    BY <2>1, <2>2
  <2>. QED  BY <2>3
<1>4. ASSUME NEW k \in Nat, k \in T
      PROVE  k + 1 \in T
  <2>1. PICK w : Upto(k, w)
    BY <1>4
  <2> DEFINE h == [f \in Fields |-> [o \in Orders |->
                     IF rank[f] < k THEN w[f][o] ELSE Visit(w, f, o)]]
  <2>2. h = [f \in Fields |-> [o \in Orders |-> h[f][o]]]
    OBVIOUS
  <2>3. \A f \in Fields, o \in Orders : rank[f] < k => h[f][o] = w[f][o]
    OBVIOUS
  <2>4. \A f \in Fields, o \in Orders : ~(rank[f] < k) => h[f][o] = Visit(w, f, o)
    OBVIOUS
  <2> HIDE DEF h
  <2>5. ASSUME NEW f \in Fields, NEW o \in Orders, rank[f] < k + 1
        PROVE  h[f][o] = Visit(h, f, o) /\ h[f][o] \in Orders
    <3>1. \A g \in Fields : rank[g] < rank[f] => rank[g] < k
      BY <1>2, <2>5
    <3>2. AgreeBelow(rank, f, h, w)
      BY <2>1, <2>3, <3>1 DEF AgreeBelow
    <3>3. Visit(w, f, o) \in Orders /\ Visit(h, f, o) = Visit(w, f, o)
      BY <1>1, <3>2, VisitReads
    <3>4. h[f][o] = Visit(w, f, o)
      BY <2>1, <2>3, <2>4
    <3>. QED  BY <3>3, <3>4
  <2>6. Upto(k + 1, h)
    BY <2>2, <2>5
  <2>. QED  BY <2>6
<1>5. Len(Decl) + 1 \in T
  <2> HIDE DEF T
  <2>. QED  BY <1>2, <1>3, <1>4, NatSet
<1>6. PICK w : Upto(Len(Decl) + 1, w)
  BY <1>5
<1>7. \A f \in Fields, o \in Orders : w[f][o] = Visit(w, f, o)
  <2>1. \A f \in Fields : rank[f] < Len(Decl) + 1
    BY <1>2
  <2>. QED  BY <1>6, <2>1
<1>8. w = [f \in Fields |-> [o \in Orders |-> Visit(w, f, o)]]
  BY <1>6, <1>7
<1>. QED  BY <1>8 DEF Visits

(* An order lists a field once, after the stored fields it reads.          *)
InOrder(o) ==
    /\ o \in Orders
    /\ \A i, j \in 1..Len(o) : o[i] = o[j] => i = j
    /\ \A j \in 1..Len(o) : \A p \in PathsOf(o[j]) :
         p.leaf \in Stored => \E i \in 1..(j - 1) : o[i] = p.leaf

(* x lists what o does and fields of rank at most k.                       *)
Grows(rank, k, o, x) ==
    /\ InOrder(x) /\ ToSet(o) \subseteq ToSet(x)
    /\ \A g \in ToSet(x) \ ToSet(o) : rank[g] <= k
Lists(rank, k, g, o, x) == Grows(rank, k, o, x) /\ (g \in Stored => g \in ToSet(x))

LEMMA ThroughGrows ==
    ASSUME NEW rank, NEW k, NEW G, NEW q \in Seq(G), NEW w, NEW o, InOrder(o),
           \A g \in G : \A a \in Orders : InOrder(a) => Lists(rank, k, g, a, w[g][a])
    PROVE  /\ Grows(rank, k, o, Through(w, o, q))
           /\ \A i \in 1..Len(q) : q[i] \in Stored => q[i] \in ToSet(Through(w, o, q))
<1> DEFINE x == Turning(w, o, q)
           Done(m) == Grows(rank, k, o, x[1..m])
                      /\ \A i \in 1..m : q[i] \in Stored => q[i] \in ToSet(x[1..m])
           T == {m \in Nat : m <= Len(q) => Done(m)}
<1>1. /\ Len(q) \in Nat /\ DOMAIN q = 1..Len(q)
      /\ \A i \in 1..Len(q) : q[i] \in G
  BY LenProperties, ElementOfSeq
<1>2. \A s \in SUBSET DOMAIN q : x[s] = Turn(x, w, o, q, s)
  BY TurningIs
<1> HIDE DEF x
<1>3. 0 \in T
  <2>1. 1..0 = {} /\ 1..0 \in SUBSET DOMAIN q
    OBVIOUS
  <2>2. x[1..0] = o
    BY <1>2, <2>1 DEF Turn
  <2>. QED  BY <2>1, <2>2 DEF Grows
<1>4. ASSUME NEW m \in Nat, m \in T
      PROVE  m + 1 \in T
  <2>1. SUFFICES ASSUME m + 1 <= Len(q)
                 PROVE  Done(m + 1)
    OBVIOUS
  <2>2. Done(m)
    BY <1>1, <1>4, <2>1
  <2>3. m + 1 \in Nat /\ m + 1 # 0 /\ m + 1 \in 1..(m + 1) /\ 1..(m + 1) \subseteq 1..Len(q)
    BY <1>1, <2>1
  <2> DEFINE S == 1..(m + 1)
  <2>4. Max(S) = m + 1 /\ S \ {Max(S)} = 1..m /\ S # {} /\ S \in SUBSET DOMAIN q
    BY <1>1, <2>3, MaxOfFirst
  <2> HIDE DEF S
  <2>5. x[S] = w[q[m + 1]][x[1..m]]
    <3>1. x[S] = w[q[Max(S)]][x[S \ {Max(S)}]]
      BY <1>2, <2>4 DEF Turn
    <3>. QED  BY <2>4, <3>1
  <2> DEFINE a == x[1..m]
             b == x[S]
             g == q[m + 1]
  <2>6. g \in G /\ a \in Orders /\ InOrder(a) /\ b = w[g][a]
    BY <1>1, <2>2, <2>3, <2>5 DEF Grows, InOrder
  <2>7. Lists(rank, k, g, a, b)
    BY <2>6
  <2>8. Grows(rank, k, o, a) /\ \A i \in 1..m : q[i] \in Stored => q[i] \in ToSet(a)
    BY <2>2
  <2>9. \A i \in 1..(m + 1) : i \in 1..m \/ i = m + 1
    OBVIOUS
  <2> HIDE DEF a, b
  <2>10. Grows(rank, k, o, b) /\ \A i \in 1..(m + 1) : q[i] \in Stored => q[i] \in ToSet(b)
    BY <2>7, <2>8, <2>9 DEF Lists, Grows
  <2>. QED  BY <2>10 DEF S, b
<1>5. Len(q) \in T
  <2> HIDE DEF T
  <2>. QED  BY <1>1, <1>3, <1>4, NatSet
<1>. QED  BY <1>1, <1>5, ThroughIsTurning DEF x

(* The field that a visit appends comes after all it reads.                *)
LEMMA AppendInOrder ==
    ASSUME NEW t, InOrder(t), NEW f \in Stored, f \notin ToSet(t),
           \A p \in PathsOf(f) : p.leaf \in Stored => p.leaf \in ToSet(t)
    PROVE  InOrder(Append(t, f)) /\ ToSet(Append(t, f)) = ToSet(t) \cup {f}
<1> DEFINE x == Append(t, f)
           n == Len(t)
<1>1. t \in Seq(Stored) /\ n \in Nat /\ DOMAIN t = 1..n
  BY LenProperties DEF InOrder, Orders
<1>2. /\ x \in Seq(Stored) /\ Len(x) = n + 1 /\ DOMAIN x = 1..(n + 1)
      /\ \A i \in 1..n : x[i] = t[i]
      /\ x[n + 1] = f
  BY <1>1, AppendProperties, LenProperties
<1> HIDE DEF x
<1>3. \A i \in 1..(n + 1) : i \in 1..n \/ i = n + 1
  BY <1>1
<1>4. ToSet(t) = {t[i] : i \in 1..n} /\ ToSet(x) = {x[i] : i \in 1..(n + 1)}
  BY <1>1, <1>2 DEF ToSet
<1>5. ToSet(x) = ToSet(t) \cup {f}
  <2>1. \A i \in 1..n : i \in 1..(n + 1)
    BY <1>1
  <2>2. n + 1 \in 1..(n + 1)
    BY <1>1
  <2>. QED  BY <1>2, <1>3, <1>4, <2>1, <2>2
<1>6. ASSUME NEW i \in 1..(n + 1), NEW j \in 1..(n + 1), x[i] = x[j]
      PROVE  i = j
  <2>1. \A m \in 1..n : x[m] # f
    BY <1>2, <1>4
  <2>2. \A l, m \in 1..n : t[l] = t[m] => l = m
    BY DEF InOrder
  <2>. QED  BY <1>2, <1>3, <1>6, <2>1, <2>2
<1>7. ASSUME NEW j \in 1..(n + 1), NEW p \in PathsOf(x[j]), p.leaf \in Stored
      PROVE  \E i \in 1..(j - 1) : x[i] = p.leaf
  <2>1. CASE j \in 1..n
    <3>1. x[j] = t[j]
      BY <1>2, <2>1
    <3>2. PICK i \in 1..(j - 1) : t[i] = p.leaf
      BY <1>7, <2>1, <3>1 DEF InOrder
    <3>3. i \in 1..n
      BY <1>1, <2>1
    <3>. QED  BY <1>2, <3>2, <3>3
  <2>2. CASE j = n + 1
    <3>1. p.leaf \in ToSet(t)
      BY <1>2, <1>7, <2>2
    <3>2. PICK i \in 1..n : t[i] = p.leaf
      BY <1>4, <3>1
    <3>3. i \in 1..(j - 1)
      BY <1>1, <2>2
    <3>. QED  BY <1>2, <3>2, <3>3
  <2>. QED  BY <1>3, <2>1, <2>2
<1>8. InOrder(x)
  BY <1>2, <1>6, <1>7 DEF InOrder, Orders
<1>. QED  BY <1>5, <1>8 DEF x

LEMMA VisitGrows ==
    ASSUME NEW rank, IsRank(rank), NEW f \in Fields, NEW o \in Orders, NEW w, InOrder(o),
           \A g \in Fields : \A a \in Orders :
             rank[g] < rank[f] /\ InOrder(a) => Lists(rank, rank[g], g, a, w[g][a])
    PROVE  Lists(rank, rank[f], f, o, Visit(w, f, o))
<1>1. rank \in [Fields -> 0 .. Len(Decl)] /\ Len(Decl) \in Nat
  BY FieldsAreRanked DEF IsRank
<1>2. \A a \in Orders : ToSet(a) \subseteq Fields /\ (\A g : Contains(a, g) <=> g \in ToSet(a))
  <2>1. SUFFICES ASSUME NEW a \in Orders
                 PROVE  ToSet(a) \subseteq Fields /\ (\A g : Contains(a, g) <=> g \in ToSet(a))
    OBVIOUS
  <2>2. DOMAIN a = 1..Len(a) /\ \A i \in 1..Len(a) : a[i] \in Stored
    BY <2>1, LenProperties, ElementOfSeq DEF Orders
  <2>3. Stored \subseteq Fields
    BY DEF Fields, Columns
  <2>. QED  BY <2>2, <2>3 DEF ToSet, Contains
<1>3. CASE f \notin Stored \/ Contains(o, f)
  <2>1. Visit(w, f, o) = o
    BY <1>3 DEF Visit
  <2>2. f \in Stored => f \in ToSet(o)
    BY <1>2, <1>3
  <2>. QED  BY <2>1, <2>2 DEF Lists, Grows
<1>4. CASE f \in Stored /\ ~Contains(o, f)
  <2> DEFINE G == {g \in Fields : rank[g] < rank[f]}
             q == LeavesOf(f)
             t == Through(w, o, q)
             k == rank[f] - 1
  <2>1. q \in Seq(G)
    BY <1>4, LeavesAreLower
  <2>2. ASSUME NEW g \in G, NEW a \in Orders, InOrder(a)
        PROVE  Lists(rank, k, g, a, w[g][a])
    <3>1. Lists(rank, rank[g], g, a, w[g][a])
      BY <2>2
    <3>2. InOrder(w[g][a]) /\ ToSet(w[g][a]) \subseteq Fields
      BY <1>2, <3>1 DEF Lists, Grows, InOrder
    <3>3. rank[g] <= k /\ k \in Int /\ \A h \in Fields : rank[h] <= rank[g] => rank[h] <= k
      BY <1>1
    <3>. QED  BY <3>1, <3>2, <3>3 DEF Lists, Grows
  <2> HIDE DEF G
  <2>3. Grows(rank, k, o, t) /\ \A i \in 1..Len(q) : q[i] \in Stored => q[i] \in ToSet(t)
    BY <2>1, <2>2, ThroughGrows
  <2>4. Visit(w, f, o) = Append(t, f)
    BY <1>4 DEF Visit
  <2> HIDE DEF t
  <2>5. f \notin ToSet(t)
    <3>1. ~(rank[f] <= k)
      BY <1>1
    <3>2. f \notin ToSet(o)
      BY <1>2, <1>4
    <3>. QED  BY <2>3, <3>1, <3>2 DEF Grows
  <2>6. ASSUME NEW p \in PathsOf(f), p.leaf \in Stored
        PROVE  p.leaf \in ToSet(t)
    <3>1. Depends[f] \in Seq(Path)
      BY <1>4, GraphAssumption DEF Computes
    <3>2. PICK i \in DOMAIN Depends[f] : Depends[f][i] = p
      BY <2>6 DEF PathsOf, ToSet
    <3>3. q[i] = p.leaf /\ DOMAIN q = DOMAIN Depends[f]
      BY <3>2 DEF LeavesOf
    <3>4. i \in 1..Len(q)
      BY <2>1, <3>2, <3>3, LenProperties
    <3>. QED  BY <2>3, <2>6, <3>3, <3>4
  <2> HIDE DEF q
  <2>7. InOrder(Append(t, f)) /\ ToSet(Append(t, f)) = ToSet(t) \cup {f}
    BY <1>4, <2>3, <2>5, <2>6, AppendInOrder DEF Grows
  <2>8. ToSet(t) \subseteq Fields /\ k <= rank[f] /\ \A h \in Fields : rank[h] <= k => rank[h] <= rank[f]
    BY <1>1, <1>2, <2>3 DEF Grows, InOrder
  <2>9. rank[f] <= rank[f]
    BY <1>1
  <2> HIDE DEF k
  <2>. QED  BY <2>3, <2>4, <2>7, <2>8, <2>9 DEF Lists, Grows
<1>. QED  BY <1>3, <1>4

LEMMA VisitsGrow ==
    ASSUME NEW rank, IsRank(rank), NEW w, Visits(w)
    PROVE  \A f \in Fields : \A o \in Orders : InOrder(o) => Lists(rank, rank[f], f, o, w[f][o])
<1>1. rank \in [Fields -> 0 .. Len(Decl)] /\ Len(Decl) \in Nat
  BY FieldsAreRanked DEF IsRank
<1> DEFINE Grow(f) == \A o \in Orders : InOrder(o) => Lists(rank, rank[f], f, o, w[f][o])
           T == {k \in Nat : \A f \in Fields : rank[f] < k => Grow(f)}
<1>2. 0 \in T
  BY <1>1
<1>3. ASSUME NEW k \in Nat, k \in T
      PROVE  k + 1 \in T
  <2>1. ASSUME NEW f \in Fields, NEW o \in Orders, rank[f] < k + 1, InOrder(o)
        PROVE  Lists(rank, rank[f], f, o, w[f][o])
    <3>1. \A g \in Fields : rank[g] < rank[f] => rank[g] < k
      BY <1>1, <2>1
    <3>2. \A g \in Fields : \A a \in Orders :
            rank[g] < rank[f] /\ InOrder(a) => Lists(rank, rank[g], g, a, w[g][a])
      BY <1>3, <3>1
    <3>3. w[f][o] = Visit(w, f, o)
      BY DEF Visits
    <3>. QED  BY <2>1, <3>2, <3>3, VisitGrows
  <2>. QED  BY <2>1
<1>4. Len(Decl) + 1 \in T
  <2> HIDE DEF T
  <2>. QED  BY <1>1, <1>2, <1>3, NatSet
<1>5. \A f \in Fields : rank[f] < Len(Decl) + 1
  BY <1>1
<1>. QED  BY <1>4, <1>5

(* The order in which create() computes the stored fields of a new row has *)
(* each of them, once, after every stored field of its model it reads,     *)
(* however the class declares them.                                        *)
THEOREM CreateFollowsReads ==
    /\ InOrder(StoredOrder)
    /\ ToSet(StoredOrder) = Stored
<1> DEFINE visit == CHOOSE w : Visits(w)
<1>1. StoredOrder = Through(visit, <<>>, Decl)
  BY DEF StoredOrder, Through, Visits, Visit, Orders
<1>2. Visits(visit)
  BY Visitable
<1> HIDE DEF visit
<1>3. PICK rank : IsRank(rank)
  BY FieldsAreRanked
<1>4. rank \in [Fields -> 0 .. Len(Decl)] /\ Len(Decl) \in Nat
  BY <1>3, FieldsAreRanked DEF IsRank
<1>5. Decl \in Seq(Computes) /\ ToSet(Decl) = Computes /\ Computes \subseteq Fields
  BY GraphAssumption DEF Computes, Fields, Columns
<1>6. InOrder(<<>>)
  <2>1. <<>> \in Orders /\ 1..Len(<<>>) = {}
    BY EmptySeq DEF Orders
  <2>. QED  BY <2>1 DEF InOrder
<1>7. ASSUME NEW g \in Computes, NEW a \in Orders, InOrder(a)
      PROVE  Lists(rank, Len(Decl), g, a, visit[g][a])
  <2>1. Lists(rank, rank[g], g, a, visit[g][a])
    BY <1>2, <1>3, <1>5, <1>7, VisitsGrow
  <2> DEFINE x == visit[g][a]
  <2>2. \A i \in 1..Len(x) : x[i] \in Fields
    BY <2>1, ElementOfSeq DEF Lists, Grows, InOrder, Orders, Fields, Columns
  <2>3. DOMAIN x = 1..Len(x)
    BY <2>1, LenProperties DEF Lists, Grows, InOrder, Orders
  <2> HIDE DEF x
  <2>4. ToSet(x) \subseteq Fields
    BY <2>2, <2>3 DEF ToSet
  <2>5. \A h \in Fields : rank[h] <= Len(Decl)
    BY <1>4
  <2>. QED  BY <2>1, <2>4, <2>5 DEF Lists, Grows, x
<1> DEFINE t == Through(visit, <<>>, Decl)
<1>8. /\ Grows(rank, Len(Decl), <<>>, t)
      /\ \A i \in 1..Len(Decl) : Decl[i] \in Stored => Decl[i] \in ToSet(t)
  BY <1>5, <1>6, <1>7, ThroughGrows
<1> HIDE DEF t
<1>9. Stored \subseteq ToSet(t)
  <2>1. SUFFICES ASSUME NEW f \in Stored
                 PROVE  f \in ToSet(t)
    OBVIOUS
  <2>2. f \in ToSet(Decl)
    BY <1>5 DEF Computes
  <2>3. PICK i \in 1..Len(Decl) : Decl[i] = f
    BY <1>5, <2>2, LenProperties DEF ToSet
  <2>. QED  BY <1>8, <2>3
<1>10. ToSet(t) \subseteq Stored
  <2>1. t \in Seq(Stored)
    BY <1>8 DEF Grows, InOrder, Orders
  <2>. QED  BY <2>1, LenProperties, ElementOfSeq DEF ToSet
<1>. QED  BY <1>1, <1>8, <1>9, <1>10 DEF Grows, t

LEMMA OrderIsOfStored == StoredOrder \in Seq(Stored)
BY CreateFollowsReads DEF InOrder, Orders
-----------------------------------------------------------------------------
(* Steps. The database and the cache of the one session become a view.     *)
LEMMA StepMirrors ==
    ASSUME NEW s, Sessions = {s}, MirrorInv, NEW w, Mirrors(w), Becomes(s, w),
           alive' \subseteq Recs, \A r \in Recs \ alive' : w.row[r][Link] = None
    PROVE  MirrorInv'
<1>1. ViewOK(w) /\ s \in Sessions
  BY DEF Mirrors
<1>2. row' = w.row /\ cache'[s] = w.cache /\ kids'[s] = w.kids
  BY <1>1 DEF Becomes, MirrorInv
<1>3. cache' = [t \in Sessions |-> cache'[t]] /\ kids' = [t \in Sessions |-> kids'[t]]
  BY DEF Becomes, MirrorInv
<1>4. ViewOf(s)' = w
  BY <1>1, <1>2 DEF ViewOf, ViewOK, Viewing
<1>5. \A t \in Sessions : Mirrors(ViewOf(t))'
  BY <1>4, Mirrors(w)
<1>6. RowsInv'
  BY <1>2 DEF RowsInv
<1>. QED  BY <1>3, <1>5, <1>6 DEF MirrorInv

(* What a step starts from.                                                *)
LEMMA StartMirrors ==
    ASSUME MirrorInv, NEW s \in Sessions
    PROVE  /\ Mirrors(ViewOf(s)) /\ ViewOK(ViewOf(s)) /\ ViewOf(s).row = row
           /\ alive \subseteq Recs /\ \A r \in Recs \ alive : row[r][Link] = None
BY DEF MirrorInv, RowsInv, Mirrors, ViewOf

(* Assigning a Link, or not, and forgetting the tuples of the parents it   *)
(* was and is.                                                             *)
LEMMA AssignMirrors ==
    ASSUME NEW v, Mirrors(v), NEW ids, NEW vals, NEW parents,
           Link \in DOMAIN vals =>
             \A r \in ids \cap Recs : {v.row[r][Link], vals[Link]} \ {None} \subseteq parents
    PROVE  LET w == ForgetKids(Assign(v, ids, vals), parents)
           IN  /\ Mirrors(w)
               /\ \A r \in Recs : w.row[r][Link] = IF r \in ids /\ Link \in DOMAIN vals
                                                   THEN vals[Link] ELSE v.row[r][Link]
<1> DEFINE a == Assign(v, ids, vals)
           w == ForgetKids(a, parents)
<1>1. /\ ViewOK(a) /\ a.kids = v.kids
      /\ \A r \in Recs : \A f \in Columns :
           a.row[r][f] = IF r \in ids /\ f \in DOMAIN vals THEN vals[f] ELSE v.row[r][f]
      /\ \A r \in Recs : \A f \in Fields :
           a.cache[r][f] = IF r \in ids /\ f \in DOMAIN vals THEN vals[f] ELSE v.cache[r][f]
  BY AssignGives DEF Mirrors
<1> HIDE DEF a
<1>2. /\ ViewOK(w) /\ w.row = a.row /\ w.cache = a.cache
      /\ \A r \in Recs : w.kids[r] = IF r \in parents THEN Absent ELSE a.kids[r]
  BY <1>1, ForgetKidsGives
<1> HIDE DEF w
<1>3. \A r \in Recs : w.row[r][Link] = IF r \in ids /\ Link \in DOMAIN vals
                                       THEN vals[Link] ELSE v.row[r][Link]
  BY <1>1, <1>2, Schema
<1>4. \A r \in Recs : \A f \in Columns : w.cache[r][f] \in {Absent, w.row[r][f]}
  BY <1>1, <1>2, Schema DEF Mirrors
<1>5. ASSUME NEW p \in Recs, p \notin parents
      PROVE  ChildrenOf(w.row, p) = ChildrenOf(v.row, p)
  <2>1. p # None
    BY Schema
  <2>2. \A c \in Recs : w.row[c][Link] = p <=> v.row[c][Link] = p
    BY <1>3, <1>5, <2>1
  <2>. QED  BY <2>2 DEF ChildrenOf
<1>6. \A r \in Recs : w.kids[r] \in {Absent, ChildrenOf(w.row, r)}
  BY <1>1, <1>2, <1>5 DEF Mirrors
<1>7. Mirrors(w)
  BY <1>2, <1>4, <1>6 DEF Mirrors
<1>. QED  BY <1>3, <1>7 DEF w, a

LEMMA MirrorInit == Init => MirrorInv
<1>1. SUFFICES ASSUME Init PROVE MirrorInv
  OBVIOUS
<1>2. /\ alive \subseteq Recs
      /\ cache = [s \in Sessions |-> NoCache] /\ kids = [s \in Sessions |-> NoKids]
  BY <1>1 DEF Init
<1>3. PICK name \in [alive -> [Base -> Vals]], up \in [alive -> alive \cup {None}] :
        LET plain == [r \in Recs |->
                        IF r \notin alive THEN NoRow
                        ELSE [f \in Columns |-> IF f = Link THEN up[r]
                                                ELSE IF f \in Base THEN name[r][f] ELSE None]]
        IN  row = [r \in Recs |->
                     [f \in Columns |-> IF r \in alive /\ f \in Stored
                                        THEN Truth(plain)[f][r] ELSE plain[r][f]]]
  BY <1>1, Zenon DEF Init
<1>4. row = [r \in Recs |-> [f \in Columns |-> row[r][f]]]
  <2> DEFINE plain == [r \in Recs |->
                        IF r \notin alive THEN NoRow
                        ELSE [f \in Columns |-> IF f = Link THEN up[r]
                                                ELSE IF f \in Base THEN name[r][f] ELSE None]]
             cell(r, f) == IF r \in alive /\ f \in Stored THEN Truth(plain)[f][r] ELSE plain[r][f]
  <2>1. row = [r \in Recs |-> [f \in Columns |-> cell(r, f)]]
    BY <1>3
  <2> HIDE DEF cell
  <2>. QED  BY <2>1
<1>5. \A r \in Recs \ alive : row[r][Link] = None
  <2>1. SUFFICES ASSUME NEW r \in Recs \ alive PROVE row[r][Link] = None
    OBVIOUS
  <2>. QED  BY <1>3, <2>1, Schema DEF NoRow
<1>6. ASSUME NEW s \in Sessions
      PROVE  Mirrors(ViewOf(s))
  <2> DEFINE v == ViewOf(s)
  <2>1. /\ v.row = row /\ v.cache = NoCache /\ v.kids = NoKids
        /\ v \in Viewing(v.row, v.cache, v.kids)
    BY <1>2 DEF ViewOf, Viewing
  <2> HIDE DEF v
  <2>2. ViewOK(v)
    BY <1>4, <2>1 DEF ViewOK, NoCache, NoKids
  <2>3. Mirrors(v)
    BY <2>1, <2>2, Schema DEF Mirrors, NoCache, NoKids
  <2>. QED  BY <2>3 DEF v
<1>. QED  BY <1>2, <1>5, <1>6 DEF MirrorInv, RowsInv

LEMMA ReadKeeps ==
    ASSUME NEW s, Sessions = {s}, MirrorInv, NEW cells,
           Becomes(s, Load(ViewOf(s), cells)), alive' = alive
    PROVE  MirrorInv'
<1>1. Mirrors(ViewOf(s)) /\ ViewOf(s).row = row
  BY StartMirrors
<1> DEFINE w == Load(ViewOf(s), cells)
<1>2. Mirrors(w) /\ w.row = row
  BY <1>1, LoadMirrors
<1> HIDE DEF w
<1>3. alive' \subseteq Recs /\ \A r \in Recs \ alive' : w.row[r][Link] = None
  BY <1>2, StartMirrors
<1>. QED  BY <1>2, <1>3, StepMirrors DEF w

LEMMA NewRequestKeeps ==
    ASSUME NEW s, Sessions = {s}, MirrorInv, NewRequest(s)
    PROVE  MirrorInv'
<1> DEFINE w == [row |-> row, cache |-> NoCache, kids |-> NoKids]
<1>1. Mirrors(ViewOf(s)) /\ ViewOf(s).row = row
  BY StartMirrors
<1>2. /\ w.row = row /\ w.cache = NoCache /\ w.kids = NoKids
      /\ w \in Viewing(w.row, w.cache, w.kids)
  BY DEF Viewing
<1>3. Becomes(s, w) /\ alive' = alive
  BY DEF NewRequest, Becomes
<1> HIDE DEF w
<1>4. ViewOK(w)
  BY <1>1, <1>2 DEF Mirrors, ViewOK, NoCache, NoKids
<1>5. Mirrors(w)
  BY <1>2, <1>4, Schema DEF Mirrors, NoCache, NoKids
<1>. QED  BY <1>2, <1>3, <1>5, StartMirrors, StepMirrors

LEMMA WriteKeeps ==
    ASSUME NEW s, Sessions = {s}, MirrorInv, NEW ids, NEW vals, Write(s, ids, vals)
    PROVE  MirrorInv'
<1> DEFINE v == ViewOf(s)
           old == IF Link \in DOMAIN vals THEN {LinkIn(v, r) : r \in ids} \ {None} ELSE {}
           w == ForgetKids(Assign(v, ids, vals), old \cup Parent(vals))
<1>1. Mirrors(v) /\ v.row = row /\ ids \subseteq alive /\ alive \subseteq Recs /\ alive' = alive
  BY StartMirrors DEF Write
<1>2. Becomes(s, w)
  BY DEF Write
<1>3. Link \in DOMAIN vals =>
        \A r \in ids \cap Recs : {v.row[r][Link], vals[Link]} \ {None} \subseteq old \cup Parent(vals)
  <2>1. \A r \in ids : LinkIn(v, r) = v.row[r][Link]
    BY <1>1, ReadsRows
  <2> HIDE DEF v
  <2>. QED  BY <2>1 DEF Parent
<1> HIDE DEF v, old
<1>4. /\ Mirrors(w)
      /\ \A r \in Recs : w.row[r][Link] = IF r \in ids /\ Link \in DOMAIN vals
                                          THEN vals[Link] ELSE v.row[r][Link]
  BY <1>1, <1>3, AssignMirrors
<1> HIDE DEF w
<1>5. \A r \in Recs \ alive' : w.row[r][Link] = None
  BY <1>1, <1>4, StartMirrors
<1>. QED  BY <1>1, <1>2, <1>4, <1>5, StepMirrors

LEMMA CreateKeeps ==
    ASSUME NEW s, Sessions = {s}, MirrorInv,
           NEW r \in Recs, NEW vals, Create(s, r, vals)
    PROVE  MirrorInv'
<1> DEFINE u == ViewOf(s)
           v == ForgetKids(Assign(u, {r}, vals), Parent(vals))
           w == ComputeAll(v, StoredOrder, r)
<1>1. Mirrors(u) /\ u.row = row /\ r \notin alive /\ alive \subseteq Recs /\ alive' = alive \cup {r}
  BY StartMirrors DEF Create
<1>2. Becomes(s, w)
  BY DEF Create, ComputeAll
<1>3. row[r][Link] = None
  BY <1>1, StartMirrors
<1>4. Link \in DOMAIN vals =>
        \A x \in {r} \cap Recs : {u.row[x][Link], vals[Link]} \ {None} \subseteq Parent(vals)
  BY <1>1, <1>3 DEF Parent
<1> HIDE DEF u
<1>5. /\ Mirrors(v)
      /\ \A x \in Recs : v.row[x][Link] = IF x \in {r} /\ Link \in DOMAIN vals
                                          THEN vals[Link] ELSE u.row[x][Link]
  BY <1>1, <1>4, AssignMirrors
<1> HIDE DEF v
<1>6. Mirrors(w) /\ \A x \in Recs : w.row[x][Link] = v.row[x][Link]
  BY <1>5, OrderIsOfStored, ComputeAllMirrors
<1> HIDE DEF w
<1>7. \A x \in Recs \ alive' : w.row[x][Link] = None
  BY <1>1, <1>5, <1>6, StartMirrors
<1>. QED  BY <1>1, <1>2, <1>6, <1>7, StepMirrors

LEMMA PropagateKeeps ==
    ASSUME NEW s, Sessions = {s}, MirrorInv, Propagate(s)
    PROVE  MirrorInv'
<1> DEFINE e == Head(queue[s])
           fresh == e.ids \ seen[s][e.field]
           v == Forget(ViewOf(s), fresh, {e.field})
           w == IF e.field \in Stored THEN ComputeField(v, e.field, fresh) ELSE v
<1>1. Becomes(s, w) /\ alive' = alive
  BY DEF Propagate
<1> HIDE DEF e, fresh
<1>2. Mirrors(v) /\ v.row = row
  BY StartMirrors, ForgetMirrors
<1> HIDE DEF v
<1>3. e.field \in Stored => e.field # Link
  BY GraphAssumption DEF Computes
<1>4. Mirrors(w) /\ \A r \in Recs : w.row[r][Link] = v.row[r][Link]
  BY <1>2, <1>3, ComputeMirrors
<1> HIDE DEF w
<1>5. alive' \subseteq Recs /\ \A r \in Recs \ alive' : w.row[r][Link] = None
  BY <1>1, <1>2, <1>4, StartMirrors
<1>. QED  BY <1>1, <1>4, <1>5, StepMirrors

(* What ondelete "SET NULL" assigns.                                       *)
NoLink == [f \in {Link} |-> None]

(* x is u once an unlink has forgotten the tuples of p, and those of q if  *)
(* it took the Link of the rows `nulled`.                                  *)
Unlinking(u, p, q, nulled, x) ==
    \/ nulled = {} /\ x = ForgetKids(u, p)
    \/ x = Assign(ForgetKids(ForgetKids(u, p), q), nulled, NoLink)

(* y is u without the rows ids, the tuples of p and the Link of `nulled`.  *)
Unlinked(u, ids, p, nulled, y) ==
    /\ ViewOK(y)
    /\ \A r \in Recs : \A f \in Fields :
         y.cache[r][f] = IF r \in ids THEN Absent
                         ELSE IF r \in nulled /\ f = Link THEN None
                         ELSE u.cache[r][f]
    /\ \A r \in Recs : y.kids[r] = IF r \in ids \cup p THEN Absent ELSE u.kids[r]

(* Of the cache of a row that stays, an unlink changes the Link.           *)
LEMMA UnlinkCells ==
    ASSUME NEW u, Mirrors(u), NEW ids, NEW p, NEW q \in SUBSET ids, NEW nulled, NEW x,
           Unlinking(u, p, q, nulled, x)
    PROVE  Unlinked(u, ids, p, nulled, ForgetRows(x, ids))
<1>. DEFINE v == ForgetKids(u, p)
           w == ForgetKids(v, q)
           y == ForgetRows(x, ids)
<1>1. /\ ViewOK(u) /\ ViewOK(v) /\ v.cache = u.cache
      /\ \A r \in Recs : v.kids[r] = IF r \in p THEN Absent ELSE u.kids[r]
  BY ForgetKidsGives DEF Mirrors
<1>. HIDE DEF v
<1>2. /\ ViewOK(w) /\ w.cache = u.cache
      /\ \A r \in Recs : w.kids[r] = IF r \in q \cup p THEN Absent ELSE u.kids[r]
  BY <1>1, ForgetKidsGives
<1>. HIDE DEF w
<1>3. /\ ViewOK(x)
      /\ \A r \in Recs : r \notin ids => x.kids[r] = IF r \in p THEN Absent ELSE u.kids[r]
      /\ \A r \in Recs : \A f \in Fields :
           x.cache[r][f] = IF r \in nulled /\ f = Link THEN None ELSE u.cache[r][f]
  <2>1. CASE x = Assign(w, nulled, NoLink)
    <3>1. /\ ViewOK(x) /\ x.kids = w.kids
          /\ \A r \in Recs : \A f \in Fields :
               x.cache[r][f] = IF r \in nulled /\ f \in DOMAIN NoLink
                               THEN NoLink[f] ELSE w.cache[r][f]
      BY <1>2, <2>1, AssignGives
    <3>. QED  BY <1>2, <3>1 DEF NoLink
  <2>2. CASE nulled = {} /\ x = v
    BY <1>1, <2>2
  <2>. QED  BY <2>1, <2>2 DEF v, w, Unlinking
<1>4. LET z == Forget(x, ids, Fields)
      IN  /\ ViewOK(z) /\ z.kids = x.kids
          /\ \A r \in Recs, f \in Fields :
               z.cache[r][f] = IF r \in ids /\ f \in Fields THEN Absent ELSE x.cache[r][f]
  BY <1>3, ForgetGives
<1>. DEFINE z == Forget(x, ids, Fields)
<1>5. y = ForgetKids(z, ids)
  BY DEF ForgetRows
<1>. HIDE DEF z, y
<1>6. /\ ViewOK(z) /\ z.kids = x.kids
      /\ \A r \in Recs, f \in Fields : z.cache[r][f] = IF r \in ids THEN Absent ELSE x.cache[r][f]
  BY <1>4 DEF z
<1>7. /\ ViewOK(y) /\ y.cache = z.cache
      /\ \A r \in Recs : y.kids[r] = IF r \in ids THEN Absent ELSE z.kids[r]
  BY <1>5, <1>6, ForgetKidsGives
<1>. QED  BY <1>3, <1>6, <1>7 DEF y, Unlinked

LEMMA UnlinkKeeps ==
    ASSUME NEW s, Sessions = {s}, OnDelete # "CASCADE", MirrorInv, NEW ids, Unlink(s, ids)
    PROVE  MirrorInv'
<1> DEFINE u == ViewOf(s)
           p == {LinkIn(u, r) : r \in ids} \ {None}
           refs == Referrers(ids)
           nulled == IF OnDelete = "SET NULL" THEN refs ELSE {}
           v == ForgetFrom(u, ids)
           w == IF OnDelete = "RESTRICT" THEN v ELSE ForgetFrom(v, refs)
           x == CASE OnDelete = "SET NULL" -> Assign(w, refs, NoLink)
                  [] OnDelete = "CASCADE" -> ForgetRows(w, refs)
                  [] OTHER -> w
           rows == [r \in Recs |->
                      IF r \in ids THEN NoRow
                      ELSE IF row[r][Link] \in ids THEN [row[r] EXCEPT ![Link] = None]
                      ELSE row[r]]
           y == ForgetRows(x, ids)
           z == [y EXCEPT !.row = rows]
<1>1. Mirrors(u) /\ u.row = row /\ ids \subseteq alive /\ alive \subseteq Recs
  BY StartMirrors DEF Unlink
<1>2. Doomed(ids) = ids
  BY DEF Doomed
<1>3. alive' = alive \ ids /\ Becomes(s, z) /\ (OnDelete = "RESTRICT" => refs \subseteq ids)
  BY <1>2 DEF Unlink, NoLink
<1>4. OnDelete \in {"SET NULL", "RESTRICT"}
  BY SessionAssumption
<1>5. \A r \in Recs : LinkIn(u, r) = row[r][Link]
  BY <1>1, ReadsRows
<1>6. \A r \in refs : row[r][Link] \in ids /\ r \in Recs
  BY DEF Referrers
<1> DEFINE q == {LinkIn(v, r) : r \in refs} \ {None}
<1>7. q \in SUBSET ids
  <2>1. v.cache = u.cache /\ v.row = u.row
    BY <1>1, ForgetKidsGives DEF ForgetFrom, Mirrors
  <2>2. \A r \in refs : LinkIn(v, r) = row[r][Link]
    BY <1>5, <1>6, <2>1 DEF LinkIn
  <2> HIDE DEF v, refs
  <2>. QED  BY <1>6, <2>2
<1>8. /\ v = ForgetKids(u, p)
      /\ \/ nulled = {} /\ x = v
         \/ x = Assign(ForgetKids(v, q), nulled, NoLink)
  BY <1>4 DEF ForgetFrom
<1> HIDE DEF x, q, v
<1>9. Unlinking(u, p, q, nulled, x)
  BY <1>8 DEF Unlinking
<1> HIDE DEF p, refs, nulled
<1>10. /\ ViewOK(y)
       /\ \A r \in Recs : \A f \in Fields :
            y.cache[r][f] = IF r \in ids THEN Absent
                            ELSE IF r \in nulled /\ f = Link THEN None
                            ELSE u.cache[r][f]
       /\ \A r \in Recs : y.kids[r] = IF r \in ids \cup p THEN Absent ELSE u.kids[r]
  <2> HIDE DEF u
  <2>1. Unlinked(u, ids, p, nulled, y)
    BY <1>1, <1>7, <1>9, UnlinkCells
  <2>. QED  BY <2>1 DEF Unlinked
<1>11. row = [r \in Recs |-> [f \in Columns |-> row[r][f]]]
  BY <1>1 DEF Mirrors, ViewOK
<1>12. /\ rows = [r \in Recs |-> [f \in Columns |-> rows[r][f]]]
       /\ \A r \in Recs : \A f \in Columns :
            rows[r][f] = IF r \in ids \/ (f = Link /\ row[r][Link] \in ids) THEN None ELSE row[r][f]
  <2>1. ASSUME NEW r \in Recs
        PROVE  /\ rows[r] = [f \in Columns |-> rows[r][f]]
               /\ \A f \in Columns :
                    rows[r][f] = IF r \in ids \/ (f = Link /\ row[r][Link] \in ids) THEN None ELSE row[r][f]
    <3>1. row[r] = [f \in Columns |-> row[r][f]]
      BY <1>11
    <3>. QED  BY <3>1 DEF NoRow
  <2>2. rows = [r \in Recs |-> rows[r]]
    OBVIOUS
  <2> HIDE DEF rows
  <2>. QED  BY <2>1, <2>2
<1> HIDE DEF u, y, rows
<1>13. z \in Viewing(rows, y.cache, y.kids)
  BY <1>10 DEF ViewOK, Viewing
<1> HIDE DEF z
<1>14. z.row = rows /\ z.cache = y.cache /\ z.kids = y.kids /\ z \in Viewing(z.row, z.cache, z.kids)
  BY <1>13, ViewParts
<1>15. ViewOK(z)
  BY <1>10, <1>12, <1>14 DEF ViewOK
<1>16. \A r \in Recs : (r \in refs <=> row[r][Link] \in ids)
  BY DEF refs, Referrers
<1>17. ASSUME NEW r \in Recs, NEW f \in Columns
       PROVE  z.cache[r][f] \in {Absent, z.row[r][f]}
  <2>1. CASE r \in ids
    BY <1>10, <1>14, <2>1, Schema
  <2>2. CASE r \notin ids /\ f = Link /\ row[r][Link] \in ids
    <3>1. r \in nulled
      BY <1>3, <1>4, <1>16, <2>2 DEF nulled
    <3>. QED  BY <1>10, <1>12, <1>14, <1>16, <2>2, <3>1, Schema
  <2>3. CASE r \notin ids /\ ~(f = Link /\ row[r][Link] \in ids)
    <3>1. rows[r][f] = row[r][f]
      BY <1>12, <2>3
    <3>2. y.cache[r][f] = u.cache[r][f]
      BY <1>10, <1>16, <2>3, Schema DEF nulled
    <3>. QED  BY <1>1, <1>14, <3>1, <3>2 DEF Mirrors
  <2>. QED  BY <2>1, <2>2, <2>3
<1>18. ASSUME NEW r \in Recs
       PROVE  z.kids[r] \in {Absent, ChildrenOf(z.row, r)}
  <2>1. CASE r \in ids \cup p
    BY <1>10, <1>14, <2>1
  <2>2. CASE r \notin ids \cup p
    <3>1. r # None
      BY Schema
    <3>2. \A c \in ids : row[c][Link] # r
      BY <1>1, <1>5, <2>2, <3>1 DEF p
    <3>3. \A c \in Recs : rows[c][Link] = r <=> row[c][Link] = r
      BY <1>12, <2>2, <3>1, <3>2, Schema
    <3>4. ChildrenOf(rows, r) = ChildrenOf(row, r)
      BY <3>3 DEF ChildrenOf
    <3>5. u.kids[r] \in {Absent, ChildrenOf(row, r)}
      BY <1>1 DEF Mirrors
    <3>. QED  BY <1>10, <1>14, <2>2, <3>4, <3>5
  <2>. QED  BY <2>1, <2>2
<1>19. Mirrors(z)
  BY <1>15, <1>17, <1>18 DEF Mirrors
<1>20. alive' \subseteq Recs /\ \A r \in Recs \ alive' : z.row[r][Link] = None
  <2>1. \A r \in Recs \ alive : row[r][Link] = None
    BY StartMirrors
  <2>2. ASSUME NEW r \in Recs \ alive'
        PROVE  rows[r][Link] = None
    BY <1>3, <1>12, <2>1, Schema
  <2>. QED  BY <1>1, <1>3, <1>14, <2>2
<1>. QED  BY <1>3, <1>19, <1>20, StepMirrors
-----------------------------------------------------------------------------
LEMMA MirrorNext ==
    ASSUME NEW s, Sessions = {s}, Unlinks => OnDelete # "CASCADE", MirrorInv, [Next]_vars
    PROVE  MirrorInv'
<1>1. CASE UNCHANGED vars
  BY <1>1 DEF vars, MirrorInv, RowsInv, ViewOf
<1>2. ASSUME NEW r \in Recs, ReadKids(s, r)
      PROVE  MirrorInv'
  BY <1>2, ReadKeeps DEF ReadKids
<1>3. ASSUME NEW r \in Recs, NEW f \in Reads, ReadField(s, r, f)
      PROVE  MirrorInv'
  <2> DEFINE cells == Loads(ViewOf(s))[f][r]
  <2>1. Becomes(s, Load(ViewOf(s), cells)) /\ alive' = alive
    BY <1>3 DEF ReadField
  <2> HIDE DEF cells
  <2>. QED  BY <2>1, ReadKeeps
<1>4. CASE NewRequest(s)
  BY <1>4, NewRequestKeeps
<1>5. ASSUME NEW ids \in SUBSET Recs, Unlink(s, ids)
      PROVE  MirrorInv'
  <2>1. OnDelete # "CASCADE"
    BY <1>5 DEF Unlink
  <2>. QED  BY <1>5, <2>1, UnlinkKeeps
<1>6. ASSUME NEW ids \in SUBSET Recs, NEW vals \in WriteVals, Write(s, ids, vals)
      PROVE  MirrorInv'
  BY <1>6, WriteKeeps
<1>7. ASSUME NEW r \in Recs, NEW vals \in CreateVals, Create(s, r, vals)
      PROVE  MirrorInv'
  BY <1>7, CreateKeeps
<1>8. CASE Propagate(s)
  BY <1>8, PropagateKeeps
<1>. QED  BY <1>1, <1>2, <1>3, <1>4, <1>5, <1>6, <1>7, <1>8 DEF Next

(* CacheMirrorsRows: while one request at a time is served, whatever it    *)
(* read, wrote, moved, created and deleted, and at every turn of the       *)
(* propagation, each column and One2many tuple in its cache is what the    *)
(* database holds, for every schema without cycles, unless rows are        *)
(* deleted with CASCADE.                                                   *)
THEOREM CacheAlwaysMirrors ==
    ASSUME NEW CONSTANT s, Sessions = {s}, Unlinks => OnDelete # "CASCADE"
    PROVE  Spec => []CacheMirrorsRows
<1>1. MirrorInv /\ [Next]_vars => MirrorInv'
  BY MirrorNext
<1>2. MirrorInv => CacheMirrorsRows
  <2>1. SUFFICES ASSUME MirrorInv, NEW t \in Sessions, NEW r \in alive
                 PROVE  /\ \A f \in Columns : cache[t][r][f] \in {Absent, row[r][f]}
                        /\ kids[t][r] \in {Absent, ChildrenOf(row, r)}
    BY DEF CacheMirrorsRows
  <2>2. ViewOf(t).row = row /\ ViewOf(t).cache = cache[t] /\ ViewOf(t).kids = kids[t] /\ r \in Recs
    BY <2>1 DEF ViewOf, MirrorInv, RowsInv
  <2>. QED  BY <2>1, <2>2 DEF MirrorInv, Mirrors
<1>. QED  BY <1>1, <1>2, MirrorInit, PTL DEF Spec
-----------------------------------------------------------------------------
(* Type correctness. A row points at rows that exist, the others are empty,*)
(* and what the queue is about exists.                                     *)
RowsOK(rows, live) ==
    /\ live \subseteq Recs
    /\ \A r \in Recs : rows[r][Link] \in live \cup {None}
    /\ \A r \in Recs \ live : \A f \in Columns : rows[r][f] = None
TypeInv ==
    /\ RowsOK(row, alive) /\ TypedRows(row)
    /\ cache = [s \in Sessions |-> cache[s]] /\ kids = [s \in Sessions |-> kids[s]]
    /\ \A s \in Sessions : TypedView(ViewOf(s))
    /\ seen \in [Sessions -> [Computes -> SUBSET Recs]]
    /\ queue \in [Sessions -> Seq(Entries(alive))]
    /\ ops \in 0 .. MaxOps

LEMMA SeqOfMore ==
    ASSUME NEW S, NEW T, S \subseteq T, NEW q \in Seq(S)
    PROVE  q \in Seq(T)
<1>1. Len(q) \in Nat /\ q \in [1..Len(q) -> S]
  BY LenProperties
<1>2. q = [i \in 1..Len(q) |-> q[i]] /\ \A i \in 1..Len(q) : q[i] \in T
  BY <1>1
<1>. QED  BY <1>1, <1>2, SeqByPosition

LEMMA TypeInvImplies == TypeInv => TypeOK
<1>1. SUFFICES ASSUME TypeInv PROVE TypeOK
  OBVIOUS
<1>2. /\ alive \subseteq Recs
      /\ ops \in 0 .. MaxOps
  BY <1>1 DEF TypeInv, RowsOK
<1>3. ASSUME NEW s \in Sessions
      PROVE  /\ \A r \in Recs : \A f \in Fields : cache[s][r][f] = Absent \/ IsValue(f, cache[s][r][f])
             /\ \A r \in Recs : kids[s][r] = Absent \/ kids[s][r] \subseteq Recs
  <2>1. TypedView(ViewOf(s))
    BY <1>1 DEF TypeInv
  <2>2. ViewOf(s).row = row /\ ViewOf(s).cache = cache[s] /\ ViewOf(s).kids = kids[s]
    BY DEF ViewOf
  <2>. QED  BY <2>1, <2>2 DEF TypedView
<1>4. \A s \in Sessions : queue[s] \in Seq([field : Computes, ids : SUBSET Recs])
  <2>1. ASSUME NEW s \in Sessions
        PROVE  queue[s] \in Seq([field : Computes, ids : SUBSET Recs])
    <3>1. queue[s] \in Seq(Entries(alive))
      BY <1>1 DEF TypeInv
    <3>2. Entries(alive) \subseteq [field : Computes, ids : SUBSET Recs]
      BY <1>2 DEF Entries
    <3>. QED  BY <3>1, <3>2, SeqOfMore
  <2>. QED  BY <2>1
<1>5. \A s \in Sessions : seen[s] \in [Computes -> SUBSET Recs]
  BY <1>1 DEF TypeInv
<1>6. \A r \in Recs, f \in Columns : IsValue(f, row[r][f]) /\ (r \notin alive => row[r][f] = None)
  BY <1>1 DEF TypeInv, RowsOK, TypedRows
<1>. QED  BY <1>2, <1>3, <1>4, <1>5, <1>6 DEF TypeOK

LEMMA BoundIsNat == MaxOps \in Nat
BY SessionAssumption, Zenon

LEMMA TypedInit == Init => TypeInv
<1>1. SUFFICES ASSUME Init PROVE TypeInv
  OBVIOUS
<1>2. /\ alive \subseteq Recs
      /\ cache = [s \in Sessions |-> NoCache] /\ kids = [s \in Sessions |-> NoKids]
      /\ queue = [s \in Sessions |-> <<>>] /\ seen = [s \in Sessions |-> NothingSeen]
      /\ ops = 0
  BY <1>1 DEF Init
<1>3. PICK name \in [alive -> [Base -> Vals]], up \in [alive -> alive \cup {None}] :
        LET plain == [r \in Recs |->
                        IF r \notin alive THEN NoRow
                        ELSE [f \in Columns |-> IF f = Link THEN up[r]
                                                ELSE IF f \in Base THEN name[r][f] ELSE None]]
        IN  row = [r \in Recs |->
                     [f \in Columns |-> IF r \in alive /\ f \in Stored
                                        THEN Truth(plain)[f][r] ELSE plain[r][f]]]
  BY <1>1, Zenon DEF Init
<1> DEFINE plain == [r \in Recs |->
                      IF r \notin alive THEN NoRow
                      ELSE [f \in Columns |-> IF f = Link THEN up[r]
                                              ELSE IF f \in Base THEN name[r][f] ELSE None]]
           cell(r, f) == IF r \in alive /\ f \in Stored THEN Truth(plain)[f][r] ELSE plain[r][f]
<1>4. row = [r \in Recs |-> [f \in Columns |-> cell(r, f)]]
  BY <1>3
<1>5. /\ \A r \in Recs \ alive : \A f \in Columns : plain[r][f] = None
      /\ \A r \in alive : plain[r][Link] \in alive \cup {None}
      /\ TypedRows(plain)
  <2>1. \A r \in Recs \ alive : \A f \in Columns : plain[r][f] = None
    BY DEF NoRow
  <2>2. ASSUME NEW r \in alive
        PROVE  \A f \in Columns : plain[r][f] = IF f = Link THEN up[r]
                                                 ELSE IF f \in Base THEN name[r][f] ELSE None
    BY <1>2
  <2>3. ASSUME NEW r \in alive
        PROVE  plain[r][Link] \in alive \cup {None}
    BY <2>2, Schema
  <2>4. ASSUME NEW r \in Recs, NEW f \in Columns
        PROVE  IsValue(f, plain[r][f])
    <3>1. CASE r \notin alive
      BY <2>1, <3>1 DEF IsValue
    <3>2. CASE r \in alive /\ f = Link
      BY <1>2, <2>3, <3>2 DEF IsValue
    <3>3. CASE r \in alive /\ f # Link /\ f \in Base
      <4>1. plain[r][f] = name[r][f] /\ name[r][f] \in Vals
        BY <2>2, <3>3
      <4>. QED  BY <3>3, <4>1 DEF IsValue
    <3>4. CASE r \in alive /\ f # Link /\ f \notin Base
      <4>1. plain[r][f] = None
        BY <2>2, <3>4
      <4>. QED  BY <4>1 DEF IsValue
    <3>. QED  BY <3>1, <3>2, <3>3, <3>4
  <2> HIDE DEF plain
  <2>. QED  BY <2>1, <2>3, <2>4 DEF TypedRows
<1> HIDE DEF plain
<1>6. \A f \in Fields, r \in Recs : Truth(plain)[f][r] \subseteq Facts
  BY <1>5, TruthIsFacts
<1>7. \A f \in Stored : f \in Computes /\ f \in Fields /\ f # Link
  BY GraphAssumption DEF Computes, Fields, Columns
<1>8. \A r \in Recs, f \in Columns : row[r][f] = cell(r, f)
  <2> HIDE DEF cell
  <2>. QED  BY <1>4
<1>9. TypedRows(row)
  <2>1. ASSUME NEW r \in Recs, NEW f \in Columns
        PROVE  IsValue(f, cell(r, f))
    <3>1. CASE r \in alive /\ f \in Stored
      BY <1>6, <1>7, <3>1, FactsAreValue
    <3>2. CASE ~(r \in alive /\ f \in Stored)
      BY <1>5, <3>2 DEF TypedRows
    <3>. QED  BY <3>1, <3>2
  <2> HIDE DEF cell
  <2>. QED  BY <1>8, <2>1 DEF TypedRows
<1>10. RowsOK(row, alive)
  <2>1. \A r \in Recs : cell(r, Link) \in alive \cup {None}
    BY <1>5, <1>7, Schema
  <2>2. \A r \in Recs \ alive : \A f \in Columns : cell(r, f) = None
    BY <1>5
  <2> HIDE DEF cell
  <2>. QED  BY <1>2, <1>8, <2>1, <2>2, Schema DEF RowsOK
<1>11. row = [r \in Recs |-> [f \in Columns |-> row[r][f]]]
  <2> HIDE DEF cell
  <2>. QED  BY <1>4
<1>12. ASSUME NEW s \in Sessions
       PROVE  TypedView(ViewOf(s))
  <2> DEFINE v == ViewOf(s)
  <2>1. /\ v.row = row /\ v.cache = NoCache /\ v.kids = NoKids
        /\ v \in Viewing(v.row, v.cache, v.kids)
    BY <1>2 DEF ViewOf, Viewing
  <2> HIDE DEF v
  <2>2. ViewOK(v)
    BY <1>11, <2>1 DEF ViewOK, NoCache, NoKids
  <2>3. TypedView(v)
    BY <1>9, <2>1, <2>2 DEF TypedView, NoCache, NoKids
  <2>. QED  BY <2>3 DEF v
<1>13. /\ seen \in [Sessions -> [Computes -> SUBSET Recs]]
       /\ queue \in [Sessions -> Seq(Entries(alive))]
       /\ ops \in 0 .. MaxOps
  <2>1. NothingSeen \in [Computes -> SUBSET Recs]
    BY DEF NothingSeen
  <2>2. <<>> \in Seq(Entries(alive))
    OBVIOUS
  <2>3. seen \in [Sessions -> [Computes -> SUBSET Recs]]
    BY <1>2, <2>1
  <2>4. queue \in [Sessions -> Seq(Entries(alive))]
    <3> DEFINE Q == Seq(Entries(alive))
    <3>1. <<>> \in Q
      BY <2>2
    <3> HIDE DEF Q
    <3>2. queue \in [Sessions -> Q]
      BY <1>2, <3>1
    <3>. QED  BY <3>2 DEF Q
  <2>5. ops \in 0 .. MaxOps
    BY <1>2, BoundIsNat
  <2>. QED  BY <2>3, <2>4, <2>5
<1>. QED  BY <1>2, <1>9, <1>10, <1>12, <1>13 DEF TypeInv
-----------------------------------------------------------------------------
(* Steps. The one session's view becomes w.                                *)
LEMMA StepIsTyped ==
    ASSUME NEW s, Sessions = {s}, TypeInv, NEW w, TypedView(w), Becomes(s, w),
           RowsOK(w.row, alive'),
           seen' \in [Sessions -> [Computes -> SUBSET Recs]],
           queue' \in [Sessions -> Seq(Entries(alive'))],
           ops' \in 0 .. MaxOps
    PROVE  TypeInv'
<1>1. ViewOK(w) /\ s \in Sessions
  BY DEF TypedView
<1>2. row' = w.row /\ cache'[s] = w.cache /\ kids'[s] = w.kids
  BY <1>1 DEF Becomes, TypeInv
<1>3. cache' = [t \in Sessions |-> cache'[t]] /\ kids' = [t \in Sessions |-> kids'[t]]
  BY DEF Becomes, TypeInv
<1>4. ViewOf(s)' = w
  BY <1>1, <1>2 DEF ViewOf, ViewOK, Viewing
<1>5. \A t \in Sessions : TypedView(ViewOf(t))'
  BY <1>4, TypedView(w)
<1>6. TypedRows(row)'
  BY <1>2 DEF TypedView, TypedRows
<1>7. RowsOK(row, alive)'
  BY <1>2
<1>. QED  BY <1>3, <1>5, <1>6, <1>7 DEF TypeInv

LEMMA StartIsTyped ==
    ASSUME TypeInv, NEW s \in Sessions
    PROVE  /\ TypedView(ViewOf(s)) /\ ViewOf(s).row = row /\ ViewOf(s).cache = cache[s]
           /\ RowsOK(row, alive) /\ TypedRows(row)
           /\ queue[s] \in Seq(Entries(alive)) /\ seen[s] \in [Computes -> SUBSET Recs]
BY DEF TypeInv, ViewOf

(* Values passed in are of the kind of their columns, and name rows.       *)
LEMMA ValsAreTyped ==
    ASSUME NEW vals \in WriteVals \cup CreateVals
    PROVE  /\ \A f \in DOMAIN vals : IsValue(f, vals[f]) /\ f \in Columns
           /\ IsFiniteSet(DOMAIN vals)
           /\ \A f \in DOMAIN vals : f \notin Stored
<1>1. /\ DOMAIN vals \subseteq Base \cup {Link}
      /\ \A f \in DOMAIN vals : vals[f] \in IF f = Link THEN Recs \cup {None} ELSE Vals
  BY SessionAssumption
<1>2. IsFiniteSet(Base \cup {Link})
  BY GraphAssumption, FS_AddElement
<1>3. IsFiniteSet(DOMAIN vals)
  BY <1>1, <1>2, FS_Subset
<1>4. \A f \in DOMAIN vals : IsValue(f, vals[f]) /\ f \in Columns
  BY <1>1 DEF IsValue, Columns
<1>5. \A f \in DOMAIN vals : f \notin Stored
  BY <1>1, GraphAssumption DEF Computes
<1>. QED  BY <1>3, <1>4, <1>5

(* Links between rows that exist.                                          *)
LEMMA NotifiesRows ==
    ASSUME NEW rows, NEW live, RowsOK(rows, live), NEW n \in Nat, NEW fs, DOMAIN fs = 1..n,
           NEW ids \in SUBSET live
    PROVE  FanOut(Links(rows), fs, ids) \in Seq(Entries(live))
<1>1. \A r \in Recs : Links(rows)[r] = rows[r][Link]
  BY DEF Links
<1>2. \A r \in live : Links(rows)[r] \in live \cup {None}
  BY <1>1 DEF RowsOK
<1>3. \A r \in Recs : Links(rows)[r] \in live => r \in live
  BY <1>1, Schema DEF RowsOK
<1>. QED  BY <1>2, <1>3, FanOutIsTyped

(* Nothing but values in the cache changes.                                *)
LEMMA QuietIsTyped ==
    ASSUME NEW s, Sessions = {s}, TypeInv, NEW w, TypedView(w), w.row = row, Becomes(s, w),
           UNCHANGED <<alive, ops>>, Quiet
    PROVE  TypeInv'
<1>1. RowsOK(w.row, alive')
  BY DEF TypeInv
<1>2. /\ seen' \in [Sessions -> [Computes -> SUBSET Recs]]
      /\ queue' \in [Sessions -> Seq(Entries(alive'))]
      /\ ops' \in 0 .. MaxOps
  BY DEF TypeInv, Quiet
<1>. QED  BY <1>1, <1>2, StepIsTyped

LEMMA NewRequestIsTyped ==
    ASSUME NEW s, Sessions = {s}, TypeInv, NewRequest(s)
    PROVE  TypeInv'
<1> DEFINE w == [row |-> row, cache |-> NoCache, kids |-> NoKids]
<1>1. /\ w.row = row /\ w.cache = NoCache /\ w.kids = NoKids
      /\ w \in Viewing(w.row, w.cache, w.kids)
  BY DEF Viewing
<1>2. Becomes(s, w) /\ UNCHANGED <<alive, ops>> /\ Quiet
  BY DEF NewRequest, Becomes
<1> HIDE DEF w
<1>3. ViewOK(w)
  BY <1>1, StartIsTyped DEF TypedView, ViewOK, NoCache, NoKids
<1>4. TypedView(w)
  BY <1>1, <1>3, StartIsTyped DEF TypedView, NoCache, NoKids
<1>. QED  BY <1>1, <1>2, <1>4, QuietIsTyped

(* The count of operations, and a queue filled by a change.                *)
LEMMA NotifyIsTyped ==
    ASSUME NEW s, Sessions = {s}, TypeInv, Counted, NEW v, RowsOK(v.row, alive'),
           NEW n \in Nat, NEW fs, DOMAIN fs = 1..n, NEW ids \in SUBSET alive',
           Notify(s, v, fs, ids)
    PROVE  /\ seen' \in [Sessions -> [Computes -> SUBSET Recs]]
           /\ queue' \in [Sessions -> Seq(Entries(alive'))]
           /\ ops' \in 0 .. MaxOps
<1>1. NothingSeen \in [Computes -> SUBSET Recs]
  BY DEF NothingSeen
<1>2. seen' \in [Sessions -> [Computes -> SUBSET Recs]]
  BY <1>1 DEF Notify, TypeInv
<1>3. FanOut(Links(v.row), fs, ids) \in Seq(Entries(alive'))
  BY NotifiesRows
<1>4. queue' = [t \in Sessions |-> FanOut(Links(v.row), fs, ids)]
  BY DEF Notify, TypeInv
<1>5. queue' \in [Sessions -> Seq(Entries(alive'))]
  <2> DEFINE Q == Seq(Entries(alive'))
             q == FanOut(Links(v.row), fs, ids)
  <2>1. q \in Q /\ queue' = [t \in Sessions |-> q]
    BY <1>3, <1>4
  <2> HIDE DEF Q, q
  <2>2. queue' \in [Sessions -> Q]
    BY <2>1
  <2>. QED  BY <2>2 DEF Q
<1>6. ops' \in 0 .. MaxOps
  BY BoundIsNat DEF Counted, TypeInv
<1>. QED  BY <1>2, <1>5, <1>6

LEMMA ChangedIsSeq ==
    ASSUME NEW vals \in WriteVals \cup CreateVals, NEW changed \in SetToSeqs(DOMAIN vals)
    PROVE  \E n \in Nat : DOMAIN changed = 1..n /\ changed \in Seq(Columns)
<1>1. changed \in [1..Cardinality(DOMAIN vals) -> DOMAIN vals]
  BY DEF SetToSeqs
<1>2. Cardinality(DOMAIN vals) \in Nat
  BY ValsAreTyped, FS_CardinalityType
<1>3. changed \in [1..Cardinality(DOMAIN vals) -> Columns]
  BY <1>1, ValsAreTyped
<1>. QED  BY <1>2, <1>3

LEMMA WriteIsTyped ==
    ASSUME NEW s, Sessions = {s}, TypeInv, NEW ids, NEW vals \in WriteVals, Write(s, ids, vals)
    PROVE  TypeInv'
<1> DEFINE v == ViewOf(s)
           old == IF Link \in DOMAIN vals THEN {LinkIn(v, r) : r \in ids} \ {None} ELSE {}
           a == Assign(v, ids, vals)
           w == ForgetKids(a, old \cup Parent(vals))
<1>1. TypedView(v) /\ v.row = row /\ RowsOK(row, alive)
  BY StartIsTyped
<1>2. /\ ids \subseteq alive /\ Parent(vals) \subseteq alive /\ alive' = alive
      /\ Becomes(s, w) /\ Counted
      /\ \E changed \in SetToSeqs(DOMAIN vals) : Notify(s, w, changed, ids)
  BY DEF Write
<1> HIDE DEF v, old
<1>3. /\ TypedView(a)
      /\ \A r \in Recs : \A f \in Columns :
           a.row[r][f] = IF r \in ids /\ f \in DOMAIN vals THEN vals[f] ELSE v.row[r][f]
  BY <1>1, ValsAreTyped, AssignIsTyped
<1> HIDE DEF a
<1>4. TypedView(w) /\ w.row = a.row
  BY <1>3, ForgetIsTyped
<1> HIDE DEF w
<1>5. Link \in DOMAIN vals => vals[Link] \in alive \cup {None}
  BY <1>2 DEF Parent
<1>6. RowsOK(w.row, alive')
  BY <1>1, <1>2, <1>3, <1>4, <1>5, Schema DEF RowsOK
<1>7. PICK changed \in SetToSeqs(DOMAIN vals) : Notify(s, w, changed, ids)
  BY <1>2
<1>8. PICK n \in Nat : DOMAIN changed = 1..n
  BY ChangedIsSeq
<1>9. /\ seen' \in [Sessions -> [Computes -> SUBSET Recs]]
      /\ queue' \in [Sessions -> Seq(Entries(alive'))]
      /\ ops' \in 0 .. MaxOps
  BY <1>2, <1>6, <1>7, <1>8, NotifyIsTyped
<1>. QED  BY <1>2, <1>4, <1>6, <1>9, StepIsTyped
-----------------------------------------------------------------------------
(* The fold from one position to the next.                                 *)
InTurn(g, v, q, r) ==
    /\ g[1..0] = v
    /\ \A k \in Nat : k + 1 <= Len(q) => g[1..(k + 1)] = ComputeField(g[1..k], q[k + 1], {r})

LEMMA FoldingSteps ==
    ASSUME NEW S, NEW q \in Seq(S), NEW v, NEW r
    PROVE  InTurn(Folding(v, q, r), v, q, r) /\ ComputeAll(v, q, r) = Folding(v, q, r)[1..Len(q)]
<1>1. Len(q) \in Nat /\ DOMAIN q = 1..Len(q)
  BY LenProperties
<1>2. PICK g : g = Folding(v, q, r)
  OBVIOUS
<1>3. \A s \in SUBSET DOMAIN q : g[s] = Body(g, v, q, r, s)
  BY <1>2, FoldingIs
<1>4. ComputeAll(v, q, r) = g[1..Len(q)]
  BY <1>1, <1>2, ComputeAllIsFolding
<1>5. g[1..0] = v
  <2>1. 1..0 = {} /\ 1..0 \in SUBSET DOMAIN q
    OBVIOUS
  <2>. QED  BY <1>3, <2>1 DEF Body
<1>6. ASSUME NEW k \in Nat, k + 1 <= Len(q)
      PROVE  g[1..(k + 1)] = ComputeField(g[1..k], q[k + 1], {r})
  <2>1. k + 1 \in Nat /\ k + 1 # 0 /\ k + 1 \in 1..(k + 1) /\ 1..(k + 1) \subseteq 1..Len(q)
    BY <1>1, <1>6
  <2>2. Max(1..(k + 1)) = k + 1 /\ (1..(k + 1)) \ {k + 1} = 1..k
    BY <2>1, MaxOfFirst
  <2>3. 1..(k + 1) \in SUBSET DOMAIN q /\ 1..(k + 1) # {}
    BY <1>1, <2>1
  <2>. QED  BY <1>3, <2>2, <2>3 DEF Body
<1>7. \A k \in Nat : k + 1 <= Len(q) => g[1..(k + 1)] = ComputeField(g[1..k], q[k + 1], {r})
  BY <1>6
<1>8. InTurn(g, v, q, r)
  BY <1>5, <1>7 DEF InTurn
<1>. QED  BY <1>4, <1>2, <1>8

LEMMA ComputeAllIsTyped ==
    ASSUME NEW q \in Seq(Stored), NEW v, TypedView(v), NEW r
    PROVE  /\ TypedView(ComputeAll(v, q, r))
           /\ \A x \in Recs : \A f \in Columns :
                x # r \/ f = Link => ComputeAll(v, q, r).row[x][f] = v.row[x][f]
<1> DEFINE g == Folding(v, q, r)
           Right(w) == TypedView(w) /\ \A x \in Recs : \A f \in Columns :
                         x # r \/ f = Link => w.row[x][f] = v.row[x][f]
           T == {k \in Nat : k <= Len(q) => Right(g[1..k])}
<1>1. Len(q) \in Nat /\ \A k \in 1..Len(q) : q[k] \in Stored
  BY LenProperties, ElementOfSeq
<1>2. \A f \in Stored : f # Link
  BY GraphAssumption DEF Computes
<1>3. InTurn(g, v, q, r) /\ ComputeAll(v, q, r) = g[1..Len(q)]
  BY FoldingSteps
<1> HIDE DEF g
<1>4. /\ g[1..0] = v /\ ComputeAll(v, q, r) = g[1..Len(q)]
      /\ \A k \in Nat : k + 1 <= Len(q) =>
           g[1..(k + 1)] = ComputeField(g[1..k], q[k + 1], {r})
  BY <1>3 DEF InTurn
<1>5. 0 \in T
  BY <1>4
<1>6. ASSUME NEW k \in Nat, k \in T
      PROVE  k + 1 \in T
  <2>1. SUFFICES ASSUME k + 1 <= Len(q)
                 PROVE  Right(g[1..(k + 1)])
    OBVIOUS
  <2>2. Right(g[1..k])
    BY <1>1, <1>6, <2>1
  <2>3. q[k + 1] \in Stored /\ q[k + 1] # Link
    BY <1>1, <1>2, <2>1
  <2> DEFINE w == g[1..k]
             f == q[k + 1]
             y == ComputeField(w, f, {r})
  <2>4. g[1..(k + 1)] = y
    BY <1>4, <2>1
  <2>5. TypedView(w) /\ f \in Stored
    BY <2>2, <2>3
  <2> HIDE DEF w, f
  <2>6. /\ TypedView(y)
        /\ \A x \in Recs, c \in Columns : x \notin {r} \/ c # f => y.row[x][c] = w.row[x][c]
    BY <2>5, ComputeIsTyped
  <2> HIDE DEF y
  <2>7. \A x \in Recs : \A c \in Columns : x # r \/ c = Link => y.row[x][c] = v.row[x][c]
    BY <2>2, <2>3, <2>6 DEF w, f
  <2>. QED  BY <2>4, <2>6, <2>7
<1>7. Len(q) \in T
  <2> HIDE DEF T
  <2>. QED  BY <1>1, <1>5, <1>6, NatSet
<1>. QED  BY <1>1, <1>4, <1>7

LEMMA CreateIsTyped ==
    ASSUME NEW s, Sessions = {s}, TypeInv, NEW r \in Recs, NEW vals \in CreateVals, Create(s, r, vals)
    PROVE  TypeInv'
<1> DEFINE u == ViewOf(s)
           a == Assign(u, {r}, vals)
           v == ForgetKids(a, Parent(vals))
           w == ComputeAll(v, StoredOrder, r)
<1>1. TypedView(u) /\ u.row = row /\ RowsOK(row, alive)
  BY StartIsTyped
<1>2. /\ r \notin alive /\ Parent(vals) \subseteq alive /\ alive' = alive \cup {r}
      /\ Becomes(s, w) /\ Counted
      /\ \E changed \in SetToSeqs(DOMAIN vals) : Notify(s, w, changed \o StoredOrder, {r})
  BY DEF Create, ComputeAll
<1> HIDE DEF u
<1>3. /\ TypedView(a)
      /\ \A x \in Recs : \A f \in Columns :
           a.row[x][f] = IF x \in {r} /\ f \in DOMAIN vals THEN vals[f] ELSE u.row[x][f]
  BY <1>1, ValsAreTyped, AssignIsTyped
<1> HIDE DEF a
<1>4. TypedView(v) /\ v.row = a.row
  BY <1>3, ForgetIsTyped
<1> HIDE DEF v
<1>5. /\ TypedView(w)
      /\ \A x \in Recs : \A f \in Columns : x # r \/ f = Link => w.row[x][f] = v.row[x][f]
  BY <1>4, OrderIsOfStored, ComputeAllIsTyped
<1> HIDE DEF w
<1>6. Link \in DOMAIN vals => vals[Link] \in alive \cup {None}
  BY <1>2 DEF Parent
<1>7. RowsOK(w.row, alive')
  <2>1. ASSUME NEW x \in Recs
        PROVE  w.row[x][Link] \in alive \cup {None}
    BY <1>1, <1>3, <1>4, <1>5, <1>6, Schema DEF RowsOK
  <2>2. ASSUME NEW x \in Recs \ alive', NEW f \in Columns
        PROVE  w.row[x][f] = None
    <3>1. x # r /\ x \in Recs \ alive
      BY <1>2
    <3>. QED  BY <1>1, <1>3, <1>4, <1>5, <3>1 DEF RowsOK
  <2>. QED  BY <1>1, <1>2, <2>1, <2>2 DEF RowsOK
<1>8. PICK changed \in SetToSeqs(DOMAIN vals) : Notify(s, w, changed \o StoredOrder, {r})
  BY <1>2
<1>9. changed \in Seq(Columns)
  BY ChangedIsSeq
<1>10. StoredOrder \in Seq(Columns)
  <2>1. Stored \subseteq Columns
    BY DEF Columns
  <2>. QED  BY <2>1, OrderIsOfStored, SeqOfMore
<1> DEFINE fs == changed \o StoredOrder
<1>11. fs \in Seq(Columns)
  BY <1>9, <1>10, ConcatProperties
<1>12. Notify(s, w, fs, {r})
  BY <1>8
<1> HIDE DEF fs
<1>13. Len(fs) \in Nat /\ DOMAIN fs = 1..Len(fs)
  BY <1>11, LenProperties
<1>14. {r} \in SUBSET alive'
  BY <1>2
<1>15. /\ seen' \in [Sessions -> [Computes -> SUBSET Recs]]
       /\ queue' \in [Sessions -> Seq(Entries(alive'))]
       /\ ops' \in 0 .. MaxOps
  BY <1>2, <1>7, <1>12, <1>13, <1>14, NotifyIsTyped
<1>. QED  BY <1>2, <1>5, <1>7, <1>15, StepIsTyped

LEMMA UnlinkIsTyped ==
    ASSUME NEW s, Sessions = {s}, TypeInv, NEW ids, Unlink(s, ids)
    PROVE  TypeInv'
<1> DEFINE u == ViewOf(s)
           refs == Referrers(ids)
           gone == Doomed(ids)
           v == ForgetFrom(u, ids)
           w == IF OnDelete = "RESTRICT" THEN v ELSE ForgetFrom(v, refs)
           x == CASE OnDelete = "SET NULL" -> Assign(w, refs, NoLink)
                  [] OnDelete = "CASCADE" -> ForgetRows(w, refs)
                  [] OTHER -> w
           rows == [r \in Recs |->
                      IF r \in gone THEN NoRow
                      ELSE IF row[r][Link] \in gone THEN [row[r] EXCEPT ![Link] = None]
                      ELSE row[r]]
           y == ForgetRows(x, ids)
           z == [y EXCEPT !.row = rows]
<1>1. TypedView(u) /\ u.row = row /\ RowsOK(row, alive) /\ TypedRows(row)
  BY StartIsTyped
<1>2. alive' = alive \ gone /\ Becomes(s, z) /\ Idle(s) /\ Counted /\ Quiet
  BY DEF Unlink, NoLink
<1>3. TypedView(v)
  BY <1>1, ForgetIsTyped DEF ForgetFrom
<1> HIDE DEF u, v
<1>4. TypedView(w)
  BY <1>3, ForgetIsTyped DEF ForgetFrom
<1>5. \A f \in DOMAIN NoLink : IsValue(f, NoLink[f])
  BY DEF NoLink, IsValue
<1> HIDE DEF w, refs
<1>6. TypedView(x)
  <2>1. TypedView(Assign(w, refs, NoLink))
    BY <1>4, <1>5, AssignIsTyped
  <2>2. TypedView(ForgetRows(w, refs))
    BY <1>4, ForgetIsTyped
  <2>. QED  BY <1>4, <2>1, <2>2
<1> HIDE DEF x
<1>7. TypedView(y)
  BY <1>6, ForgetIsTyped
<1> HIDE DEF y, gone
<1>8. row = [r \in Recs |-> [f \in Columns |-> row[r][f]]]
  BY <1>1 DEF TypedView, ViewOK
<1>9. ASSUME NEW r \in Recs
      PROVE  /\ rows[r] = [f \in Columns |-> rows[r][f]]
             /\ \A f \in Columns :
                  rows[r][f] = IF r \in gone \/ (f = Link /\ row[r][Link] \in gone) THEN None ELSE row[r][f]
  <2>1. row[r] = [f \in Columns |-> row[r][f]]
    BY <1>8
  <2>. QED  BY <2>1 DEF NoRow
<1>10. rows = [r \in Recs |-> [f \in Columns |-> rows[r][f]]]
  <2>1. rows = [r \in Recs |-> rows[r]]
    OBVIOUS
  <2> HIDE DEF rows
  <2>. QED  BY <1>9, <2>1
<1> HIDE DEF rows
<1>11. TypedRows(rows)
  BY <1>1, <1>9 DEF TypedRows, IsValue
<1>12. RowsOK(rows, alive')
  <2>1. ASSUME NEW r \in Recs
        PROVE  rows[r][Link] \in (alive \ gone) \cup {None}
    <3>1. row[r][Link] \in alive \cup {None}
      BY <1>1 DEF RowsOK
    <3>. QED  BY <1>9, <3>1, Schema
  <2>2. ASSUME NEW r \in Recs \ (alive \ gone), NEW f \in Columns
        PROVE  rows[r][f] = None
    <3>1. r \notin gone => row[r][f] = None
      BY <1>1 DEF RowsOK
    <3>. QED  BY <1>9, <3>1
  <2>. QED  BY <1>1, <1>2, <2>1, <2>2 DEF RowsOK
<1>13. z \in Viewing(rows, y.cache, y.kids)
  BY <1>7 DEF TypedView, ViewOK, Viewing
<1> HIDE DEF z
<1>14. z.row = rows /\ z.cache = y.cache /\ z.kids = y.kids /\ z \in Viewing(z.row, z.cache, z.kids)
  BY <1>13, ViewParts
<1>15. ViewOK(z)
  BY <1>7, <1>10, <1>14 DEF TypedView, ViewOK
<1>16. TypedView(z)
  BY <1>7, <1>11, <1>14, <1>15 DEF TypedView
<1>17. queue' \in [Sessions -> Seq(Entries(alive'))]
  <2> DEFINE Q == Seq(Entries(alive'))
  <2>1. <<>> \in Q
    OBVIOUS
  <2> HIDE DEF Q
  <2>2. queue' = [t \in Sessions |-> <<>>]
    BY <1>2 DEF Quiet, Idle, TypeInv
  <2>3. queue' \in [Sessions -> Q]
    BY <2>1, <2>2
  <2>. QED  BY <2>3 DEF Q
<1>18. seen' \in [Sessions -> [Computes -> SUBSET Recs]] /\ ops' \in 0 .. MaxOps
  BY <1>2, BoundIsNat DEF Quiet, Counted, TypeInv
<1>. QED  BY <1>2, <1>12, <1>14, <1>16, <1>17, <1>18, StepIsTyped

LEMMA PropagateIsTyped ==
    ASSUME NEW s, Sessions = {s}, TypeInv, Propagate(s)
    PROVE  TypeInv'
<1> DEFINE e == Head(queue[s])
           fresh == e.ids \ seen[s][e.field]
           u == ViewOf(s)
           v == Forget(u, fresh, {e.field})
           w == IF e.field \in Stored THEN ComputeField(v, e.field, fresh) ELSE v
           new == FanOut(Links(row), <<e.field>>, fresh)
           rest == Tail(queue[s]) \o new
           visited == [seen[s] EXCEPT ![e.field] = @ \cup fresh]
<1>1. /\ TypedView(u) /\ u.row = row /\ RowsOK(row, alive)
      /\ queue[s] \in Seq(Entries(alive)) /\ seen[s] \in [Computes -> SUBSET Recs]
  BY StartIsTyped
<1>2. /\ queue[s] # <<>> /\ Becomes(s, w) /\ alive' = alive /\ ops' = ops
      /\ queue' = [queue EXCEPT ![s] = rest]
      /\ seen' = [seen EXCEPT ![s] = IF rest = <<>> THEN NothingSeen ELSE visited]
  BY DEF Propagate, Idle
<1>3. e \in Entries(alive) /\ Tail(queue[s]) \in Seq(Entries(alive))
  BY <1>1, <1>2, HeadTailProperties
<1> HIDE DEF e
<1>4. e.field \in Computes /\ fresh \subseteq alive /\ fresh \subseteq Recs
  BY <1>1, <1>3 DEF Entries, RowsOK
<1> HIDE DEF fresh, u
<1>5. TypedView(v) /\ v.row = row
  BY <1>1, ForgetIsTyped
<1> HIDE DEF v
<1>6. /\ TypedView(w)
      /\ \A r \in Recs, f \in Columns : r \notin fresh \/ f # e.field \/ f \notin Stored =>
           w.row[r][f] = row[r][f]
  <2>1. CASE e.field \in Stored
    <3> DEFINE x == ComputeField(v, e.field, fresh)
    <3>1. /\ TypedView(x)
          /\ \A r \in Recs, f \in Columns : r \notin fresh \/ f # e.field => x.row[r][f] = v.row[r][f]
      BY <1>5, <2>1, ComputeIsTyped
    <3>2. w = x
      BY <2>1
    <3> HIDE DEF x, w
    <3>. QED  BY <1>5, <2>1, <3>1, <3>2
  <2>2. CASE e.field \notin Stored
    BY <1>5, <2>2
  <2>. QED  BY <2>1, <2>2
<1> HIDE DEF w
<1>7. Link \notin Stored
  BY GraphAssumption DEF Computes
<1>8. RowsOK(w.row, alive')
  <2>1. \A r \in Recs : w.row[r][Link] = row[r][Link]
    BY <1>6, <1>7, Schema
  <2>2. \A r \in Recs \ alive : \A f \in Columns : w.row[r][f] = row[r][f]
    BY <1>4, <1>6
  <2>. QED  BY <1>1, <1>2, <2>1, <2>2 DEF RowsOK
<1>9. new \in Seq(Entries(alive))
  <2>1. DOMAIN <<e.field>> = 1..1
    OBVIOUS
  <2> DEFINE fs == <<e.field>>
  <2> HIDE DEF fs
  <2>2. FanOut(Links(row), fs, fresh) \in Seq(Entries(alive))
    BY <1>1, <1>4, <2>1, NotifiesRows DEF fs
  <2>. QED  BY <2>2 DEF fs
<1> HIDE DEF new
<1>10. rest \in Seq(Entries(alive))
  BY <1>3, <1>9, ConcatProperties
<1> HIDE DEF rest
<1>11. queue' \in [Sessions -> Seq(Entries(alive'))]
  BY <1>2, <1>10 DEF TypeInv
<1>12. seen' \in [Sessions -> [Computes -> SUBSET Recs]]
  <2>1. NothingSeen \in [Computes -> SUBSET Recs]
    BY DEF NothingSeen
  <2>2. CASE rest = <<>>
    <3>1. seen' = [seen EXCEPT ![s] = NothingSeen]
      BY <1>2, <2>2
    <3>. QED  BY <2>1, <3>1 DEF TypeInv
  <2>3. CASE rest # <<>>
    <3>1. visited \in [Computes -> SUBSET Recs]
      BY <1>1, <1>4
    <3>2. seen' = [seen EXCEPT ![s] = visited]
      BY <1>2, <2>3
    <3> HIDE DEF visited
    <3>. QED  BY <3>1, <3>2 DEF TypeInv
  <2>. QED  BY <2>2, <2>3
<1>13. ops' \in 0 .. MaxOps
  BY <1>2 DEF TypeInv
<1>. QED  BY <1>2, <1>6, <1>8, <1>11, <1>12, <1>13, StepIsTyped

LEMMA TypedNext ==
    ASSUME NEW s, Sessions = {s}, TypeInv, [Next]_vars
    PROVE  TypeInv'
<1>1. CASE UNCHANGED vars
  BY <1>1 DEF vars, TypeInv, ViewOf
<1>2. ASSUME NEW r \in Recs, ReadKids(s, r)
      PROVE  TypeInv'
  <2> DEFINE w == Load(ViewOf(s), {<<r>>})
  <2>1. Becomes(s, w) /\ UNCHANGED <<alive, ops>> /\ Quiet
    BY <1>2 DEF ReadKids
  <2>2. TypedView(w) /\ w.row = row
    BY StartIsTyped, LoadIsTyped
  <2> HIDE DEF w
  <2>. QED  BY <2>1, <2>2, QuietIsTyped
<1>3. ASSUME NEW r \in Recs, NEW f \in Reads, ReadField(s, r, f)
      PROVE  TypeInv'
  <2> DEFINE cells == Loads(ViewOf(s))[f][r]
             w == Load(ViewOf(s), cells)
  <2>1. Becomes(s, w) /\ UNCHANGED <<alive, ops>> /\ Quiet
    BY <1>3 DEF ReadField
  <2> HIDE DEF cells
  <2>2. TypedView(w) /\ w.row = row
    BY StartIsTyped, LoadIsTyped
  <2> HIDE DEF w
  <2>. QED  BY <2>1, <2>2, QuietIsTyped
<1>4. CASE NewRequest(s)
  BY <1>4, NewRequestIsTyped
<1>5. ASSUME NEW ids \in SUBSET Recs, Unlink(s, ids)
      PROVE  TypeInv'
  BY <1>5, UnlinkIsTyped
<1>6. ASSUME NEW ids \in SUBSET Recs, NEW vals \in WriteVals, Write(s, ids, vals)
      PROVE  TypeInv'
  BY <1>6, WriteIsTyped
<1>7. ASSUME NEW r \in Recs, NEW vals \in CreateVals, Create(s, r, vals)
      PROVE  TypeInv'
  BY <1>7, CreateIsTyped
<1>8. CASE Propagate(s)
  BY <1>8, PropagateIsTyped
<1>. QED  BY <1>1, <1>2, <1>3, <1>4, <1>5, <1>6, <1>7, <1>8 DEF Next

(* TypeOK: while one request at a time is served, for any schema without   *)
(* cycles and any ondelete, computed columns and cells hold facts, rows    *)
(* that do not exist stay empty, and the queue holds sets of rows.         *)
THEOREM ComputeTypeCorrect ==
    ASSUME NEW CONSTANT s, Sessions = {s}
    PROVE  Spec => []TypeOK
<1>1. TypeInv /\ [Next]_vars => TypeInv'
  BY TypedNext
<1>. QED  BY <1>1, TypedInit, TypeInvImplies, PTL DEF Spec
=============================================================================
