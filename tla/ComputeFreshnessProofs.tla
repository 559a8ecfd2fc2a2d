----------------------- MODULE ComputeFreshnessProofs -----------------------
(***************************************************************************)
(* Proofs about ComputePropagation: that a propagation serves every field  *)
(* it should. Between operations the stored columns and what is cached of  *)
(* the others are right, and half way the queue still leads to whatever is *)
(* not, for any classes and calls that are Orderly and any number of rows, *)
(* values and operations of one session.                                   *)
(***************************************************************************)
EXTENDS ComputePropagationProofs
-----------------------------------------------------------------------------
(* Walks there and back.                                                   *)

(* The view of someone who has read nothing yet.                           *)
Cold(rows) == [row |-> rows, cache |-> NoCache, kids |-> NoKids]
Points(rows) == \A r \in Recs : rows[r][Link] \in Recs \cup {None}

(* It sees the links and the tuples as the rows have them.                 *)
LEMMA ColdReads ==
    ASSUME NEW rows, Points(rows)
    PROVE  /\ \A r \in Recs : /\ LinkIn(Cold(rows), r) = rows[r][Link]
                              /\ KidsIn(Cold(rows), r) = ChildrenOf(rows, r)
           /\ Linked(Cold(rows))
<1>1. Cold(rows).row = rows /\ Cold(rows).cache = NoCache /\ Cold(rows).kids = NoKids
  BY DEF Cold
<1>2. \A r \in Recs : /\ LinkIn(Cold(rows), r) = rows[r][Link]
                      /\ KidsIn(Cold(rows), r) = ChildrenOf(rows, r)
  BY <1>1, Schema DEF LinkIn, KidsIn, NoCache, NoKids
<1>. QED  BY <1>2 DEF Linked, Points, ChildrenOf

HopFrom(v, h, X) == IF h = "m2o" THEN {LinkIn(v, x) : x \in X} \ {None}
                    ELSE UNION {KidsIn(v, x) : x \in X}

(* A walk goes hop by hop.                                                 *)
LEMMA WalkSteps ==
    ASSUME NEW v, Linked(v), NEW p, p.hops \in Seq(Hops), NEW r \in Recs
    PROVE  /\ Len(p.hops) \in Nat
           /\ Walk(v, p, r)[0] = {r}
           /\ \A i \in 1..Len(p.hops) : Walk(v, p, r)[i] = HopFrom(v, p.hops[i], Walk(v, p, r)[i - 1])
           /\ \A i \in 0..Len(p.hops) : Walk(v, p, r)[i] \subseteq Recs
<1> DEFINE n == Len(p.hops)
           Hop(i, X) == HopFrom(v, p.hops[i], X)
           Right(at) == at = [i \in 0..n |-> IF i = 0 THEN {r} ELSE Hop(i, at[i - 1])]
           next == [i \in 1..n |-> [X \in SUBSET Recs |-> Hop(i, X)]]
<1>1. n \in Nat
  BY LenProperties
<1>2. \A i \in 1..n : \A X \in SUBSET Recs : Hop(i, X) \in SUBSET Recs
  BY DEF HopFrom, Linked
<1>3. next \in [1..n -> [SUBSET Recs -> SUBSET Recs]]
  <2> HIDE DEF Hop
  <2>. QED  BY <1>2
<1>4. Walk(v, p, r) = CHOOSE at : Right(at)
  BY DEF Walk, HopFrom
<1> HIDE DEF n
<1>5. PICK g : IsChain(SUBSET Recs, n, {r}, next, g)
  <2> HIDE DEF next
  <2>1. {r} \in SUBSET Recs
    OBVIOUS
  <2>. QED  BY <1>1, <1>3, <2>1, Chain
<1> HIDE DEF Hop
<1>6. Right(g)
  <2>1. /\ g \in [0..n -> SUBSET Recs] /\ g[0] = {r}
        /\ \A i \in 1..n : g[i] = Hop(i, g[i - 1])
    <3>1. /\ g \in [0..n -> SUBSET Recs] /\ g[0] = {r}
          /\ \A i \in 1..n : g[i] = next[i][g[i - 1]]
      BY <1>5 DEF IsChain
    <3>2. ASSUME NEW i \in 1..n
          PROVE  next[i][g[i - 1]] = Hop(i, g[i - 1])
      <4>1. i - 1 \in 0..n
        BY <1>1
      <4>2. g[i - 1] \in SUBSET Recs
        BY <3>1, <4>1
      <4>. QED  BY <4>2
    <3>. QED  BY <3>1, <3>2
  <2>2. ASSUME NEW i \in 0..n
        PROVE  g[i] = IF i = 0 THEN {r} ELSE Hop(i, g[i - 1])
    <3>1. CASE i = 0
      BY <2>1, <3>1
    <3>2. CASE i # 0
      <4>1. i \in 1..n /\ i - 1 \in 0..n
        BY <1>1, <3>2
      <4>. QED  BY <2>1, <3>2, <4>1
    <3>. QED  BY <3>1, <3>2
  <2>. QED  BY <2>2, <2>1
<1> HIDE DEF Right
<1>7. Right(Walk(v, p, r))
  BY <1>4, <1>6
<1> DEFINE w == Walk(v, p, r)
<1> HIDE DEF w
<1>8. w[0] = {r} /\ \A i \in 1..n : w[i] = Hop(i, w[i - 1])
  <2>1. w = [i \in 0..n |-> IF i = 0 THEN {r} ELSE Hop(i, w[i - 1])]
    BY <1>7 DEF Right, w
  <2>2. \A i \in 0..n : w[i] = IF i = 0 THEN {r} ELSE Hop(i, w[i - 1])
    BY <2>1
  <2>3. 0 \in 0..n /\ \A i \in 1..n : i \in 0..n /\ i # 0
    BY <1>1
  <2>. QED  BY <2>2, <2>3
<1>9. \A i \in 0..n : w[i] \in SUBSET Recs
  <2>1. w[0] \in SUBSET Recs
    BY <1>8
  <2>2. \A i \in 1..n : w[i - 1] \in SUBSET Recs => w[i] \in SUBSET Recs
    BY <1>2, <1>8
  <2>. QED  BY <1>1, <2>1, <2>2, Along
<1>. QED  BY <1>1, <1>8, <1>9 DEF w, n, Hop

(* Whoever sees the same links and tuples walks to the same records.       *)
LEMMA WalksAgree ==
    ASSUME NEW v, Linked(v), NEW w, NEW p, p.hops \in Seq(Hops), NEW r \in Recs,
           \A x \in Recs : LinkIn(w, x) = LinkIn(v, x) /\ KidsIn(w, x) = KidsIn(v, x)
    PROVE  /\ \A i \in 0..Len(p.hops) : Walk(w, p, r)[i] = Walk(v, p, r)[i]
           /\ Reach(w, p, r) = Reach(v, p, r) /\ Reach(v, p, r) \subseteq Recs
<1> DEFINE n == Len(p.hops)
           a == Walk(v, p, r)
           b == Walk(w, p, r)
           T == {i \in Nat : i <= n => b[i] = a[i]}
<1>1. Linked(w)
  BY DEF Linked
<1>2. /\ n \in Nat /\ a[0] = {r} /\ b[0] = {r}
      /\ \A i \in 1..n : a[i] = HopFrom(v, p.hops[i], a[i - 1])
      /\ \A i \in 1..n : b[i] = HopFrom(w, p.hops[i], b[i - 1])
      /\ \A i \in 0..n : a[i] \subseteq Recs
  <2>1. /\ n \in Nat /\ a[0] = {r}
        /\ \A i \in 1..n : a[i] = HopFrom(v, p.hops[i], a[i - 1])
        /\ \A i \in 0..n : a[i] \subseteq Recs
    BY WalkSteps
  <2>2. b[0] = {r} /\ \A i \in 1..n : b[i] = HopFrom(w, p.hops[i], b[i - 1])
    BY <1>1, WalkSteps
  <2>. QED  BY <2>1, <2>2
<1> HIDE DEF a, b, n
<1>3. 0 \in T
  BY <1>2
<1>4. ASSUME NEW i \in Nat, i \in T
      PROVE  i + 1 \in T
  <2>1. SUFFICES ASSUME i + 1 <= n PROVE b[i + 1] = a[i + 1]
    OBVIOUS
  <2>2. i + 1 \in 1..n /\ (i + 1) - 1 = i /\ i \in 0..n /\ b[i] = a[i]
    BY <1>2, <1>4, <2>1
  <2>3. HopFrom(w, p.hops[i + 1], a[i]) = HopFrom(v, p.hops[i + 1], a[i])
    <3>1. \A x \in a[i] : LinkIn(w, x) = LinkIn(v, x) /\ KidsIn(w, x) = KidsIn(v, x)
      BY <1>2, <2>2
    <3>. QED  BY <3>1 DEF HopFrom
  <2>. QED  BY <1>2, <2>2, <2>3
<1>5. Nat \subseteq T
  <2> HIDE DEF T
  <2>. QED  BY <1>3, <1>4, NatSet
<1>6. \A i \in 0..n : b[i] = a[i]
  BY <1>5
<1>7. b[n] = a[n] /\ a[n] \subseteq Recs
  BY <1>2, <1>6
<1>. QED  BY <1>6, <1>7 DEF a, b, n, Reach

(* Where the walk back of an edge starts, and its steps, last hop first.   *)
StartOf(link, e, ids) == IF e.start = "o2m" THEN Back(link, "o2m", ids) ELSE ids
WalksBack(link, e, ids, g) ==
    /\ Len(e.back) \in Nat
    /\ g[0] = StartOf(link, e, ids)
    /\ \A i \in 1..Len(e.back) : g[i] = Back(link, e.back[Len(e.back) - i + 1], g[i - 1])
    /\ FindSourceIds(link, e, ids) = g[Len(e.back)]

(* FindSourceIds goes back hop by hop.                                     *)
LEMMA BackSteps ==
    ASSUME NEW link, \A r \in Recs : link[r] \in Recs \cup {None},
           NEW e, e.back \in Seq(Hops), NEW ids \in SUBSET Recs
    PROVE  \E g : WalksBack(link, e, ids, g)
<1> DEFINE n == Len(e.back)
           first == StartOf(link, e, ids)
           Right(from) == from = [i \in 0..n |-> IF i = n THEN first
                                                 ELSE Back(link, e.back[i + 1], from[i + 1])]
           D == SUBSET Recs
           next == [i \in 1..n |-> [X \in D |-> Back(link, e.back[n - i + 1], X)]]
<1>1. n \in Nat
  BY LenProperties
<1>2. \A h : \A X \in D : Back(link, h, X) \in D
  BY DEF Back
<1>3. first \in D /\ next \in [1..n -> [D -> D]]
  <2>1. first \in D
    BY <1>2 DEF StartOf
  <2> HIDE DEF D
  <2>. QED  BY <1>2, <2>1
<1>4. FindSourceIds(link, e, ids) = (CHOOSE from : Right(from))[0]
  BY DEF FindSourceIds, StartOf
<1> HIDE DEF n, first, D
<1>5. PICK g : IsChain(D, n, first, next, g)
  <2> HIDE DEF next
  <2>. QED  BY <1>1, <1>3, Chain
<1>6. /\ g \in [0..n -> D] /\ g[0] = first
      /\ \A i \in 1..n : g[i] = next[i][g[i - 1]]
  BY <1>5 DEF IsChain
<1> DEFINE h == [i \in 0..n |-> g[n - i]]
<1>7. Right(h)
  <2>1. ASSUME NEW i \in 0..n
        PROVE  h[i] = IF i = n THEN first ELSE Back(link, e.back[i + 1], h[i + 1])
    <3>1. CASE i = n
      BY <1>1, <1>6, <3>1
    <3>2. CASE i # n
      <4>1. n - i \in 1..n /\ (n - i) - 1 = n - (i + 1) /\ n - (n - i) + 1 = i + 1 /\ i + 1 \in 0..n
        BY <1>1, <3>2
      <4>2. g[n - (i + 1)] \in D
        <5>1. n - (i + 1) \in 0..n
          BY <1>1, <3>2
        <5>. QED  BY <1>6, <5>1
      <4>3. g[n - i] = next[n - i][g[n - (i + 1)]]
        BY <1>6, <4>1
      <4>4. next[n - i][g[n - (i + 1)]] = Back(link, e.back[i + 1], g[n - (i + 1)])
        BY <4>1, <4>2
      <4>5. h[i] = g[n - i] /\ h[i + 1] = g[n - (i + 1)]
        BY <4>1
      <4>. QED  BY <3>2, <4>3, <4>4, <4>5
    <3>. QED  BY <3>1, <3>2
  <2> HIDE DEF h
  <2>2. h = [i \in 0..n |-> h[i]]
    BY DEF h
  <2>. QED  BY <2>1, <2>2
<1> HIDE DEF Right, h
<1> DEFINE from == CHOOSE from : Right(from)
<1>8. Right(from)
  BY <1>7
<1> HIDE DEF from
<1>9. \A i \in 0..n : from[i] = IF i = n THEN first ELSE Back(link, e.back[i + 1], from[i + 1])
  <2>1. from = [i \in 0..n |-> IF i = n THEN first ELSE Back(link, e.back[i + 1], from[i + 1])]
    BY <1>8 DEF Right
  <2>. QED  BY <2>1
<1> DEFINE k == [i \in 0..n |-> from[n - i]]
<1>10. k[0] = first
  <2>1. 0 \in 0..n /\ n - 0 = n /\ n \in 0..n
    BY <1>1
  <2>. QED  BY <1>9, <2>1
<1>11. ASSUME NEW i \in 1..n
       PROVE  k[i] = Back(link, e.back[n - i + 1], k[i - 1])
  <2>1. /\ n - i \in 0..n /\ n - i # n /\ n - i + 1 = n - (i - 1)
        /\ i \in 0..n /\ i - 1 \in 0..n
    BY <1>1
  <2>2. k[i] = from[n - i] /\ k[i - 1] = from[n - (i - 1)]
    BY <2>1
  <2> HIDE DEF k
  <2>3. from[n - i] = Back(link, e.back[n - i + 1], from[n - i + 1])
    BY <1>9, <2>1
  <2>. QED  BY <2>1, <2>2, <2>3
<1>12. k[n] = from[0]
  <2>1. n \in 0..n /\ n - n = 0
    BY <1>1
  <2>. QED  BY <2>1
<1> HIDE DEF k
<1>13. WalksBack(link, e, ids, k)
  BY <1>1, <1>4, <1>10, <1>11, <1>12 DEF WalksBack, n, first, from
<1>. QED  BY <1>13

(* More rows have no fewer sources.                                        *)
LEMMA SourcesGrow ==
    ASSUME NEW link, \A r \in Recs : link[r] \in Recs \cup {None},
           NEW e, e.back \in Seq(Hops), NEW ids \in SUBSET Recs, NEW few \in SUBSET ids
    PROVE  FindSourceIds(link, e, few) \subseteq FindSourceIds(link, e, ids)
<1>1. PICK g : WalksBack(link, e, ids, g)
  BY BackSteps
<1>2. PICK h : WalksBack(link, e, few, h)
  BY BackSteps
<1> DEFINE n == Len(e.back)
           T == {i \in Nat : i <= n => h[i] \subseteq g[i]}
<1>3. n \in Nat
  BY <1>1 DEF WalksBack
<1>4. 0 \in T
  BY <1>1, <1>2 DEF WalksBack, StartOf, Back
<1>5. ASSUME NEW i \in Nat, i \in T
      PROVE  i + 1 \in T
  <2>1. SUFFICES ASSUME i + 1 <= n PROVE h[i + 1] \subseteq g[i + 1]
    OBVIOUS
  <2>2. h[i] \subseteq g[i] /\ i + 1 \in 1..n /\ (i + 1) - 1 = i
    BY <1>3, <1>5, <2>1
  <2> DEFINE b == e.back[n - (i + 1) + 1]
  <2>3. h[i + 1] = Back(link, b, h[i]) /\ g[i + 1] = Back(link, b, g[i])
    BY <1>1, <1>2, <2>2 DEF WalksBack
  <2> HIDE DEF b
  <2>. QED  BY <2>2, <2>3 DEF Back
<1>6. Nat \subseteq T
  <2> HIDE DEF T
  <2>. QED  BY <1>4, <1>5, NatSet
<1>7. h[n] \subseteq g[n]
  BY <1>3, <1>6
<1>. QED  BY <1>1, <1>2, <1>7 DEF WalksBack

(* The sources are in every set that no hop back leaves.                   *)
LEMMA SourcesWithin ==
    ASSUME NEW link, \A r \in Recs : link[r] \in Recs \cup {None},
           NEW e, e.back \in Seq(Hops), NEW ids \in SUBSET Recs,
           NEW D, StartOf(link, e, ids) \subseteq D,
           \A i \in 1..Len(e.back) : \A X \in SUBSET D : Back(link, e.back[i], X) \subseteq D
    PROVE  FindSourceIds(link, e, ids) \subseteq D
<1>1. PICK g : WalksBack(link, e, ids, g)
  BY BackSteps
<1> DEFINE n == Len(e.back)
<1>2. n \in Nat
  BY <1>1 DEF WalksBack
<1>3. ASSUME NEW i \in 1..n, g[i - 1] \in SUBSET D
      PROVE  g[i] \in SUBSET D
  <2>1. n - i + 1 \in 1..n
    BY <1>2
  <2>. QED  BY <1>1, <1>3, <2>1 DEF WalksBack
<1>4. g[0] \in SUBSET D
  BY <1>1 DEF WalksBack
<1>5. \A i \in 0..n : g[i] \in SUBSET D
  <2> HIDE DEF n
  <2>. QED  BY <1>2, <1>3, <1>4, Along
<1>. QED  BY <1>1, <1>2, <1>5 DEF WalksBack

(* Who walks from r to x finds r among the sources of x.                   *)
LEMMA WalkBack ==
    ASSUME NEW rows, Points(rows), NEW p, p.hops \in Seq(Hops), NEW r \in Recs,
           NEW e, e.back \in Seq(Hops), Len(e.back) <= Len(p.hops),
           \A i \in 1..Len(e.back) : e.back[i] = p.hops[i],
           NEW ids \in SUBSET Recs, NEW x \in StartOf(Links(rows), e, ids),
           x \in Walk(Cold(rows), p, r)[Len(e.back)]
    PROVE  r \in FindSourceIds(Links(rows), e, ids)
<1> DEFINE link == Links(rows)
           v == Cold(rows)
           w == Walk(v, p, r)
           n == Len(e.back)
<1>1. /\ \A y \in Recs : link[y] = rows[y][Link]
      /\ \A y \in Recs : link[y] \in Recs \cup {None}
  BY DEF Links, Points
<1>2. PICK g : WalksBack(link, e, ids, g)
  <2> HIDE DEF link
  <2>. QED  BY <1>1, BackSteps
<1>3. /\ Linked(v)
      /\ \A y \in Recs : LinkIn(v, y) = rows[y][Link] /\ KidsIn(v, y) = ChildrenOf(rows, y)
  BY ColdReads
<1>4. /\ n \in Nat /\ Len(p.hops) \in Nat /\ w[0] = {r}
      /\ \A i \in 1..Len(p.hops) : w[i] = HopFrom(v, p.hops[i], w[i - 1])
      /\ \A i \in 0..Len(p.hops) : w[i] \subseteq Recs
  BY <1>2, <1>3, WalkSteps DEF WalksBack
<1> DEFINE T == {i \in Nat : i <= n => \E y \in w[n - i] : y \in g[i]}
<1>5. 0 \in T
  <2>1. x \in w[n - 0] /\ x \in g[0]
    BY <1>2, <1>4 DEF WalksBack
  <2>. QED  BY <2>1
<1> HIDE DEF v, w, link
<1>6. ASSUME NEW i \in Nat, i \in T
      PROVE  i + 1 \in T
  <2>1. SUFFICES ASSUME i + 1 <= n PROVE \E y \in w[n - (i + 1)] : y \in g[i + 1]
    OBVIOUS
  <2>2. PICK z \in w[n - i] : z \in g[i]
    BY <1>6, <1>4, <2>1
  <2> DEFINE m == n - i
             h == p.hops[m]
  <2>3. /\ m \in 1..Len(p.hops) /\ m - 1 = n - (i + 1) /\ m \in 1..n /\ n - (i + 1) + 1 = m
        /\ i + 1 \in 1..n /\ (i + 1) - 1 = i /\ m - 1 \in 0..Len(p.hops)
    BY <1>4, <2>1
  <2>4. w[m] = HopFrom(v, h, w[m - 1]) /\ w[m - 1] \subseteq Recs /\ e.back[m] = h
    BY <1>4, <2>3
  <2>5. g[i + 1] = Back(link, h, g[i])
    BY <1>2, <2>3, <2>4 DEF WalksBack
  <2>6. z \in HopFrom(v, h, w[m - 1])
    BY <2>2, <2>4
  <2> HIDE DEF m, h
  <2>7. CASE h = "m2o"
    <3>1. PICK y \in w[m - 1] : z = LinkIn(v, y)
      BY <2>6, <2>7 DEF HopFrom
    <3>2. y \in Recs /\ link[y] = z
      BY <1>1, <1>3, <2>4, <3>1
    <3>3. y \in g[i + 1]
      BY <2>2, <2>5, <2>7, <3>2 DEF Back
    <3>. QED  BY <2>3, <3>1, <3>3
  <2>8. CASE h # "m2o"
    <3>1. PICK y \in w[m - 1] : z \in KidsIn(v, y)
      BY <2>6, <2>8 DEF HopFrom
    <3>2. y \in Recs /\ z \in Recs /\ link[z] = y /\ y # None
      BY <1>1, <1>3, <2>4, <3>1, Schema DEF ChildrenOf
    <3>3. y \in g[i + 1]
      BY <2>2, <2>5, <2>8, <3>2 DEF Back
    <3>. QED  BY <2>3, <3>1, <3>3
  <2>. QED  BY <2>7, <2>8
<1>7. Nat \subseteq T
  <2> HIDE DEF T
  <2>. QED  BY <1>5, <1>6, NatSet
<1>8. \E y \in w[0] : y \in g[n]
  <2>1. n \in T /\ n - n = 0
    BY <1>4, <1>7
  <2>. QED  BY <2>1
<1>. QED  BY <1>2, <1>4, <1>8 DEF WalksBack, link
-----------------------------------------------------------------------------
(* The order of the edge index and of the queue.                           *)

(* Sequences are put end to end one after the other.                       *)
PutsEndToEnd(S, seqs, g) ==
    /\ g[0] = <<>>
    /\ \A i \in 1..Len(seqs) : g[i] = g[i - 1] \o seqs[i]
    /\ \A i \in 0..Len(seqs) : g[i] \in Seq(S)
    /\ FlattenSeq(seqs) = g[Len(seqs)]

(* FlattenSeq puts its sequences end to end.                               *)
LEMMA FlatSteps ==
    ASSUME NEW S, NEW seqs \in Seq(Seq(S))
    PROVE  \E g : PutsEndToEnd(S, seqs, g)
<1> DEFINE n == Len(seqs)
           Right(flat) == flat = [i \in 1..n |-> IF i = 1 THEN seqs[i] ELSE flat[i - 1] \o seqs[i]]
           next == [i \in 1..n |-> [q \in Seq(S) |-> q \o seqs[i]]]
<1>1. n \in Nat /\ \A i \in 1..n : seqs[i] \in Seq(S)
  BY LenProperties, ElementOfSeq
<1>2. CASE n = 0
  <2> DEFINE g == [i \in 0..0 |-> <<>>]
  <2>1. FlattenSeq(seqs) = <<>>
    <3>1. FlattenSeq(seqs) = seqs
      BY <1>2 DEF FlattenSeq
    <3>. QED  BY <3>1, <1>2, EmptySeq
  <2>2. /\ g[0] = <<>> /\ 1..0 = {}
        /\ \A i \in 0..0 : i = 0
        /\ <<>> \in Seq(S)
    OBVIOUS
  <2> HIDE DEF g
  <2>3. PutsEndToEnd(S, seqs, g)
    BY <1>2, <2>1, <2>2 DEF PutsEndToEnd
  <2>. QED  BY <2>3
<1>3. CASE n # 0
  <2>1. FlattenSeq(seqs) = (CHOOSE flat : Right(flat))[n]
    BY <1>3 DEF FlattenSeq
  <2> HIDE DEF n
  <2>2. next \in [1..n -> [Seq(S) -> Seq(S)]]
    <3>1. ASSUME NEW i \in 1..n, NEW q \in Seq(S)
          PROVE  q \o seqs[i] \in Seq(S)
      BY <1>1, ConcatProperties
    <3>. QED  BY <3>1
  <2>3. PICK g : IsChain(Seq(S), n, <<>>, next, g)
    <3> HIDE DEF next
    <3>1. <<>> \in Seq(S)
      OBVIOUS
    <3>. QED  BY <1>1, <2>2, <3>1, Chain
  <2>4. /\ g \in [0..n -> Seq(S)] /\ g[0] = <<>>
         /\ \A i \in 1..n : g[i] = next[i][g[i - 1]]
    BY <2>3 DEF IsChain
  <2> DEFINE h == [i \in 1..n |-> g[i]]
  <2>5. Right(h)
    <3>1. ASSUME NEW i \in 1..n
          PROVE  h[i] = IF i = 1 THEN seqs[i] ELSE h[i - 1] \o seqs[i]
      <4>1. i - 1 \in 0..n /\ i \in 0..n
        BY <1>1
      <4>2. h[i] = g[i - 1] \o seqs[i]
        <5>1. g[i - 1] \in Seq(S)
          BY <2>4, <4>1
        <5>. QED  BY <2>4, <5>1
      <4>3. CASE i = 1
        <5>1. g[i - 1] = <<>> /\ seqs[i] \in Seq(S)
          BY <1>1, <2>4, <4>3
        <5>. QED  BY <4>2, <4>3, <5>1, ConcatEmptySeq
      <4>4. CASE i # 1
        <5>1. i - 1 \in 1..n
          BY <1>1, <4>4
        <5>. QED  BY <4>2, <4>4, <5>1
      <4>. QED  BY <4>3, <4>4
    <3> HIDE DEF h
    <3>2. h = [i \in 1..n |-> h[i]]
      BY DEF h
    <3>. QED  BY <3>1, <3>2
  <2> HIDE DEF Right, h
  <2> DEFINE flat == CHOOSE flat : Right(flat)
  <2>6. Right(flat)
    BY <2>5
  <2> HIDE DEF flat
  <2>7. \A i \in 1..n : flat[i] = IF i = 1 THEN seqs[i] ELSE flat[i - 1] \o seqs[i]
    <3>1. flat = [i \in 1..n |-> IF i = 1 THEN seqs[i] ELSE flat[i - 1] \o seqs[i]]
      BY <2>6 DEF Right
    <3>. QED  BY <3>1
  <2> DEFINE k == [i \in 0..n |-> IF i = 0 THEN <<>> ELSE flat[i]]
  <2>8. /\ k[0] = <<>>
        /\ \A i \in 1..n : k[i] = flat[i]
    BY <1>1
  <2> HIDE DEF k
  <2>9. ASSUME NEW i \in 1..n
        PROVE  k[i] = k[i - 1] \o seqs[i]
    <3>1. CASE i = 1
      <4>1. k[i - 1] = <<>> /\ seqs[i] \in Seq(S)
        BY <1>1, <2>8, <3>1
      <4>. QED  BY <2>7, <2>8, <3>1, <4>1, ConcatEmptySeq
    <3>2. CASE i # 1
      <4>1. i - 1 \in 1..n
        BY <1>1, <3>2
      <4>. QED  BY <2>7, <2>8, <3>2, <4>1
    <3>. QED  BY <3>1, <3>2
  <2>10. \A i \in 0..n : k[i] \in Seq(S)
    <3>1. k[0] \in Seq(S)
      BY <2>8
    <3>2. \A i \in 1..n : k[i - 1] \in Seq(S) => k[i] \in Seq(S)
      BY <1>1, <2>9, ConcatProperties
    <3>. QED  BY <1>1, <3>1, <3>2, Along
  <2>11. k[n] = flat[n]
    BY <1>1, <1>3, <2>8
  <2>12. PutsEndToEnd(S, seqs, k)
    BY <2>1, <2>8, <2>9, <2>10, <2>11 DEF PutsEndToEnd, flat, n
  <2>. QED  BY <2>12
<1>. QED  BY <1>2, <1>3

(* at gives the sequence, of the first m, and the position in it that each *)
(* element comes from; the order is kept and nothing is lost.              *)
Places(seqs, m, flat, at) ==
    /\ \A k \in 1..Len(flat) :
         /\ at[k][1] \in 1..m /\ at[k][2] \in 1..Len(seqs[at[k][1]])
         /\ flat[k] = seqs[at[k][1]][at[k][2]]
    /\ \A k, l \in 1..Len(flat) : k < l =>
         \/ at[k][1] < at[l][1]
         \/ at[k][1] = at[l][1] /\ at[k][2] < at[l][2]
    /\ \A i \in 1..m : \A j \in 1..Len(seqs[i]) :
         \E k \in 1..Len(flat) : at[k][1] = i /\ at[k][2] = j

(* One sequence more, after those that are placed.                         *)
LEMMA OneMorePlaced ==
    ASSUME NEW S, NEW seqs, NEW m \in Nat, NEW flat \in Seq(S), NEW at, Places(seqs, m, flat, at),
           seqs[m + 1] \in Seq(S)
    PROVE  \E to : Places(seqs, m + 1, flat \o seqs[m + 1], to)
<1> DEFINE q == seqs[m + 1]
           a == Len(flat)
           b == Len(q)
           more == flat \o q
           to == [k \in 1..(a + b) |-> IF k <= a THEN at[k] ELSE <<m + 1, k - a>>]
<1>1. /\ a \in Nat /\ b \in Nat /\ Len(more) = a + b
      /\ \A k \in 1..(a + b) : more[k] = IF k <= a THEN flat[k] ELSE q[k - a]
  BY LenProperties, ConcatProperties
<1>2. /\ \A k \in 1..a : to[k] = at[k]
      /\ \A k \in (a + 1)..(a + b) : to[k][1] = m + 1 /\ to[k][2] = k - a
  BY <1>1
<1> HIDE DEF to, more, a, b
<1>3. ASSUME NEW k \in 1..(a + b)
      PROVE  /\ to[k][1] \in 1..(m + 1) /\ to[k][2] \in 1..Len(seqs[to[k][1]])
             /\ more[k] = seqs[to[k][1]][to[k][2]]
  <2>1. CASE k <= a
    <3>1. k \in 1..a
      BY <1>1, <2>1
    <3>2. /\ at[k][1] \in 1..m /\ at[k][2] \in 1..Len(seqs[at[k][1]])
          /\ flat[k] = seqs[at[k][1]][at[k][2]]
      BY <3>1 DEF Places, a
    <3>3. at[k][1] \in 1..(m + 1)
      BY <3>2
    <3>4. to[k] = at[k] /\ more[k] = flat[k]
      BY <1>1, <1>2, <2>1, <3>1
    <3>. QED  BY <3>2, <3>3, <3>4
  <2>2. CASE ~(k <= a)
    <3>1. k \in (a + 1)..(a + b) /\ k - a \in 1..b /\ m + 1 \in 1..(m + 1)
      BY <1>1, <2>2
    <3>2. to[k][1] = m + 1 /\ to[k][2] = k - a /\ more[k] = seqs[m + 1][k - a]
      BY <1>1, <1>2, <2>2, <3>1
    <3>3. Len(seqs[m + 1]) = b
      BY DEF b
    <3>. QED  BY <3>1, <3>2, <3>3
  <2>. QED  BY <2>1, <2>2
<1>4. ASSUME NEW k \in 1..(a + b), NEW l \in 1..(a + b), k < l
      PROVE  \/ to[k][1] < to[l][1]
             \/ to[k][1] = to[l][1] /\ to[k][2] < to[l][2]
  <2>1. CASE l <= a
    <3>1. k \in 1..a /\ l \in 1..a
      BY <1>1, <1>4, <2>1
    <3>. QED  BY <1>2, <1>4, <3>1 DEF Places, a
  <2>2. CASE k <= a /\ ~(l <= a)
    <3>1. k \in 1..a /\ l \in (a + 1)..(a + b)
      BY <1>1, <2>2
    <3>2. at[k][1] \in 1..m
      BY <3>1 DEF Places, a
    <3>. QED  BY <1>2, <3>1, <3>2
  <2>3. CASE ~(k <= a)
    <3>1. k \in (a + 1)..(a + b) /\ l \in (a + 1)..(a + b) /\ k - a < l - a
      BY <1>1, <1>4, <2>3
    <3>. QED  BY <1>2, <3>1
  <2>. QED  BY <2>1, <2>2, <2>3
<1>5. ASSUME NEW i \in 1..(m + 1), NEW j \in 1..Len(seqs[i])
      PROVE  \E k \in 1..(a + b) : to[k][1] = i /\ to[k][2] = j
  <2>1. CASE i = m + 1
    <3>1. a + j \in (a + 1)..(a + b) /\ (a + j) - a = j /\ a + j \in 1..(a + b)
      BY <1>1, <2>1 DEF b
    <3>. QED  BY <1>2, <2>1, <3>1
  <2>2. CASE i \in 1..m
    <3>1. PICK k \in 1..a : at[k][1] = i /\ at[k][2] = j
      BY <2>2 DEF Places, a
    <3>2. k \in 1..(a + b)
      BY <1>1
    <3>. QED  BY <1>2, <3>1, <3>2
  <2>. QED  BY <2>1, <2>2
<1>6. Places(seqs, m + 1, more, to)
  BY <1>1, <1>3, <1>4, <1>5 DEF Places
<1>. QED  BY <1>6 DEF more

(* Every element of every sequence is placed, in their order.              *)
LEMMA FlatPlaces ==
    ASSUME NEW S, NEW seqs \in Seq(Seq(S))
    PROVE  \E at : Places(seqs, Len(seqs), FlattenSeq(seqs), at)
<1> DEFINE n == Len(seqs)
<1>1. n \in Nat /\ \A i \in 1..n : seqs[i] \in Seq(S)
  BY LenProperties, ElementOfSeq
<1>2. PICK g : PutsEndToEnd(S, seqs, g)
  BY FlatSteps
<1> DEFINE T == {m \in Nat : m <= n => \E at : Places(seqs, m, g[m], at)}
<1>3. 0 \in T
  <2>1. g[0] = <<>> /\ Len(<<>>) = 0 /\ 1..0 = {}
    BY <1>2, EmptySeq DEF PutsEndToEnd
  <2>2. \A at : Places(seqs, 0, g[0], at)
    BY <2>1 DEF Places
  <2>. QED  BY <2>2
<1>4. ASSUME NEW m \in Nat, m \in T
      PROVE  m + 1 \in T
  <2>1. SUFFICES ASSUME m + 1 <= n PROVE \E at : Places(seqs, m + 1, g[m + 1], at)
    OBVIOUS
  <2>2. PICK at : Places(seqs, m, g[m], at)
    BY <1>1, <1>4, <2>1
  <2>3. m + 1 \in 1..n /\ (m + 1) - 1 = m /\ m \in 0..n
    BY <1>1, <2>1
  <2>4. g[m + 1] = g[m] \o seqs[m + 1] /\ g[m] \in Seq(S) /\ seqs[m + 1] \in Seq(S)
    BY <1>1, <1>2, <2>3 DEF PutsEndToEnd
  <2>. QED  BY <2>2, <2>4, OneMorePlaced
<1>5. Nat \subseteq T
  <2> HIDE DEF T
  <2>. QED  BY <1>3, <1>4, NatSet
<1>6. n \in T
  BY <1>1, <1>5
<1>. QED  BY <1>1, <1>2, <1>6 DEF PutsEndToEnd

(* What the index has for one path, and for one field.                     *)
Listed == [field : Computes, edge : Edge]
ListingOf(f, p) == LET es == Edges(p) IN [j \in DOMAIN es |-> [field |-> f, edge |-> es[j]]]
ListingsOf(f) == [i \in DOMAIN Depends[f] |-> ListingOf(f, Depends[f][i])]

(* Paths, and the edges listed for them, field by field.                   *)
LEMMA PathsAreTyped ==
    ASSUME NEW f \in Computes, NEW p \in PathsOf(f)
    PROVE  p \in Path /\ p.hops \in Seq(Hops) /\ p.leaf \in Fields
BY PathIsTyped DEF PathsOf, ToSet

LEMMA ListingIsTyped ==
    ASSUME NEW f \in Computes, NEW p \in Path
    PROVE  /\ ListingOf(f, p) \in Seq(Listed) /\ Edges(p) \in Seq(Edge)
           /\ Len(ListingOf(f, p)) = Len(Edges(p))
           /\ \A j \in 1..Len(Edges(p)) : ListingOf(f, p)[j] = [field |-> f, edge |-> Edges(p)[j]]
<1> DEFINE es == Edges(p)
           q == [j \in DOMAIN es |-> [field |-> f, edge |-> es[j]]]
<1>1. es \in Seq(Edge)
  BY EdgesAreTyped
<1> HIDE DEF es
<1>2. Len(es) \in Nat /\ DOMAIN es = 1..Len(es) /\ \A j \in DOMAIN es : es[j] \in Edge
  BY <1>1, LenProperties, ElementOfSeq
<1>3. q \in [1..Len(es) -> Listed]
  BY <1>2 DEF Listed
<1>4. ListingOf(f, p) = q
  BY DEF ListingOf, es
<1>5. \A j \in 1..Len(es) : q[j] = [field |-> f, edge |-> es[j]]
  BY <1>2
<1> HIDE DEF q
<1>6. q \in Seq(Listed) /\ Len(q) = Len(es)
  BY <1>2, <1>3
<1>. QED  BY <1>1, <1>4, <1>5, <1>6 DEF es

LEMMA ListingsAreTyped ==
    ASSUME NEW f \in Computes
    PROVE  /\ ListingsOf(f) \in Seq(Seq(Listed))
           /\ Len(ListingsOf(f)) = Len(Depends[f]) /\ DOMAIN Depends[f] = 1..Len(Depends[f])
           /\ \A i \in 1..Len(Depends[f]) : /\ Depends[f][i] \in PathsOf(f)
                                            /\ ListingsOf(f)[i] = ListingOf(f, Depends[f][i])
<1>1. Depends[f] \in Seq(Path)
  BY GraphAssumption
<1>2. Len(Depends[f]) \in Nat /\ DOMAIN Depends[f] = 1..Len(Depends[f])
  BY <1>1, LenProperties
<1>3. \A i \in 1..Len(Depends[f]) : Depends[f][i] \in PathsOf(f) /\ Depends[f][i] \in Path
  BY <1>1, <1>2, ElementOfSeq DEF PathsOf, ToSet
<1>4. \A i \in 1..Len(Depends[f]) : ListingsOf(f)[i] = ListingOf(f, Depends[f][i])
  BY <1>2 DEF ListingsOf
<1>5. ListingsOf(f) \in [1..Len(Depends[f]) -> Seq(Listed)]
  <2>1. \A i \in 1..Len(Depends[f]) : ListingOf(f, Depends[f][i]) \in Seq(Listed)
    BY <1>3, ListingIsTyped
  <2> DEFINE L(i) == ListingOf(f, Depends[f][i])
  <2>2. ListingsOf(f) = [i \in 1..Len(Depends[f]) |-> L(i)]
    BY <1>2 DEF ListingsOf
  <2> DEFINE Q == Seq(Listed)
  <2>3. \A i \in 1..Len(Depends[f]) : L(i) \in Q
    BY <2>1
  <2> HIDE DEF L, Q
  <2>4. ListingsOf(f) \in [1..Len(Depends[f]) -> Q]
    BY <2>2, <2>3
  <2>. QED  BY <2>4 DEF Q
<1> DEFINE q == ListingsOf(f)
           Q == Seq(Listed)
<1>6. q \in [1..Len(Depends[f]) -> Q]
  BY <1>5
<1> HIDE DEF q, Q
<1>7. q \in Seq(Q) /\ Len(q) = Len(Depends[f])
  BY <1>2, <1>6
<1>. QED  BY <1>2, <1>3, <1>4, <1>7 DEF q, Q

(* An edge of a path of f.                                                 *)
EdgeOf(f, e) == \E p \in PathsOf(f) : \E j \in 1..Len(Edges(p)) : e = Edges(p)[j]

(* The listing of a field holds its edges and no others.                   *)
LEMMA FieldsListings ==
    ASSUME NEW f \in Computes
    PROVE  LET flat == FlattenSeq(ListingsOf(f))
           IN  /\ flat \in Seq(Listed)
               /\ \A k \in 1..Len(flat) : flat[k].field = f /\ EdgeOf(f, flat[k].edge)
               /\ \A e : EdgeOf(f, e) => \E k \in 1..Len(flat) : flat[k] = [field |-> f, edge |-> e]
<1> DEFINE seqs == ListingsOf(f)
           flat == FlattenSeq(seqs)
           n == Len(Depends[f])
<1>1. /\ seqs \in Seq(Seq(Listed)) /\ Len(seqs) = n
      /\ DOMAIN Depends[f] = 1..n
      /\ \A i \in 1..n : Depends[f][i] \in PathsOf(f) /\ seqs[i] = ListingOf(f, Depends[f][i])
  BY ListingsAreTyped
<1>2. \A i \in 1..n :
        /\ Len(seqs[i]) = Len(Edges(Depends[f][i]))
        /\ \A j \in 1..Len(Edges(Depends[f][i])) :
             seqs[i][j] = [field |-> f, edge |-> Edges(Depends[f][i])[j]]
  <2>1. \A i \in 1..n : Depends[f][i] \in Path
    BY <1>1, PathsAreTyped
  <2> HIDE DEF seqs, n
  <2>. QED  BY <1>1, <2>1, ListingIsTyped
<1> HIDE DEF seqs
<1>3. PICK at : Places(seqs, n, flat, at)
  BY <1>1, FlatPlaces
<1>4. flat \in Seq(Listed)
  BY <1>1, FlatIsSeq
<1> HIDE DEF flat
<1>5. ASSUME NEW k \in 1..Len(flat)
      PROVE  flat[k].field = f /\ EdgeOf(f, flat[k].edge)
  <2> DEFINE i == at[k][1]
             j == at[k][2]
  <2>1. i \in 1..n /\ j \in 1..Len(seqs[i]) /\ flat[k] = seqs[i][j]
    BY <1>3 DEF Places
  <2> HIDE DEF i, j
  <2>2. flat[k] = [field |-> f, edge |-> Edges(Depends[f][i])[j]] /\
          j \in 1..Len(Edges(Depends[f][i]))
    BY <1>2, <2>1
  <2>3. flat[k].field = f /\ flat[k].edge = Edges(Depends[f][i])[j]
    BY <2>2
  <2>. QED  BY <1>1, <2>1, <2>2, <2>3 DEF EdgeOf
<1>6. ASSUME NEW e, EdgeOf(f, e)
      PROVE  \E k \in 1..Len(flat) : flat[k] = [field |-> f, edge |-> e]
  <2>1. PICK p \in PathsOf(f) : \E j \in 1..Len(Edges(p)) : e = Edges(p)[j]
    BY <1>6 DEF EdgeOf
  <2>2. PICK j \in 1..Len(Edges(p)) : e = Edges(p)[j]
    BY <2>1
  <2>3. PICK i \in 1..n : Depends[f][i] = p
    BY <1>1, <2>1 DEF PathsOf, ToSet
  <2>4. j \in 1..Len(seqs[i]) /\ seqs[i][j] = [field |-> f, edge |-> e]
    BY <1>2, <2>2, <2>3
  <2>5. PICK k \in 1..Len(flat) : at[k][1] = i /\ at[k][2] = j
    BY <1>3, <2>4 DEF Places
  <2>6. flat[k] = seqs[i][j]
    BY <1>3, <2>5 DEF Places
  <2>. QED  BY <2>4, <2>6
<1>. QED  BY <1>4, <1>5, <1>6 DEF flat, seqs

(* decl gives the declaration each entry of the index comes from.          *)
IndexOf(decl) ==
    /\ Len(EdgeIndex) \in Nat /\ DOMAIN EdgeIndex = 1..Len(EdgeIndex)
    /\ \A k \in DOMAIN EdgeIndex :
         /\ EdgeIndex[k].field \in Computes /\ EdgeIndex[k].edge \in Edge
         /\ EdgeOf(EdgeIndex[k].field, EdgeIndex[k].edge)
         /\ decl[k] \in DOMAIN Decl /\ EdgeIndex[k].field = Decl[decl[k]]
    /\ \A k, l \in DOMAIN EdgeIndex : k < l => decl[k] <= decl[l]

(* The index has every edge of every path of every computed field, and     *)
(* keeps the order of declaration.                                         *)
LEMMA IndexInOrder ==
    /\ \E decl : IndexOf(decl)
    /\ \A f \in Computes : \A e : EdgeOf(f, e) =>
         \E k \in DOMAIN EdgeIndex : EdgeIndex[k] = [field |-> f, edge |-> e]
<1> DEFINE n == Len(Decl)
           Flat(d) == FlattenSeq(ListingsOf(Decl[d]))
           seqs == [d \in DOMAIN Decl |-> Flat(d)]
<1>1. /\ n \in Nat /\ DOMAIN Decl = 1..n
      /\ \A d \in 1..n : Decl[d] \in Computes
      /\ \A f \in Computes : \E d \in 1..n : Decl[d] = f
  <2>1. Decl \in Seq(Computes) /\ ToSet(Decl) = Computes
    BY GraphAssumption
  <2>. QED  BY <2>1, LenProperties, ElementOfSeq DEF ToSet
<1>2. EdgeIndex = FlattenSeq(seqs)
  BY DEF EdgeIndex, ListingsOf, ListingOf
<1>3. \A d \in 1..n :
        /\ Flat(d) \in Seq(Listed)
        /\ \A k \in 1..Len(Flat(d)) : Flat(d)[k].field = Decl[d] /\ EdgeOf(Decl[d], Flat(d)[k].edge)
        /\ \A e : EdgeOf(Decl[d], e) =>
             \E k \in 1..Len(Flat(d)) : Flat(d)[k] = [field |-> Decl[d], edge |-> e]
  BY <1>1, FieldsListings
<1> HIDE DEF Flat, n
<1>4. seqs \in Seq(Seq(Listed)) /\ Len(seqs) = n /\ \A d \in 1..n : seqs[d] = Flat(d)
  <2> DEFINE Q == Seq(Listed)
  <2> HIDE DEF Q
  <2>1. seqs \in [1..n -> Q]
    BY <1>1, <1>3 DEF Q
  <2>2. \A d \in 1..n : seqs[d] = Flat(d)
    BY <1>1
  <2> HIDE DEF seqs
  <2>3. seqs \in Seq(Q) /\ Len(seqs) = n
    BY <1>1, <2>1
  <2>. QED  BY <2>2, <2>3 DEF Q
<1> HIDE DEF seqs
<1>5. PICK at : Places(seqs, n, EdgeIndex, at)
  BY <1>2, <1>4, FlatPlaces
<1>6. /\ Len(EdgeIndex) \in Nat /\ DOMAIN EdgeIndex = 1..Len(EdgeIndex)
      /\ \A k \in DOMAIN EdgeIndex : EdgeIndex[k].field \in Computes /\ EdgeIndex[k].edge \in Edge
  <2>1. EdgeIndex \in Seq(Listed)
    BY IndexIsTyped DEF Listed
  <2>2. Len(EdgeIndex) \in Nat /\ DOMAIN EdgeIndex = 1..Len(EdgeIndex)
    BY <2>1, LenProperties
  <2>3. \A k \in DOMAIN EdgeIndex : EdgeIndex[k] \in Listed
    BY <2>1, <2>2, ElementOfSeq
  <2>. QED  BY <2>2, <2>3 DEF Listed
<1> DEFINE decl == [k \in DOMAIN EdgeIndex |-> at[k][1]]
<1>7. \A k \in DOMAIN EdgeIndex : decl[k] = at[k][1]
  OBVIOUS
<1> HIDE DEF decl
<1>8. ASSUME NEW k \in DOMAIN EdgeIndex
      PROVE  /\ EdgeOf(EdgeIndex[k].field, EdgeIndex[k].edge)
             /\ decl[k] \in DOMAIN Decl /\ EdgeIndex[k].field = Decl[decl[k]]
  <2>1. /\ at[k][1] \in 1..n /\ at[k][2] \in 1..Len(seqs[at[k][1]])
        /\ EdgeIndex[k] = seqs[at[k][1]][at[k][2]]
    BY <1>5, <1>6 DEF Places
  <2> DEFINE d == at[k][1]
             j == at[k][2]
  <2> HIDE DEF d, j
  <2>2. d \in 1..n /\ j \in 1..Len(seqs[d]) /\ EdgeIndex[k] = seqs[d][j]
    BY <2>1 DEF d, j
  <2>3. seqs[d] = Flat(d)
    BY <1>4, <2>2
  <2>4. j \in 1..Len(Flat(d)) /\ EdgeIndex[k] = Flat(d)[j]
    BY <2>2, <2>3
  <2>5. Flat(d)[j].field = Decl[d] /\ EdgeOf(Decl[d], Flat(d)[j].edge)
    BY <1>3, <2>2, <2>4
  <2>6. decl[k] = d
    BY <1>7 DEF d
  <2>. QED  BY <1>1, <2>2, <2>4, <2>5, <2>6
<1>9. ASSUME NEW k \in DOMAIN EdgeIndex, NEW l \in DOMAIN EdgeIndex, k < l
      PROVE  decl[k] <= decl[l]
  <2>1. at[k][1] < at[l][1] \/ at[k][1] = at[l][1]
    BY <1>5, <1>6, <1>9 DEF Places
  <2>2. decl[k] \in 1..n /\ decl[l] \in 1..n
    BY <1>1, <1>8
  <2>. QED  BY <1>7, <2>1, <2>2
<1>10. IndexOf(decl)
  BY <1>6, <1>8, <1>9 DEF IndexOf
<1>11. ASSUME NEW f \in Computes, NEW e, EdgeOf(f, e)
       PROVE  \E k \in DOMAIN EdgeIndex : EdgeIndex[k] = [field |-> f, edge |-> e]
  <2>1. PICK d \in 1..n : Decl[d] = f
    BY <1>1
  <2>2. PICK j \in 1..Len(seqs[d]) : seqs[d][j] = [field |-> f, edge |-> e]
    <3>1. PICK j \in 1..Len(Flat(d)) : Flat(d)[j] = [field |-> Decl[d], edge |-> e]
      BY <1>3, <1>11, <2>1
    <3>2. seqs[d] = Flat(d)
      BY <1>4
    <3>. QED  BY <2>1, <3>1, <3>2
  <2>3. PICK k \in 1..Len(EdgeIndex) : at[k][1] = d /\ at[k][2] = j
    BY <1>5, <2>2 DEF Places
  <2>4. EdgeIndex[k] = seqs[d][j]
    BY <1>5, <2>3 DEF Places
  <2>. QED  BY <1>6, <2>2, <2>4
<1>. QED  BY <1>10, <1>11

(* What one edge of the index adds to the queue, and what one column does. *)
NoticeOf(link, c, ids, i) ==
    LET e == EdgeIndex[i].edge
        found == IF e.on = c THEN FindSourceIds(link, e, ids) ELSE {}
    IN  IF found = {} THEN <<>> ELSE <<[field |-> EdgeIndex[i].field, ids |-> found]>>
NoticesOf(link, c, ids) == FlattenSeq([i \in DOMAIN EdgeIndex |-> NoticeOf(link, c, ids, i)])

(* at gives the edge each entry is of.                                     *)
Notices(link, c, ids, flat, at) ==
    /\ \A m \in 1..Len(flat) :
         /\ at[m] \in DOMAIN EdgeIndex /\ EdgeIndex[at[m]].edge.on = c
         /\ flat[m] = [field |-> EdgeIndex[at[m]].field,
                       ids |-> FindSourceIds(link, EdgeIndex[at[m]].edge, ids)]
    /\ \A m, l \in 1..Len(flat) : m < l => at[m] < at[l]
    /\ \A i \in DOMAIN EdgeIndex :
         EdgeIndex[i].edge.on = c /\ FindSourceIds(link, EdgeIndex[i].edge, ids) # {} =>
           \E m \in 1..Len(flat) : at[m] = i

(* The entries for one changed column, in the order of Decl.               *)
LEMMA OneColumnNotifies ==
    ASSUME NEW link, \A r \in Recs : link[r] \in Recs \cup {None}, NEW c,
           NEW ids \in SUBSET Recs
    PROVE  /\ NoticesOf(link, c, ids) \in Seq(Entries(Recs))
           /\ \E at : Notices(link, c, ids, NoticesOf(link, c, ids), at)
<1> DEFINE S == Entries(Recs)
           n == Len(EdgeIndex)
           Find(i) == FindSourceIds(link, EdgeIndex[i].edge, ids)
           N(i) == NoticeOf(link, c, ids, i)
           seqs == [i \in DOMAIN EdgeIndex |-> N(i)]
           flat == NoticesOf(link, c, ids)
           Entry(i) == [field |-> EdgeIndex[i].field, ids |-> Find(i)]
<1>1. /\ n \in Nat /\ DOMAIN EdgeIndex = 1..n
      /\ \A i \in 1..n : EdgeIndex[i].field \in Computes /\ EdgeIndex[i].edge \in Edge
  BY IndexInOrder DEF IndexOf
<1>2. ASSUME NEW i \in 1..n
      PROVE  Entry(i) \in S
  <2>1. EdgeIndex[i].field \in Computes /\ EdgeIndex[i].edge.back \in Seq({"m2o", "o2m"})
    BY <1>1 DEF Edge, Hops
  <2>2. Find(i) \subseteq Recs
    BY <2>1, SourcesStay
  <2> HIDE DEF Find
  <2>. QED  BY <2>1, <2>2 DEF Entries
<1>3. \A i \in 1..n : N(i) = IF EdgeIndex[i].edge.on = c /\ Find(i) # {} THEN <<Entry(i)>> ELSE <<>>
  BY DEF NoticeOf
<1> HIDE DEF S, Find, N, Entry, n
<1>4. ASSUME NEW i \in 1..n
      PROVE  N(i) \in Seq(S)
  <2>1. Entry(i) \in S
    BY <1>2
  <2>2. <<Entry(i)>> \in Seq(S) /\ <<>> \in Seq(S)
    BY <2>1
  <2>. QED  BY <1>3, <2>2
<1>5. flat = FlattenSeq(seqs)
  BY DEF NoticesOf, N
<1>6. seqs \in Seq(Seq(S)) /\ Len(seqs) = n /\ \A i \in 1..n : seqs[i] = N(i)
  <2> DEFINE Q == Seq(S)
  <2> HIDE DEF Q
  <2>1. seqs \in [1..n -> Q]
    BY <1>1, <1>4 DEF Q
  <2>2. \A i \in 1..n : seqs[i] = N(i)
    BY <1>1
  <2> HIDE DEF seqs
  <2>3. seqs \in Seq(Q) /\ Len(seqs) = n
    BY <1>1, <2>1
  <2>. QED  BY <2>2, <2>3 DEF Q
<1> HIDE DEF seqs, flat
<1>7. flat \in Seq(S)
  BY <1>5, <1>6, FlatIsSeq
<1>8. PICK to : Places(seqs, n, flat, to)
  BY <1>5, <1>6, FlatPlaces
<1> DEFINE at == [m \in 1..Len(flat) |-> to[m][1]]
<1>9. \A m \in 1..Len(flat) : at[m] = to[m][1]
  OBVIOUS
<1> HIDE DEF at
<1>10. ASSUME NEW m \in 1..Len(flat)
       PROVE  /\ at[m] \in 1..n /\ EdgeIndex[at[m]].edge.on = c
              /\ flat[m] = Entry(at[m]) /\ to[m][2] = 1
  <2> DEFINE i == to[m][1]
             j == to[m][2]
  <2>1. i \in 1..n /\ j \in 1..Len(seqs[i]) /\ flat[m] = seqs[i][j]
    BY <1>8 DEF Places
  <2>2. at[m] = i
    BY <1>9
  <2> HIDE DEF i, j
  <2>3. seqs[i] = N(i)
    BY <1>6, <2>1
  <2>4. CASE EdgeIndex[i].edge.on = c /\ Find(i) # {}
    <3>1. N(i) = <<Entry(i)>>
      BY <1>3, <2>1, <2>4
    <3>2. j = 1 /\ flat[m] = Entry(i)
      BY <2>1, <2>3, <3>1
    <3>. QED  BY <2>1, <2>2, <2>4, <3>2 DEF j
  <2>5. CASE ~(EdgeIndex[i].edge.on = c /\ Find(i) # {})
    <3>1. N(i) = <<>>
      BY <1>3, <2>1, <2>5
    <3>. QED  BY <2>1, <2>3, <3>1
  <2>. QED  BY <2>4, <2>5
<1>11. ASSUME NEW m \in 1..Len(flat), NEW l \in 1..Len(flat), m < l
       PROVE  at[m] < at[l]
  <2>1. \/ to[m][1] < to[l][1]
        \/ to[m][1] = to[l][1] /\ to[m][2] < to[l][2]
    BY <1>8, <1>11 DEF Places
  <2>2. to[m][2] = 1 /\ to[l][2] = 1
    BY <1>10
  <2>. QED  BY <1>9, <2>1, <2>2
<1>12. ASSUME NEW i \in 1..n, EdgeIndex[i].edge.on = c, Find(i) # {}
       PROVE  \E m \in 1..Len(flat) : at[m] = i
  <2>1. N(i) = <<Entry(i)>> /\ seqs[i] = N(i)
    BY <1>3, <1>6, <1>12
  <2>2. 1 \in 1..Len(seqs[i])
    BY <2>1
  <2>3. PICK m \in 1..Len(flat) : to[m][1] = i
    BY <1>8, <2>2 DEF Places
  <2>. QED  BY <1>9, <2>3
<1>13. Notices(link, c, ids, flat, at)
  BY <1>1, <1>10, <1>11, <1>12 DEF Notices, Entry, Find
<1>. QED  BY <1>7, <1>13 DEF flat, S

(* The queue after fs changed on ids: block gives the field in fs and decl *)
(* the declaration each entry is of.                                       *)
Notified(link, fs, ids, q, block, decl) ==
    /\ q \in Seq(Entries(Recs))
    /\ \A m \in 1..Len(q) :
         /\ block[m] \in DOMAIN fs /\ decl[m] \in DOMAIN Decl
         /\ q[m].field = Decl[decl[m]] /\ q[m].field \in Computes
         /\ \E e : /\ EdgeOf(q[m].field, e) /\ e.on = fs[block[m]]
                 /\ q[m].ids = FindSourceIds(link, e, ids)
    /\ \A m, l \in 1..Len(q) : m < l =>
         \/ block[m] < block[l]
         \/ block[m] = block[l] /\ decl[m] <= decl[l]
    /\ \A k \in DOMAIN fs : \A x \in ids : \A d \in Computes \X Recs :
         Leads(link, <<fs[k], x>>, d) =>
           \E m \in 1..Len(q) : block[m] = k /\ q[m].field = d[1] /\ d[2] \in q[m].ids

(* fan_out: one block of entries for each column, in the order given.      *)
LEMMA FanOutInOrder ==
    ASSUME NEW link, \A r \in Recs : link[r] \in Recs \cup {None},
           NEW n \in Nat, NEW fs, DOMAIN fs = 1..n, NEW ids \in SUBSET Recs
    PROVE  \E block, decl : Notified(link, fs, ids, FanOut(link, fs, ids), block, decl)
<1> DEFINE S == Entries(Recs)
           N(k) == NoticesOf(link, fs[k], ids)
           seqs == [k \in DOMAIN fs |-> N(k)]
           flat == FanOut(link, fs, ids)
           Find(i) == FindSourceIds(link, EdgeIndex[i].edge, ids)
<1>1. flat = FlattenSeq(seqs)
  BY DEF FanOut, NoticesOf, NoticeOf
<1>2. \A k \in 1..n : N(k) \in Seq(S) /\ \E at : Notices(link, fs[k], ids, N(k), at)
  BY OneColumnNotifies
<1>3. PICK of : IndexOf(of)
  BY IndexInOrder
<1> HIDE DEF S, N, flat, Find
<1>4. seqs \in Seq(Seq(S)) /\ Len(seqs) = n /\ \A k \in 1..n : seqs[k] = N(k)
  <2> DEFINE Q == Seq(S)
  <2> HIDE DEF Q
  <2>1. seqs \in [1..n -> Q]
    BY <1>2 DEF Q
  <2>2. \A k \in 1..n : seqs[k] = N(k)
    OBVIOUS
  <2> HIDE DEF seqs
  <2>3. seqs \in Seq(Q) /\ Len(seqs) = n
    BY <2>1
  <2>. QED  BY <2>2, <2>3 DEF Q
<1> HIDE DEF seqs
<1>5. flat \in Seq(S)
  BY <1>1, <1>4, FlatIsSeq
<1>6. PICK to : Places(seqs, n, flat, to)
  BY <1>1, <1>4, FlatPlaces
<1> DEFINE ats == [k \in 1..n |-> CHOOSE at : Notices(link, fs[k], ids, N(k), at)]
           block == [m \in 1..Len(flat) |-> to[m][1]]
           edge == [m \in 1..Len(flat) |-> ats[to[m][1]][to[m][2]]]
           decl == [m \in 1..Len(flat) |-> of[edge[m]]]
<1>7. \A k \in 1..n : Notices(link, fs[k], ids, N(k), ats[k])
  BY <1>2
<1> HIDE DEF ats
<1>8. \A m \in 1..Len(flat) : /\ block[m] = to[m][1] /\ edge[m] = ats[to[m][1]][to[m][2]]
                              /\ decl[m] = of[edge[m]]
  OBVIOUS
<1> HIDE DEF block, edge, decl
<1>9. ASSUME NEW m \in 1..Len(flat)
      PROVE  /\ block[m] \in 1..n /\ to[m][2] \in 1..Len(N(block[m])) /\ edge[m] \in DOMAIN EdgeIndex
             /\ EdgeIndex[edge[m]].edge.on = fs[block[m]]
             /\ flat[m] = [field |-> EdgeIndex[edge[m]].field, ids |-> Find(edge[m])]
  <2> DEFINE k == to[m][1]
             j == to[m][2]
  <2>1. k \in 1..n /\ j \in 1..Len(seqs[k]) /\ flat[m] = seqs[k][j]
    BY <1>6 DEF Places
  <2>2. block[m] = k /\ edge[m] = ats[k][j]
    BY <1>8
  <2> HIDE DEF k, j
  <2>3. seqs[k] = N(k) /\ Notices(link, fs[k], ids, N(k), ats[k])
    BY <1>4, <1>7, <2>1
  <2>4. j \in 1..Len(N(k)) /\ flat[m] = N(k)[j]
    BY <2>1, <2>3
  <2>5. /\ ats[k][j] \in DOMAIN EdgeIndex /\ EdgeIndex[ats[k][j]].edge.on = fs[k]
        /\ N(k)[j] = [field |-> EdgeIndex[ats[k][j]].field, ids |-> Find(ats[k][j])]
    BY <2>3, <2>4 DEF Notices, Find
  <2>6. j = to[m][2]
    BY DEF j
  <2>. QED  BY <2>1, <2>2, <2>4, <2>5, <2>6
<1>10. ASSUME NEW m \in 1..Len(flat)
       PROVE  /\ decl[m] \in DOMAIN Decl /\ flat[m].field = Decl[decl[m]] /\
                   flat[m].field \in Computes
              /\ \E e : /\ EdgeOf(flat[m].field, e) /\ e.on = fs[block[m]]
                      /\ flat[m].ids = FindSourceIds(link, e, ids)
  <2> DEFINE e == EdgeIndex[edge[m]].field
  <2>0. flat[m] = [field |-> e, ids |-> Find(edge[m])]
    BY <1>9
  <2>1. flat[m].field = e /\ flat[m].ids = Find(edge[m])
    <3> HIDE DEF e
    <3>. QED  BY <2>0
  <2>2. EdgeOf(e, EdgeIndex[edge[m]].edge) /\ e \in Computes /\ decl[m] \in DOMAIN Decl /\
          e = Decl[decl[m]]
    <3>1. edge[m] \in DOMAIN EdgeIndex /\ decl[m] = of[edge[m]]
      BY <1>8, <1>9
    <3>. QED  BY <1>3, <3>1 DEF IndexOf
  <2>. QED  BY <1>9, <2>1, <2>2 DEF Find
<1>11. ASSUME NEW m \in 1..Len(flat), NEW l \in 1..Len(flat), m < l
       PROVE  \/ block[m] < block[l]
              \/ block[m] = block[l] /\ decl[m] <= decl[l]
  <2>1. \/ to[m][1] < to[l][1]
        \/ to[m][1] = to[l][1] /\ to[m][2] < to[l][2]
    BY <1>6, <1>11 DEF Places
  <2>2. CASE block[m] = block[l] /\ to[m][2] < to[l][2]
    <3>1. Notices(link, fs[block[m]], ids, N(block[m]), ats[block[m]])
      BY <1>7, <1>9
    <3>2. to[m][2] \in 1..Len(N(block[m])) /\ to[l][2] \in 1..Len(N(block[m]))
      BY <1>9, <2>2
    <3>3. edge[m] < edge[l]
      <4>1. ats[block[m]][to[m][2]] < ats[block[m]][to[l][2]]
        BY <2>2, <3>1, <3>2 DEF Notices
      <4>. QED  BY <1>8, <2>2, <4>1
    <3>4. of[edge[m]] <= of[edge[l]]
      BY <1>3, <1>9, <3>3 DEF IndexOf
    <3>. QED  BY <1>8, <2>2, <3>4
  <2>. QED  BY <1>8, <2>1, <2>2
<1>12. ASSUME NEW k \in 1..n, NEW x \in ids, NEW d \in Computes \X Recs, Leads(link, <<fs[k], x>>, d)
       PROVE  \E m \in 1..Len(flat) : block[m] = k /\ flat[m].field = d[1] /\ d[2] \in flat[m].ids
  <2>1. PICK i \in DOMAIN EdgeIndex :
          /\ EdgeIndex[i].edge.on = fs[k] /\ EdgeIndex[i].field = d[1]
          /\ d[2] \in FindSourceIds(link, EdgeIndex[i].edge, {x})
    BY <1>12 DEF Leads
  <2>2. d[2] \in Find(i)
    <3>1. EdgeIndex[i].edge.back \in Seq(Hops)
      BY <1>3 DEF IndexOf, Edge
    <3> HIDE DEF Find
    <3>2. FindSourceIds(link, EdgeIndex[i].edge, {x}) \subseteq Find(i)
      BY <3>1, SourcesGrow DEF Find
    <3>. QED  BY <2>1, <3>2
  <2>3. PICK j \in 1..Len(N(k)) : ats[k][j] = i
    <3>1. Notices(link, fs[k], ids, N(k), ats[k])
      BY <1>7
    <3>2. FindSourceIds(link, EdgeIndex[i].edge, ids) # {}
      BY <2>2 DEF Find
    <3>. QED  BY <2>1, <3>1, <3>2 DEF Notices
  <2>4. PICK m \in 1..Len(flat) : to[m][1] = k /\ to[m][2] = j
    <3>1. seqs[k] = N(k)
      BY <1>4
    <3>. QED  BY <1>6, <2>3, <3>1 DEF Places
  <2>5. block[m] = k /\ edge[m] = i
    BY <1>8, <2>3, <2>4
  <2>6. flat[m] = [field |-> EdgeIndex[i].field, ids |-> Find(i)]
    BY <1>9, <2>5
  <2>7. flat[m].field = EdgeIndex[i].field /\ flat[m].ids = Find(i)
    BY <2>6
  <2>. QED  BY <2>1, <2>2, <2>5, <2>7
<1>13. Notified(link, fs, ids, flat, block, decl)
  <2>1. \A m \in 1..Len(flat) : block[m] \in DOMAIN fs
    BY <1>9
  <2> HIDE DEF Find
  <2>. QED  BY <1>5, <1>10, <1>11, <1>12, <2>1 DEF Notified, S
<1>. QED  BY <1>13 DEF flat
-----------------------------------------------------------------------------
(* The edges cover the paths.                                              *)

(* The edges of a path: one for each hop, then one for the leaf.           *)
HopEdge(p, i) == [on |-> Link, start |-> p.hops[i], back |-> SubSeq(p.hops, 1, i - 1)]
LeafEdge(p) == [on |-> p.leaf, start |-> "self", back |-> p.hops]

(* A path has an edge for each hop and one for its leaf.                   *)
LEMMA EdgesAre ==
    ASSUME NEW p \in Path
    PROVE  /\ Len(p.hops) \in Nat /\ Len(Edges(p)) = Len(p.hops) + 1
           /\ \A i \in 1..Len(p.hops) : Edges(p)[i] = HopEdge(p, i)
           /\ Edges(p)[Len(p.hops) + 1] = LeafEdge(p)
<1>1. p.hops \in Seq(Hops)
  BY DEF Path, Hops
<1>2. Len(p.hops) \in Nat /\ DOMAIN p.hops = 1..Len(p.hops)
  BY <1>1, LenProperties
<1> DEFINE n == Len(p.hops)
           H(i) == HopEdge(p, i)
           at == [i \in 1..n |-> H(i)]
           S == {H(i) : i \in 1..n} \cup {LeafEdge(p)}
<1>3. Edges(p) = Append(at, LeafEdge(p))
  BY <1>2 DEF Edges, HopEdge, LeafEdge
<1> HIDE DEF H
<1>4. at \in Seq(S) /\ Len(at) = n /\ \A i \in 1..n : at[i] = H(i)
  <2>1. \A i \in 1..n : at[i] = H(i) /\ H(i) \in S
    OBVIOUS
  <2>2. at = [i \in 1..n |-> at[i]] /\ DOMAIN at = 1..n
    OBVIOUS
  <2> HIDE DEF at, S
  <2>3. at \in [1..n -> S]
    BY <2>1, <2>2
  <2>. QED  BY <1>2, <2>1, <2>3
<1>5. LeafEdge(p) \in S
  OBVIOUS
<1> HIDE DEF at, S
<1>. QED  BY <1>2, <1>3, <1>4, <1>5, AppendProperties DEF H

(* The edges of f listen only to what a path of f reads.                   *)
LEMMA EdgesListen ==
    ASSUME NEW f \in Computes, NEW e, EdgeOf(f, e)
    PROVE  ListensTo(f, e.on)
<1>1. PICK p \in PathsOf(f) : \E j \in 1..Len(Edges(p)) : e = Edges(p)[j]
  BY DEF EdgeOf
<1>2. PICK j \in 1..Len(Edges(p)) : e = Edges(p)[j]
  BY <1>1
<1>3. p \in Path
  BY PathsAreTyped
<1>4. CASE j \in 1..Len(p.hops)
  <2>1. e.on = Link
    <3>1. e = HopEdge(p, j)
      BY <1>2, <1>3, <1>4, EdgesAre
    <3>. QED  BY <3>1 DEF HopEdge
  <2>2. p.hops # <<>>
    BY <1>4
  <2>. QED  BY <2>1, <2>2 DEF ListensTo
<1>5. CASE j \notin 1..Len(p.hops)
  <2>1. j = Len(p.hops) + 1
    BY <1>3, <1>5, EdgesAre
  <2>2. e.on = p.leaf
    <3>1. e = LeafEdge(p)
      BY <1>2, <1>3, <2>1, EdgesAre
    <3>. QED  BY <3>1 DEF LeafEdge
  <2>. QED  BY <2>2 DEF ListensTo
<1>. QED  BY <1>4, <1>5

(* An edge of f is a way to be led to it, and the only one.                *)
LEMMA LeadsByEdge ==
    ASSUME NEW link, NEW c, NEW x, NEW f \in Computes, NEW r, NEW e, EdgeOf(f, e), e.on = c,
           r \in FindSourceIds(link, e, {x})
    PROVE  Leads(link, <<c, x>>, <<f, r>>)
<1>1. PICK i \in DOMAIN EdgeIndex : EdgeIndex[i] = [field |-> f, edge |-> e]
  BY IndexInOrder
<1>2. EdgeIndex[i].field = f /\ EdgeIndex[i].edge = e
  BY <1>1
<1>. QED  BY <1>2 DEF Leads

LEMMA LeadsAlongEdge ==
    ASSUME NEW link, NEW c, NEW x, NEW f, NEW r, Leads(link, <<c, x>>, <<f, r>>)
    PROVE  /\ f \in Computes
           /\ \E e \in Edge : /\ EdgeOf(f, e) /\ e.on = c
                              /\ r \in FindSourceIds(link, e, {x})
<1>1. PICK decl : IndexOf(decl)
  BY IndexInOrder
<1>2. PICK i \in DOMAIN EdgeIndex :
        /\ EdgeIndex[i].edge.on = c /\ EdgeIndex[i].field = f
        /\ r \in FindSourceIds(link, EdgeIndex[i].edge, {x})
  BY DEF Leads
<1>. QED  BY <1>1, <1>2 DEF IndexOf

(* What a path of f reaches from r leads back to r: its leaf, and the Link *)
(* of every row whose Link the walk goes along.                            *)
LEMMA PathLeads ==
    ASSUME NEW rows, Points(rows), NEW f \in Computes, NEW p \in PathsOf(f), NEW r \in Recs
    PROVE  /\ \A x \in Reach(Cold(rows), p, r) : Leads(Links(rows), <<p.leaf, x>>, <<f, r>>)
           /\ \A i \in 1..Len(p.hops) : \A x \in Walk(Cold(rows), p, r)[i - 1] : \A y \in Recs :
                (IF p.hops[i] = "m2o" THEN y = x ELSE rows[y][Link] = x) =>
                  Leads(Links(rows), <<Link, y>>, <<f, r>>)
<1>1. p \in Path /\ p.hops \in Seq(Hops)
  BY PathsAreTyped
<1>2. /\ Len(p.hops) \in Nat /\ Len(Edges(p)) = Len(p.hops) + 1
      /\ \A i \in 1..Len(p.hops) : Edges(p)[i] = HopEdge(p, i)
      /\ Edges(p)[Len(p.hops) + 1] = LeafEdge(p)
  BY <1>1, EdgesAre
<1>3. Linked(Cold(rows))
  BY ColdReads
<1>4. \A i \in 0..Len(p.hops) : Walk(Cold(rows), p, r)[i] \subseteq Recs
  BY <1>1, <1>3, WalkSteps
<1>5. ASSUME NEW x \in Reach(Cold(rows), p, r)
      PROVE  Leads(Links(rows), <<p.leaf, x>>, <<f, r>>)
  <2> DEFINE e == LeafEdge(p)
  <2>1. e.on = p.leaf /\ e.back = p.hops /\ e.start = "self"
    BY DEF LeafEdge
  <2>2. EdgeOf(f, e)
    <3>1. Len(p.hops) + 1 \in 1..Len(Edges(p))
      BY <1>2
    <3>. QED  BY <1>2, <3>1 DEF EdgeOf
  <2> HIDE DEF e
  <2>3. x \in Walk(Cold(rows), p, r)[Len(e.back)] /\ x \in Recs
    BY <1>2, <1>4, <1>5, <2>1 DEF Reach
  <2>4. x \in StartOf(Links(rows), e, {x})
    BY <2>1 DEF StartOf
  <2>5. r \in FindSourceIds(Links(rows), e, {x})
    BY <1>1, <1>2, <2>1, <2>3, <2>4, WalkBack
  <2>. QED  BY <2>1, <2>2, <2>5, LeadsByEdge
<1>6. ASSUME NEW i \in 1..Len(p.hops), NEW x \in Walk(Cold(rows), p, r)[i - 1], NEW y \in Recs,
             IF p.hops[i] = "m2o" THEN y = x ELSE rows[y][Link] = x
      PROVE  Leads(Links(rows), <<Link, y>>, <<f, r>>)
  <2> DEFINE e == HopEdge(p, i)
  <2>1. e.on = Link /\ e.back = SubSeq(p.hops, 1, i - 1) /\ e.start = p.hops[i]
    BY DEF HopEdge
  <2>2. EdgeOf(f, e)
    <3>1. i \in 1..Len(Edges(p))
      BY <1>2
    <3>. QED  BY <1>2, <3>1 DEF EdgeOf
  <2> HIDE DEF e
  <2>3. /\ e.back \in Seq(Hops) /\ Len(e.back) = i - 1
        /\ \A k \in 1..(i - 1) : e.back[k] = p.hops[k]
    <3>1. 1 \in 1..Len(p.hops) + 1 /\ i - 1 \in 1 - 1 .. Len(p.hops)
      BY <1>2
    <3>2. /\ SubSeq(p.hops, 1, i - 1) \in Seq(Hops)
          /\ Len(SubSeq(p.hops, 1, i - 1)) = IF 1 <= i - 1 THEN (i - 1) - 1 + 1 ELSE 0
          /\ \A k \in 1 .. (i - 1) - 1 + 1 : SubSeq(p.hops, 1, i - 1)[k] = p.hops[1 + k - 1]
      BY <1>1, <3>1, SubSeqProperties
    <3>. QED  BY <1>2, <2>1, <3>2
  <2>4. x \in Recs /\ x # None
    <3>1. i - 1 \in 0..Len(p.hops)
      BY <1>2
    <3>. QED  BY <1>4, <3>1, Schema
  <2>5. p.hops[i] \in Hops
    BY <1>1, ElementOfSeq
  <2>6. x \in StartOf(Links(rows), e, {y})
    <3>1. CASE p.hops[i] = "m2o"
      BY <1>6, <2>1, <3>1 DEF StartOf
    <3>2. CASE p.hops[i] = "o2m"
      <4>1. Links(rows)[y] = x
        BY <1>6, <3>2 DEF Links
      <4>. QED  BY <2>1, <2>4, <3>2, <4>1 DEF StartOf, Back
    <3>. QED  BY <2>5, <3>1, <3>2 DEF Hops
  <2>7. r \in FindSourceIds(Links(rows), e, {y})
    <3>1. Len(e.back) <= Len(p.hops) /\ x \in Walk(Cold(rows), p, r)[Len(e.back)]
      BY <1>2, <2>3
    <3>2. \A k \in 1..Len(e.back) : e.back[k] = p.hops[k]
      BY <2>3
    <3>. QED  BY <1>1, <2>3, <2>6, <3>1, <3>2, WalkBack
  <2>. QED  BY <2>1, <2>2, <2>7, LeadsByEdge
<1>. QED  BY <1>5, <1>6
-----------------------------------------------------------------------------
(* What the database says every field should be.                           *)
LEMMA TruthIs ==
    ASSUME NEW rows, NEW f \in Fields, NEW r \in Recs
    PROVE  Truth(rows)[f][r] = IF f \in Computes THEN Gather(Cold(rows), f, r, Truth(rows))
                                                 ELSE AsFacts(r, f, rows[r][f])
<1> DEFINE cold == Cold(rows)
           open == Recs \X Computes
           given == [g \in Fields |-> [x \in Recs |-> AsFacts(x, g, rows[x][g])]]
           Right(val) == val = [g \in Fields |-> [x \in Recs |->
                           IF g \in Computes THEN Gather(cold, g, x, val)
                                             ELSE AsFacts(x, g, rows[x][g])]]
<1>1. Truth(rows) = CHOOSE val : Right(val)
  BY DEF Truth, Cold
<1> HIDE DEF cold
<1>2. \A g \in Fields, x \in Recs : given[g][x] = AsFacts(x, g, rows[x][g])
  OBVIOUS
<1>3. \A g \in Fields, x \in Recs : <<x, g>> \in open <=> g \in Computes
  OBVIOUS
<1>4. open \in SUBSET (Recs \X Computes)
  OBVIOUS
<1> HIDE DEF open, given
<1>5. ASSUME NEW val
      PROVE  Right(val) <=> Solves(cold, open, given, val)
  <2> DEFINE A(g, x) == IF g \in Computes THEN Gather(cold, g, x, val)
                                         ELSE AsFacts(x, g, rows[x][g])
             B(g, x) == IF <<x, g>> \in open THEN Gather(cold, g, x, val) ELSE given[g][x]
  <2>1. \A g \in Fields, x \in Recs : A(g, x) = B(g, x)
    BY <1>2, <1>3
  <2>2. /\ Right(val) <=> val = [g \in Fields |-> [x \in Recs |-> A(g, x)]]
        /\ Solves(cold, open, given, val) <=> val = [g \in Fields |-> [x \in Recs |-> B(g, x)]]
    BY DEF Solves
  <2> HIDE DEF A, B, Right
  <2>. QED  BY <2>1, <2>2
<1>6. \E val : Right(val)
  BY <1>5, <1>4, Solvable
<1>7. Right(Truth(rows))
  <2> HIDE DEF Right
  <2>. QED  BY <1>1, <1>6
<1> DEFINE t == Truth(rows)
           C(g, x) == IF g \in Computes THEN Gather(cold, g, x, t) ELSE AsFacts(x, g, rows[x][g])
<1>8. t = [g \in Fields |-> [x \in Recs |-> C(g, x)]]
  BY <1>7
<1> HIDE DEF t, C, Right
<1>9. t[f][r] = C(f, r)
  BY <1>8
<1>. QED  BY <1>9 DEF t, C, cold

(* The same for what a reader gets.                                        *)
LEMMA ValueIs ==
    ASSUME NEW v, NEW f \in Fields, NEW r \in Recs
    PROVE  Value(v)[f][r] = IF v.cache[r][f] # Absent THEN AsFacts(r, f, v.cache[r][f])
                            ELSE IF f \in Columns THEN AsFacts(r, f, v.row[r][f])
                            ELSE Gather(v, f, r, Value(v))
<1> DEFINE open == {c \in Recs \X Computes : v.cache[c[1]][c[2]] = Absent /\ c[2] \notin Columns}
           Given(g, x) == IF v.cache[x][g] # Absent THEN AsFacts(x, g, v.cache[x][g])
                          ELSE AsFacts(x, g, v.row[x][g])
           given == [g \in Fields |-> [x \in Recs |-> Given(g, x)]]
           Right(val) == val = [g \in Fields |-> [x \in Recs |->
                           IF v.cache[x][g] /= Absent THEN AsFacts(x, g, v.cache[x][g])
                           ELSE IF g \in Columns THEN AsFacts(x, g, v.row[x][g])
                           ELSE Gather(v, g, x, val)]]
<1>1. Value(v) = CHOOSE val : Right(val)
  BY DEF Value
<1>2. \A g \in Fields, x \in Recs :
        <<x, g>> \in open <=> v.cache[x][g] = Absent /\ g \notin Columns
  BY ColumnOrLazy
<1>3. \A g \in Fields, x \in Recs : given[g][x] = Given(g, x)
  OBVIOUS
<1>4. open \in SUBSET (Recs \X Computes)
  OBVIOUS
<1> HIDE DEF open, given
<1>5. ASSUME NEW val
      PROVE  Right(val) <=> Solves(v, open, given, val)
  <2> DEFINE A(g, x) == IF v.cache[x][g] /= Absent THEN AsFacts(x, g, v.cache[x][g])
                        ELSE IF g \in Columns THEN AsFacts(x, g, v.row[x][g])
                        ELSE Gather(v, g, x, val)
             B(g, x) == IF <<x, g>> \in open THEN Gather(v, g, x, val) ELSE given[g][x]
  <2>1. \A g \in Fields, x \in Recs : A(g, x) = B(g, x)
    BY <1>2, <1>3
  <2>2. /\ Right(val) <=> val = [g \in Fields |-> [x \in Recs |-> A(g, x)]]
        /\ Solves(v, open, given, val) <=> val = [g \in Fields |-> [x \in Recs |-> B(g, x)]]
    BY DEF Solves
  <2> HIDE DEF A, B, Right
  <2>. QED  BY <2>1, <2>2
<1>6. \E val : Right(val)
  BY <1>4, <1>5, Solvable
<1>7. Right(Value(v))
  <2> HIDE DEF Right
  <2>. QED  BY <1>1, <1>6
<1> DEFINE t == Value(v)
           C(g, x) == IF v.cache[x][g] # Absent THEN AsFacts(x, g, v.cache[x][g])
                      ELSE IF g \in Columns THEN AsFacts(x, g, v.row[x][g])
                      ELSE Gather(v, g, x, t)
<1>8. t = [g \in Fields |-> [x \in Recs |-> C(g, x)]]
  BY <1>7
<1> HIDE DEF t, C, Right
<1>9. t[f][r] = C(f, r)
  BY <1>8
<1>. QED  BY <1>9 DEF t, C

(* Two readers of the same cells gather the same.                          *)
LEMMA GathersAgree ==
    ASSUME NEW v, NEW w, NEW f, NEW r, NEW a, NEW b,
           \A p \in PathsOf(f) : /\ Reach(w, p, r) = Reach(v, p, r)
                                 /\ \A x \in Reach(v, p, r) : a[p.leaf][x] = b[p.leaf][x]
    PROVE  Gather(v, f, r, a) = Gather(w, f, r, b)
<1> DEFINE A(p) == UNION {a[p.leaf][x] : x \in Reach(v, p, r)}
           B(p) == UNION {b[p.leaf][x] : x \in Reach(w, p, r)}
<1>1. \A p \in PathsOf(f) : A(p) = B(p)
  <2> TAKE p \in PathsOf(f)
  <2>1. {a[p.leaf][x] : x \in Reach(v, p, r)} = {b[p.leaf][x] : x \in Reach(w, p, r)}
    OBVIOUS
  <2>. QED  BY <2>1
<1>2. Gather(v, f, r, a) = UNION {A(p) : p \in PathsOf(f)} /\
        Gather(w, f, r, b) = UNION {B(p) : p \in PathsOf(f)}
  BY DEF Gather
<1> HIDE DEF A, B
<1>3. {A(p) : p \in PathsOf(f)} = {B(p) : p \in PathsOf(f)}
  BY <1>1
<1>. QED  BY <1>2, <1>3
-----------------------------------------------------------------------------
(* What a change of rows changes. No row leaves a parent that a One2many   *)
(* path may have gone through.                                             *)
NoneLeaves(rows0, rows1) ==
    \/ UpOnly
    \/ \A y \in Recs : rows0[y][Link] # rows1[y][Link] => rows0[y][Link] = None

(* A Link that differs leads to field f of r.                              *)
Rerouted(rows0, rows1, f, r) ==
    \E y \in Recs : /\ rows0[y][Link] # rows1[y][Link]
                    /\ Leads(Links(rows1), <<Link, y>>, <<f, r>>)

(* A path that no changed Link lies on reaches what it did.                *)
LEMMA WalksKept ==
    ASSUME NEW rows0, Points(rows0), NEW rows1, Points(rows1), NoneLeaves(rows0, rows1),
           NEW f \in Computes, NEW r \in Recs, ~Rerouted(rows0, rows1, f, r),
           NEW p \in PathsOf(f)
    PROVE  Reach(Cold(rows1), p, r) = Reach(Cold(rows0), p, r) /\
             Reach(Cold(rows1), p, r) \subseteq Recs
<1> DEFINE n == Len(p.hops)
           v == Cold(rows0)
           w == Cold(rows1)
           a == Walk(v, p, r)
           b == Walk(w, p, r)
           T == {i \in Nat : i <= n => b[i] = a[i]}
<1>1. p.hops \in Seq(Hops)
  BY PathsAreTyped
<1>2. /\ Linked(v) /\ Linked(w)
      /\ \A x \in Recs : /\ LinkIn(v, x) = rows0[x][Link] /\ LinkIn(w, x) = rows1[x][Link]
                         /\ KidsIn(v, x) = ChildrenOf(rows0, x) /\ KidsIn(w, x) = ChildrenOf(rows1, x)
  BY ColdReads
<1>3. /\ n \in Nat /\ a[0] = {r} /\ b[0] = {r}
      /\ \A i \in 1..n : a[i] = HopFrom(v, p.hops[i], a[i - 1])
      /\ \A i \in 1..n : b[i] = HopFrom(w, p.hops[i], b[i - 1])
      /\ \A i \in 0..n : a[i] \subseteq Recs
      /\ \A i \in 0..n : b[i] \subseteq Recs
  <2>1. /\ n \in Nat /\ a[0] = {r}
        /\ \A i \in 1..n : a[i] = HopFrom(v, p.hops[i], a[i - 1])
        /\ \A i \in 0..n : a[i] \subseteq Recs
    BY <1>1, <1>2, WalkSteps
  <2>2. /\ b[0] = {r} /\ \A i \in 1..n : b[i] = HopFrom(w, p.hops[i], b[i - 1])
        /\ \A i \in 0..n : b[i] \subseteq Recs
    BY <1>1, <1>2, WalkSteps
  <2>. QED  BY <2>1, <2>2
<1>4. \A i \in 1..n : \A x \in b[i - 1] : \A y \in Recs :
        (IF p.hops[i] = "m2o" THEN y = x ELSE rows1[y][Link] = x) =>
           rows0[y][Link] = rows1[y][Link]
  BY PathLeads DEF Rerouted
<1> HIDE DEF a, b, n, v, w
<1>5. 0 \in T
  BY <1>3
<1>6. ASSUME NEW i \in Nat, i \in T
      PROVE  i + 1 \in T
  <2>1. SUFFICES ASSUME i + 1 <= n PROVE b[i + 1] = a[i + 1]
    OBVIOUS
  <2> DEFINE X == a[i]
             h == p.hops[i + 1]
  <2>2. i + 1 \in 1..n /\ (i + 1) - 1 = i /\ i \in 0..n /\ b[i] = X /\ X \subseteq Recs
    BY <1>3, <1>6, <2>1
  <2>3. b[i + 1] = HopFrom(w, h, X) /\ a[i + 1] = HopFrom(v, h, X)
    BY <1>3, <2>2
  <2>4. \A x \in X : \A y \in Recs :
          (IF h = "m2o" THEN y = x ELSE rows1[y][Link] = x) => rows0[y][Link] = rows1[y][Link]
    BY <1>4, <2>2
  <2>5. h \in Hops
    BY <1>1, <2>2, ElementOfSeq DEF n
  <2>6. h # "m2o" => ~UpOnly
    <3>1. i + 1 \in DOMAIN p.hops
      BY <1>1, <2>2, LenProperties DEF n
    <3>. QED  BY <3>1 DEF UpOnly
  <2> HIDE DEF X, h
  <2>7. CASE h = "m2o"
    <3>1. \A x \in X : LinkIn(w, x) = LinkIn(v, x)
      BY <1>2, <2>2, <2>4, <2>7
    <3>. QED  BY <2>3, <2>7, <3>1 DEF HopFrom
  <2>8. CASE h # "m2o"
    <3>1. ASSUME NEW x \in X
          PROVE  KidsIn(w, x) = KidsIn(v, x)
      <4>1. x \in Recs /\ x # None
        BY <2>2, Schema
      <4>2. \A y \in Recs : rows1[y][Link] = x => rows0[y][Link] = x
        BY <2>4, <2>8
      <4>3. \A y \in Recs : rows0[y][Link] = x => rows1[y][Link] = x
        BY <2>6, <2>8, <4>1 DEF NoneLeaves
      <4>4. ChildrenOf(rows1, x) = ChildrenOf(rows0, x)
        BY <4>2, <4>3 DEF ChildrenOf
      <4>. QED  BY <1>2, <4>1, <4>4
    <3>. QED  BY <2>3, <2>8, <3>1 DEF HopFrom
  <2>. QED  BY <2>7, <2>8
<1>7. Nat \subseteq T
  <2> HIDE DEF T
  <2>. QED  BY <1>5, <1>6, NatSet
<1>8. b[n] = a[n] /\ b[n] \subseteq Recs
  BY <1>3, <1>7
<1>. QED  BY <1>8 DEF a, b, n, v, w, Reach

(* A computed field that should be something else reads a cell that should *)
(* be something else, or the walk to what it reads has changed.            *)
LEMMA ChangedLocally ==
    ASSUME NEW rows0, Points(rows0), NEW rows1, Points(rows1), NoneLeaves(rows0, rows1),
           NEW f \in Computes, NEW r \in Recs, ~Rerouted(rows0, rows1, f, r),
           Truth(rows0)[f][r] # Truth(rows1)[f][r]
    PROVE  \E p \in PathsOf(f) : \E x \in Recs :
             /\ x \in Reach(Cold(rows0), p, r) /\ x \in Reach(Cold(rows1), p, r)
             /\ Truth(rows0)[p.leaf][x] # Truth(rows1)[p.leaf][x]
<1>1. \A p \in PathsOf(f) : /\ Reach(Cold(rows1), p, r) = Reach(Cold(rows0), p, r)
                            /\ Reach(Cold(rows1), p, r) \subseteq Recs
  BY WalksKept
<1> SUFFICES ASSUME \A p \in PathsOf(f) : \A x \in Reach(Cold(rows0), p, r) :
                      Truth(rows0)[p.leaf][x] = Truth(rows1)[p.leaf][x]
             PROVE  FALSE
  BY <1>1
<1>2. f \in Fields
  BY DEF Computes, Fields, Columns
<1>3. /\ Truth(rows0)[f][r] = Gather(Cold(rows0), f, r, Truth(rows0))
      /\ Truth(rows1)[f][r] = Gather(Cold(rows1), f, r, Truth(rows1))
  BY <1>2, TruthIs
<1>. QED  BY <1>1, <1>3, GathersAgree

(* A plain column is what the row says.                                    *)
LEMMA PlainTruth ==
    ASSUME NEW rows, NEW f \in Fields \ Computes, NEW r \in Recs
    PROVE  Truth(rows)[f][r] = AsFacts(r, f, rows[r][f])
BY TruthIs

(* C is closed: nothing leads out of it. The changes of rows lead into C.  *)
Closed(link, C) == \A c \in C : \A d \in Computes \X Recs : Leads(link, c, d) => d \in C
Seeded(rows0, rows1, C) ==
    \A g \in Fields \ Computes : \A y \in Recs : rows0[y][g] # rows1[y][g] =>
      \A d \in Computes \X Recs : Leads(Links(rows1), <<g, y>>, d) => d \in C

(* Every computed field that should be something else is in every set of   *)
(* cells that the changes lead into and that nothing leads out of.         *)
LEMMA TruthChangeIsDue ==
    ASSUME NEW rows0, Points(rows0), NEW rows1, Points(rows1), NoneLeaves(rows0, rows1),
           NEW C, Closed(Links(rows1), C), Seeded(rows0, rows1, C)
    PROVE  \A f \in Computes : \A r \in Recs : Truth(rows0)[f][r] # Truth(rows1)[f][r] =>
             <<f, r>> \in C
<1>1. PICK rank : IsRank(rank)
  BY FieldsAreRanked
<1>2. rank \in [Fields -> 0 .. Len(Decl)] /\ Len(Decl) \in Nat
  BY <1>1, FieldsAreRanked DEF IsRank
<1> DEFINE Differs(f, r) == Truth(rows0)[f][r] # Truth(rows1)[f][r]
           T == {k \in Nat : \A f \in Computes : \A r \in Recs :
                   rank[f] <= k /\ Differs(f, r) => <<f, r>> \in C}
<1>3. Computes \subseteq Fields /\ Link \in Fields \ Computes
  BY Schema, GraphAssumption DEF Computes, Fields, Columns
<1>4. 0 \in T
  <2>1. \A f \in Computes : ~(rank[f] <= 0)
    BY <1>1, <1>2, <1>3 DEF IsRank
  <2>. QED  BY <2>1
<1>5. ASSUME NEW k \in Nat, k \in T
      PROVE  k + 1 \in T
  <2>1. SUFFICES ASSUME NEW f \in Computes, NEW r \in Recs, rank[f] <= k + 1, Differs(f, r)
                 PROVE  <<f, r>> \in C
    OBVIOUS
  <2>2. <<f, r>> \in Computes \X Recs
    OBVIOUS
  <2>3. CASE Rerouted(rows0, rows1, f, r)
    BY <1>3, <2>2, <2>3 DEF Rerouted, Seeded
  <2>4. CASE ~Rerouted(rows0, rows1, f, r)
    <3>1. PICK p \in PathsOf(f), x \in Recs :
            x \in Reach(Cold(rows1), p, r) /\ Differs(p.leaf, x)
      BY <2>1, <2>4, ChangedLocally
    <3>2. Leads(Links(rows1), <<p.leaf, x>>, <<f, r>>)
      BY <3>1, PathLeads
    <3>3. p.leaf \in Fields /\ rank[p.leaf] < rank[f]
      BY <1>1 DEF IsRank
    <3>4. CASE p.leaf \in Computes
      <4>1. rank[p.leaf] <= k
        BY <1>2, <1>3, <2>1, <3>3
      <4>2. <<p.leaf, x>> \in C
        BY <1>5, <3>1, <3>4, <4>1
      <4>. QED  BY <2>2, <3>2, <4>2 DEF Closed
    <3>5. CASE p.leaf \notin Computes
      <4>1. p.leaf \in Fields \ Computes
        BY <3>3, <3>5
      <4>2. rows0[x][p.leaf] # rows1[x][p.leaf]
        BY <3>1, <4>1, PlainTruth
      <4>. QED  BY <2>2, <3>2, <4>1, <4>2 DEF Seeded
    <3>. QED  BY <3>4, <3>5
  <2>. QED  BY <2>3, <2>4
<1>6. Nat \subseteq T
  <2> HIDE DEF T
  <2>. QED  BY <1>4, <1>5, NatSet
<1>7. ASSUME NEW f \in Computes, NEW r \in Recs, Differs(f, r)
      PROVE  <<f, r>> \in C
  <2>1. rank[f] \in Nat /\ rank[f] \in T
    BY <1>2, <1>3, <1>6
  <2>. QED  BY <1>7, <2>1
<1>. QED  BY <1>7

(* Only the plain columns decide what a computed field should be.          *)
LEMMA TruthReads ==
    ASSUME NEW rows0, Points(rows0), NEW rows1,
           \A y \in Recs : \A g \in Fields \ Computes : rows0[y][g] = rows1[y][g]
    PROVE  \A f \in Fields : \A r \in Recs : Truth(rows0)[f][r] = Truth(rows1)[f][r]
<1>1. Link \in Fields \ Computes
  BY Schema, GraphAssumption DEF Computes, Fields, Columns
<1>2. Points(rows1) /\ NoneLeaves(rows0, rows1)
  BY <1>1 DEF Points, NoneLeaves
<1>3. \A f \in Computes : \A r \in Recs : Truth(rows0)[f][r] # Truth(rows1)[f][r] => <<f, r>> \in {}
  <2>1. PICK C : C = {}
    OBVIOUS
  <2>2. Closed(Links(rows1), C) /\ Seeded(rows0, rows1, C)
    BY <2>1 DEF Closed, Seeded
  <2>3. \A f \in Computes : \A r \in Recs : Truth(rows0)[f][r] # Truth(rows1)[f][r] => <<f, r>> \in C
    BY <1>2, <2>2, TruthChangeIsDue
  <2>. QED  BY <2>1, <2>3
<1>. QED  BY <1>3, PlainTruth
-----------------------------------------------------------------------------
(* What reading loads.                                                     *)
LoadCells(v, f, r, load) ==
    UNION {HopCells(v, p, r) \cup UNION {load[p.leaf][x] : x \in Reach(v, p, r)} : p \in PathsOf(f)}
LoadsOf(v, f, r, load) ==
    IF v.cache[r][f] # Absent THEN {}
    ELSE {<<r, f>>} \cup IF f \in Columns THEN {} ELSE LoadCells(v, f, r, load)

(* What is loaded for f comes from what f reads alone,                     *)
LEMMA LoadCellsReads ==
    ASSUME NEW v, NEW f, NEW r, NEW a, NEW b, \A p \in PathsOf(f) : a[p.leaf] = b[p.leaf]
    PROVE  LoadCells(v, f, r, a) = LoadCells(v, f, r, b)
<1> DEFINE A(p) == HopCells(v, p, r) \cup UNION {a[p.leaf][x] : x \in Reach(v, p, r)}
           B(p) == HopCells(v, p, r) \cup UNION {b[p.leaf][x] : x \in Reach(v, p, r)}
<1>1. \A p \in PathsOf(f) : A(p) = B(p)
  OBVIOUS
<1>2. LoadCells(v, f, r, a) = UNION {A(p) : p \in PathsOf(f)} /\
        LoadCells(v, f, r, b) = UNION {B(p) : p \in PathsOf(f)}
  BY DEF LoadCells
<1> HIDE DEF A, B
<1>3. {A(p) : p \in PathsOf(f)} = {B(p) : p \in PathsOf(f)}
  BY <1>1
<1>. QED  BY <1>2, <1>3

LoadsRight(v, load) == load = [f \in Fields |-> [r \in Recs |-> LoadsOf(v, f, r, load)]]

(* so there is a way to load, field by field in the order of the rank,     *)
LEMMA Loadable ==
    ASSUME NEW v
    PROVE  \E load : LoadsRight(v, load)
<1>1. PICK rank : IsRank(rank)
  BY FieldsAreRanked
<1> DEFINE Cell(f, r, val) == LoadsOf(v, f, r, val)
           Upto(k, val) ==
             /\ val = [f \in Fields |-> [r \in Recs |-> val[f][r]]]
             /\ \A f \in Fields : rank[f] <= k => \A r \in Recs : val[f][r] = Cell(f, r, val)
           T == {k \in Nat : \E val : Upto(k, val)}
<1>2. rank \in [Fields -> 0 .. Len(Decl)] /\ Len(Decl) \in Nat
  BY <1>1, FieldsAreRanked DEF IsRank
<1> DEFINE Plain(f, r) == IF v.cache[r][f] # Absent THEN {} ELSE {<<r, f>>}
<1>3. 0 \in T
  <2> DEFINE val == [f \in Fields |-> [r \in Recs |-> Plain(f, r)]]
  <2> HIDE DEF Plain
  <2>1. val = [f \in Fields |-> [r \in Recs |-> val[f][r]]]
    OBVIOUS
  <2>2. ASSUME NEW f \in Fields, rank[f] <= 0, NEW r \in Recs
        PROVE  val[f][r] = Cell(f, r, val)
    <3>1. f \notin Computes
      BY <1>1, <1>2, <2>2 DEF IsRank
    <3>2. f \in Columns
      BY <3>1, ColumnOrLazy
    <3>3. val[f][r] = Plain(f, r)
      OBVIOUS
    <3> HIDE DEF val
    <3>. QED  BY <3>2, <3>3 DEF LoadsOf, Plain
  <2> HIDE DEF val, Cell
  <2>3. Upto(0, val)
    BY <2>1, <2>2
  <2>. QED  BY <2>3
<1>4. ASSUME NEW k \in Nat, k \in T
      PROVE  k + 1 \in T
  <2>1. PICK g : Upto(k, g)
    BY <1>4
  <2> DEFINE h == [f \in Fields |-> [r \in Recs |->
                     IF rank[f] <= k THEN g[f][r] ELSE Cell(f, r, g)]]
  <2> HIDE DEF Cell
  <2>2. \A f \in Fields : rank[f] <= k => h[f] = g[f]
    <3>1. \A f \in Fields : g[f] = [r \in Recs |-> g[f][r]]
      BY <2>1
    <3>. QED  BY <3>1
  <2>3. ASSUME NEW f \in Fields, rank[f] <= k + 1, NEW r \in Recs
        PROVE  Cell(f, r, h) = Cell(f, r, g)
    <3>1. CASE f \in Columns
      BY <3>1 DEF Cell, LoadsOf
    <3>2. CASE f \notin Columns
      <4>1. f \in Computes
        BY <3>2, ColumnOrLazy
      <4>2. ASSUME NEW p \in PathsOf(f)
            PROVE  h[p.leaf] = g[p.leaf]
        <5>1. p.leaf \in Fields /\ rank[p.leaf] < rank[f]
          BY <1>1, <4>1 DEF IsRank
        <5>2. rank[p.leaf] \in Nat /\ rank[f] \in Nat
          BY <1>2, <5>1
        <5>3. rank[p.leaf] <= k
          BY <2>3, <5>1, <5>2
        <5> HIDE DEF h
        <5>. QED  BY <2>2, <5>1, <5>3
      <4> HIDE DEF h
      <4>3. LoadCells(v, f, r, h) = LoadCells(v, f, r, g)
        BY <4>2, LoadCellsReads
      <4>. QED  BY <4>3 DEF Cell, LoadsOf
    <3>. QED  BY <3>1, <3>2
  <2>4. ASSUME NEW f \in Fields, rank[f] <= k + 1, NEW r \in Recs
        PROVE  h[f][r] = Cell(f, r, h)
    <3>1. CASE rank[f] <= k
      <4>1. h[f][r] = g[f][r] /\ g[f][r] = Cell(f, r, g)
        BY <2>1, <3>1
      <4>. QED  BY <2>3, <2>4, <4>1
    <3>2. CASE ~(rank[f] <= k)
      <4>1. h[f][r] = Cell(f, r, g)
        BY <3>2
      <4> HIDE DEF h
      <4>. QED  BY <2>3, <2>4, <4>1
    <3>. QED  BY <3>1, <3>2
  <2>5. h = [f \in Fields |-> [r \in Recs |-> h[f][r]]]
    OBVIOUS
  <2> HIDE DEF h
  <2>6. Upto(k + 1, h)
    BY <2>4, <2>5
  <2>. QED  BY <2>6
<1>5. Nat \subseteq T
  <2> HIDE DEF T
  <2>. QED  BY <1>3, <1>4, NatSet
<1>6. PICK val : Upto(Len(Decl), val)
  BY <1>2, <1>5
<1>7. \A f \in Fields : rank[f] <= Len(Decl)
  BY <1>2
<1>8. \A f \in Fields : \A r \in Recs : val[f][r] = LoadsOf(v, f, r, val)
  BY <1>6, <1>7
<1>9. val = [f \in Fields |-> [r \in Recs |-> val[f][r]]]
  BY <1>6
<1>10. LoadsRight(v, val)
  <2>1. [f \in Fields |-> [r \in Recs |-> val[f][r]]] = [f \in Fields |-> [r \in Recs |-> LoadsOf(v, f, r, val)]]
    BY <1>8
  <2>. QED  BY <1>9, <2>1 DEF LoadsRight
<1>. QED  BY <1>10

(* and Loads is it.                                                        *)
LEMMA LoadsIs ==
    ASSUME NEW v
    PROVE  /\ \A f \in Fields, r \in Recs : Loads(v)[f][r] = LoadsOf(v, f, r, Loads(v))
           /\ \A f, r : MethodLoads(v, f, r) = LoadCells(v, f, r, Loads(v))
<1>1. Loads(v) = CHOOSE load : LoadsRight(v, load)
  BY DEF Loads, LoadsRight, LoadsOf, LoadCells
<1>2. LoadsRight(v, Loads(v))
  BY <1>1, Loadable
<1> DEFINE t == Loads(v)
<1> HIDE DEF t
<1>3. t = [f \in Fields |-> [r \in Recs |-> LoadsOf(v, f, r, t)]]
  BY <1>2 DEF LoadsRight, t
<1>4. \A f \in Fields, r \in Recs : t[f][r] = LoadsOf(v, f, r, t)
  BY <1>3
<1>5. \A f, r : MethodLoads(v, f, r) = LoadCells(v, f, r, Loads(v))
  BY DEF MethodLoads, LoadCells
<1>. QED  BY <1>4, <1>5 DEF t
-----------------------------------------------------------------------------
(* A cache that mirrors the rows reads what the rows say.                  *)
LEMMA Kinds ==
    /\ Lazy \cap Columns = {} /\ Lazy \subseteq Fields /\ Lazy \subseteq Computes
    /\ Stored \subseteq Columns /\ Stored \subseteq Computes /\ Computes \subseteq Fields
    /\ Columns \subseteq Fields /\ Link \in Columns /\ Link \notin Computes
    /\ \A f \in Fields : f \in Columns \/ f \in Lazy
    /\ \A f \in Columns : f \in Stored \/ f \in Fields \ Computes
    /\ \A f \in Computes : f \in Stored \/ f \in Lazy
BY GraphAssumption DEF Computes, Columns, Fields

(* A mirrored cache leads to the same records as the rows.                 *)
LEMMA OKPoints == \A rows, live : RowsOK(rows, live) => Points(rows)
BY DEF RowsOK, Points

LEMMA MirrorWalks ==
    ASSUME NEW v, Mirrors(v), Points(v.row), NEW f \in Computes, NEW p \in PathsOf(f), NEW r \in Recs
    PROVE  Reach(v, p, r) = Reach(Cold(v.row), p, r) /\ Reach(Cold(v.row), p, r) \subseteq Recs
<1>1. p.hops \in Seq(Hops)
  BY PathsAreTyped
<1>2. /\ Linked(Cold(v.row))
      /\ \A x \in Recs : /\ LinkIn(Cold(v.row), x) = v.row[x][Link]
                         /\ KidsIn(Cold(v.row), x) = ChildrenOf(v.row, x)
  BY ColdReads
<1>3. \A x \in Recs : LinkIn(v, x) = v.row[x][Link] /\ KidsIn(v, x) = ChildrenOf(v.row, x)
  BY ReadsRows
<1>. QED  BY <1>1, <1>2, <1>3, WalksAgree

(* A path reaches rows that exist.                                         *)
LEMMA AliveWalks ==
    ASSUME NEW rows, NEW live, RowsOK(rows, live), NEW f \in Computes, NEW p \in PathsOf(f),
           NEW r \in live
    PROVE  Reach(Cold(rows), p, r) \subseteq live
<1>1. Points(rows) /\ live \subseteq Recs
  BY OKPoints DEF RowsOK
<1>2. \A x \in live : /\ LinkIn(Cold(rows), x) = rows[x][Link]
                      /\ KidsIn(Cold(rows), x) = ChildrenOf(rows, x)
  BY <1>1, ColdReads
<1>3. \A x \in live : rows[x][Link] \in live \cup {None}
  BY <1>1 DEF RowsOK
<1>4. \A x \in live : ChildrenOf(rows, x) \subseteq live
  <2> SUFFICES ASSUME NEW x \in live, NEW y \in Recs, rows[y][Link] = x, y \notin live
               PROVE  FALSE
    BY DEF ChildrenOf
  <2>1. rows[y][Link] = None
    BY Schema DEF RowsOK
  <2>. QED  BY <2>1, <1>1, Schema
<1>5. p.hops \in Seq({"m2o", "o2m"})
  BY PathsAreTyped DEF Hops
<1>. QED  BY <1>2, <1>3, <1>4, <1>5, ReachStays

(* A column reads as its row has it.                                       *)
LEMMA ColumnRead ==
    ASSUME NEW v, Mirrors(v), NEW g \in Columns, NEW x \in Recs
    PROVE  /\ Value(v)[g][x] = AsFacts(x, g, v.row[x][g])
           /\ Loads(v)[g][x] \subseteq {<<x, g>>}
<1>1. g \in Fields /\ v.cache[x][g] \in {Absent, v.row[x][g]}
  BY Schema DEF Mirrors
<1>2. Value(v)[g][x] = AsFacts(x, g, v.row[x][g])
  BY <1>1, ValueIs
<1>3. Loads(v)[g][x] = LoadsOf(v, g, x, Loads(v))
  BY <1>1, LoadsIs
<1>4. LoadsOf(v, g, x, Loads(v)) \subseteq {<<x, g>>}
  BY DEF LoadsOf
<1>. QED  BY <1>2, <1>3, <1>4

(* A column that is not what its method would return now.                  *)
Wrong(rows, live, f, x) == x \in live /\ f \in Stored /\ rows[x][f] # Truth(rows)[f][x]

(* A column that is not wrong holds what it should. A None would read as   *)
(* no facts, so it is told apart from every set of facts.                  *)
LEMMA ColumnFacts ==
    ASSUME None \notin SUBSET Facts, NEW rows, TypedRows(rows), NEW live, NEW g \in Columns,
           NEW x \in Recs, x \in live, ~Wrong(rows, live, g, x)
    PROVE  AsFacts(x, g, rows[x][g]) = Truth(rows)[g][x]
<1>1. CASE g \in Stored
  <2>1. rows[x][g] = Truth(rows)[g][x]
    BY <1>1 DEF Wrong
  <2>2. Truth(rows)[g][x] \subseteq Facts
    BY Kinds, TruthIsFacts
  <2>. QED  BY <1>1, <2>1, <2>2, Kinds DEF AsFacts
<1>2. CASE g \notin Stored
  BY <1>2, Kinds, PlainTruth
<1>. QED  BY <1>1, <1>2

(* A method whose inputs are right returns what it should.                 *)
LEMMA ResultRight ==
    ASSUME None \notin SUBSET Facts, NEW v, Mirrors(v), TypedRows(v.row),
           NEW live, RowsOK(v.row, live), NEW f \in Stored,
           \A p \in PathsOf(f) : p.leaf \in Columns, NEW r \in live,
           \A p \in PathsOf(f) : \A x \in Reach(Cold(v.row), p, r) : ~Wrong(v.row, live, p.leaf, x)
    PROVE  Result(v, f, r) = Truth(v.row)[f][r]
<1>1. Points(v.row) /\ r \in Recs /\ live \subseteq Recs /\ f \in Computes /\ f \in Fields
  BY OKPoints, Kinds DEF RowsOK
<1>2. \A p \in PathsOf(f) : /\ Reach(v, p, r) = Reach(Cold(v.row), p, r)
                            /\ Reach(Cold(v.row), p, r) \subseteq live
  BY <1>1, MirrorWalks, AliveWalks
<1>3. ASSUME NEW p \in PathsOf(f), NEW x \in Reach(Cold(v.row), p, r)
      PROVE  Value(v)[p.leaf][x] = Truth(v.row)[p.leaf][x]
  <2>1. x \in Recs /\ x \in live /\ p.leaf \in Columns
    BY <1>1, <1>2
  <2>2. Value(v)[p.leaf][x] = AsFacts(x, p.leaf, v.row[x][p.leaf])
    BY <2>1, ColumnRead
  <2>. QED  BY <1>3, <2>1, <2>2, ColumnFacts
<1>4. Gather(v, f, r, Value(v)) = Gather(Cold(v.row), f, r, Truth(v.row))
  BY <1>2, <1>3, GathersAgree
<1>5. Truth(v.row)[f][r] = Gather(Cold(v.row), f, r, Truth(v.row))
  BY <1>1, TruthIs
<1>. QED  BY <1>4, <1>5 DEF Result

(* When nothing is wrong, everything reads as it should.                   *)
LEMMA ReadsTrue ==
    ASSUME None \notin SUBSET Facts, NEW v, Mirrors(v), TypedRows(v.row),
           NEW live, RowsOK(v.row, live), \A f, x : ~Wrong(v.row, live, f, x),
           \A l \in Lazy : \A x \in live : v.cache[x][l] \in {Absent, Truth(v.row)[l][x]}
    PROVE  \A f \in Fields : \A r \in live : Value(v)[f][r] = Truth(v.row)[f][r]
<1>1. PICK rank : IsRank(rank)
  BY FieldsAreRanked
<1>2. rank \in [Fields -> 0 .. Len(Decl)] /\ Len(Decl) \in Nat
  BY <1>1, FieldsAreRanked DEF IsRank
<1>3. Points(v.row) /\ live \subseteq Recs
  BY OKPoints DEF RowsOK
<1> DEFINE T == {k \in Nat : \A f \in Fields : \A r \in live :
                   rank[f] <= k => Value(v)[f][r] = Truth(v.row)[f][r]}
<1>4. ASSUME NEW f \in Columns, NEW r \in live
      PROVE  Value(v)[f][r] = Truth(v.row)[f][r]
  <2>1. r \in Recs
    BY <1>3
  <2>. QED  BY <2>1, ColumnRead, ColumnFacts
<1>5. 0 \in T
  <2>1. ASSUME NEW f \in Fields, rank[f] <= 0
        PROVE  f \in Columns
    BY <1>1, <1>2, <2>1, Kinds DEF IsRank
  <2>. QED  BY <1>4, <2>1
<1>6. ASSUME NEW k \in Nat, k \in T
      PROVE  k + 1 \in T
  <2>1. SUFFICES ASSUME NEW f \in Fields, NEW r \in live, rank[f] <= k + 1
                 PROVE  Value(v)[f][r] = Truth(v.row)[f][r]
    OBVIOUS
  <2>2. CASE f \in Columns
    BY <1>4, <2>2
  <2>3. CASE f \in Lazy
    <3>1. r \in Recs /\ f \in Computes /\ f \notin Columns
      BY <1>3, <2>3, Kinds
    <3>2. Truth(v.row)[f][r] = Gather(Cold(v.row), f, r, Truth(v.row))
      BY <3>1, TruthIs
    <3>3. CASE v.cache[r][f] # Absent
      <4>1. v.cache[r][f] = Truth(v.row)[f][r]
        BY <2>3, <3>3
      <4>2. Truth(v.row)[f][r] \subseteq Facts
        BY <3>1, TruthIsFacts
      <4>3. Value(v)[f][r] = AsFacts(r, f, v.cache[r][f])
        BY <3>1, <3>3, ValueIs
      <4>. QED  BY <3>1, <4>1, <4>2, <4>3 DEF AsFacts
    <3>4. CASE v.cache[r][f] = Absent
      <4>1. Value(v)[f][r] = Gather(v, f, r, Value(v))
        BY <3>1, <3>4, ValueIs
      <4>2. \A p \in PathsOf(f) : /\ Reach(v, p, r) = Reach(Cold(v.row), p, r)
                                  /\ Reach(Cold(v.row), p, r) \subseteq live
        BY <1>3, <3>1, MirrorWalks, AliveWalks
      <4>3. ASSUME NEW p \in PathsOf(f), NEW x \in Reach(Cold(v.row), p, r)
            PROVE  Value(v)[p.leaf][x] = Truth(v.row)[p.leaf][x]
        <5>1. p.leaf \in Fields /\ rank[p.leaf] < rank[f]
          BY <1>1, <3>1 DEF IsRank
        <5>2. rank[p.leaf] <= k
          BY <1>2, <2>1, <5>1
        <5>3. x \in live
          BY <4>2
        <5>. QED  BY <1>6, <5>1, <5>2, <5>3
      <4>4. Gather(v, f, r, Value(v)) = Gather(Cold(v.row), f, r, Truth(v.row))
        BY <4>2, <4>3, GathersAgree
      <4>. QED  BY <3>2, <4>1, <4>4
    <3>. QED  BY <3>3, <3>4
  <2>. QED  BY <2>2, <2>3, Kinds
<1>7. Nat \subseteq T
  <2> HIDE DEF T
  <2>. QED  BY <1>5, <1>6, NatSet
<1>8. ASSUME NEW f \in Fields, NEW r \in live
      PROVE  Value(v)[f][r] = Truth(v.row)[f][r]
  <2>1. rank[f] \in T /\ rank[f] \in Nat
    BY <1>2, <1>7
  <2>. QED  BY <2>1
<1>. QED  BY <1>8

-----------------------------------------------------------------------------
(* The lazy cells that are loaded.                                         *)
LEMMA HopsLoadLinks ==
    \A v, p, r, x, l : <<x, l>> \in HopCells(v, p, r) => l = Link
<1> SUFFICES ASSUME NEW v, NEW p, NEW r, NEW x, NEW l, <<x, l>> \in HopCells(v, p, r)
             PROVE  l = Link
  OBVIOUS
<1>1. PICK i \in DOMAIN p.hops : \E y \in Walk(v, p, r)[i - 1] :
        <<x, l>> = IF p.hops[i] = "m2o" THEN <<y, Link>> ELSE <<y>>
  BY DEF HopCells
<1>2. \A y : <<x, l>> # <<y>>
  OBVIOUS
<1>. QED  BY <1>1, <1>2

(* Reading a field of a row loads lazy fields of rows that exist.          *)
LEMMA LoadsAlive ==
    ASSUME NEW v, Mirrors(v), NEW live, RowsOK(v.row, live)
    PROVE  \A f \in Fields : \A r \in live : \A x, l :
             <<x, l>> \in Loads(v)[f][r] /\ l \in Lazy => x \in live
<1>1. PICK rank : IsRank(rank)
  BY FieldsAreRanked
<1>2. rank \in [Fields -> 0 .. Len(Decl)] /\ Len(Decl) \in Nat
  BY <1>1, FieldsAreRanked DEF IsRank
<1>3. Points(v.row) /\ live \subseteq Recs
  BY OKPoints DEF RowsOK
<1> DEFINE Good(f, r) == \A x, l : <<x, l>> \in Loads(v)[f][r] /\ l \in Lazy => x \in live
           T == {k \in Nat : \A f \in Fields : \A r \in live : rank[f] <= k => Good(f, r)}
<1>4. ASSUME NEW f \in Columns, NEW r \in live
      PROVE  Good(f, r)
  <2>1. r \in Recs
    BY <1>3
  <2>. QED  BY <2>1, ColumnRead
<1>5. 0 \in T
  <2>1. ASSUME NEW f \in Fields, rank[f] <= 0
        PROVE  f \in Columns
    BY <1>1, <1>2, <2>1, Kinds DEF IsRank
  <2> HIDE DEF Good
  <2>. QED  BY <1>4, <2>1
<1>6. ASSUME NEW k \in Nat, k \in T
      PROVE  k + 1 \in T
  <2>1. SUFFICES ASSUME NEW f \in Fields, NEW r \in live, rank[f] <= k + 1
                 PROVE  Good(f, r)
    <3> HIDE DEF Good
    <3>. QED  OBVIOUS
  <2>2. CASE f \in Columns
    BY <1>4, <2>2
  <2>3. CASE f \in Lazy
    <3>1. r \in Recs /\ f \in Computes /\ f \notin Columns
      BY <1>3, <2>3, Kinds
    <3>2. SUFFICES ASSUME NEW x, NEW l, <<x, l>> \in Loads(v)[f][r], l \in Lazy
                   PROVE  x \in live
      OBVIOUS
    <3>3. <<x, l>> \in {<<r, f>>} \cup LoadCells(v, f, r, Loads(v))
      <4>1. Loads(v)[f][r] = LoadsOf(v, f, r, Loads(v))
        BY <3>1, LoadsIs
      <4>. QED  BY <3>1, <3>2, <4>1 DEF LoadsOf
    <3>4. CASE <<x, l>> = <<r, f>>
      BY <3>4
    <3>5. CASE <<x, l>> \in LoadCells(v, f, r, Loads(v))
      <4>1. PICK p \in PathsOf(f) :
              \/ <<x, l>> \in HopCells(v, p, r)
              \/ <<x, l>> \in UNION {Loads(v)[p.leaf][y] : y \in Reach(v, p, r)}
        BY <3>5 DEF LoadCells
      <4>2. <<x, l>> \notin HopCells(v, p, r)
        BY <3>2, HopsLoadLinks, Kinds
      <4>3. PICK y \in Reach(v, p, r) : <<x, l>> \in Loads(v)[p.leaf][y]
        BY <4>1, <4>2
      <4>4. p.leaf \in Fields /\ rank[p.leaf] < rank[f]
        BY <1>1, <3>1 DEF IsRank
      <4>5. rank[p.leaf] <= k
        BY <1>2, <2>1, <4>4
      <4>6. y \in live
        BY <1>3, <3>1, <4>3, MirrorWalks, AliveWalks
      <4>7. Good(p.leaf, y)
        <5> HIDE DEF Good
        <5>. QED  BY <1>6, <4>4, <4>5, <4>6
      <4>. QED  BY <3>2, <4>3, <4>7
    <3>. QED  BY <3>3, <3>4, <3>5
  <2>. QED  BY <2>2, <2>3, Kinds
<1>7. Nat \subseteq T
  <2> HIDE DEF T
  <2>. QED  BY <1>5, <1>6, NatSet
<1>8. ASSUME NEW f \in Fields, NEW r \in live
      PROVE  Good(f, r)
  <2>1. rank[f] \in T /\ rank[f] \in Nat
    BY <1>2, <1>7
  <2> HIDE DEF Good
  <2>. QED  BY <2>1
<1>. QED  BY <1>8

(* A method that reads columns loads no lazy field.                        *)
LEMMA MethodLoadsColumns ==
    ASSUME NEW v, Mirrors(v), Points(v.row), NEW f \in Computes, \A p \in PathsOf(f) :
             p.leaf \in Columns,
           NEW r \in Recs
    PROVE  \A x, l : <<x, l>> \in MethodLoads(v, f, r) => l \notin Lazy
<1> SUFFICES ASSUME NEW x, NEW l, <<x, l>> \in MethodLoads(v, f, r), l \in Lazy
             PROVE  FALSE
  OBVIOUS
<1>1. <<x, l>> \in LoadCells(v, f, r, Loads(v))
  BY LoadsIs
<1>2. PICK p \in PathsOf(f) :
        \/ <<x, l>> \in HopCells(v, p, r)
        \/ <<x, l>> \in UNION {Loads(v)[p.leaf][y] : y \in Reach(v, p, r)}
  BY <1>1 DEF LoadCells
<1>3. <<x, l>> \notin HopCells(v, p, r)
  BY HopsLoadLinks, Kinds
<1>4. PICK y \in Reach(v, p, r) : <<x, l>> \in Loads(v)[p.leaf][y]
  BY <1>2, <1>3
<1>5. y \in Recs
  BY <1>4, MirrorWalks
<1>6. <<x, l>> \in {<<y, p.leaf>>}
  BY <1>4, <1>5, ColumnRead
<1>. QED  BY <1>6, Kinds
-----------------------------------------------------------------------------
(* The order of a notification.                                            *)
LEMMA EveryColumnOnce ==
    ASSUME NEW vals \in WriteVals \cup CreateVals, NEW changed \in SetToSeqs(DOMAIN vals)
    PROVE  /\ \E n \in Nat : DOMAIN changed = 1..n
           /\ changed \in Seq(Columns)
           /\ \A k \in DOMAIN changed : changed[k] \in DOMAIN vals /\ changed[k] \in Fields \ Computes
           /\ \A i, j \in DOMAIN changed : changed[i] = changed[j] => i = j
           /\ \A c \in DOMAIN vals : \E k \in DOMAIN changed : changed[k] = c
<1> DEFINE S == DOMAIN vals
           n == Cardinality(S)
<1>1. IsFiniteSet(S) /\ n \in Nat
  BY ValsAreTyped, FS_CardinalityType
<1>2. /\ changed \in [1..n -> S]
      /\ \A i, j \in 1..n : i # j => changed[i] # changed[j]
  BY DEF SetToSeqs
<1> HIDE DEF n
<1>3. changed \in Injection(1..n, S)
  BY <1>2 DEF Injection, IsInjective
<1>4. Cardinality(1..n) = n
  BY <1>1, FS_Interval
<1>5. changed \in Surjection(1..n, S)
  BY <1>1, <1>3, <1>4, FS_Injection DEF n
<1>6. \A c \in S : \E k \in 1..n : changed[k] = c
  BY <1>5 DEF Surjection
<1>7. \A c \in S : c \in Columns /\ c \in Fields \ Computes
  <2>1. \A c \in S : c \in Base \cup {Link}
    BY SessionAssumption
  <2>. QED  BY <2>1, GraphAssumption DEF Columns, Fields
<1>8. changed \in [1..n -> Columns]
  BY <1>2, <1>7
<1>9. changed \in Seq(Columns)
  BY <1>1, <1>8
<1>. QED  BY <1>1, <1>2, <1>6, <1>7, <1>9

Schedule(tier) ==
    /\ tier \in [Stored -> 1 .. Len(Decl)]
    /\ Tiered(tier) /\ Declared(tier) /\ WritesInOrder(tier) /\ CreatesInOrder(tier)

LEMMA TiersAre ==
    ASSUME NEW tier, Schedule(tier)
    PROVE  /\ \A f \in Stored : tier[f] \in Nat /\ tier[f] >= 1
           /\ \A f \in Stored : \A p \in PathsOf(f) : p.leaf \in Columns
           /\ \A f \in Stored : \A p \in PathsOf(f) : p.leaf \in Stored => tier[f] = tier[p.leaf] + 1
<1>1. Len(Decl) \in Nat
  BY FieldsAreRanked
<1>. QED  BY <1>1 DEF Schedule, Tiered

(* What an edge to a stored field says of its tier.                        *)
LEMMA EdgeTier ==
    ASSUME NEW tier, Schedule(tier), NEW f \in Stored, NEW e, EdgeOf(f, e)
    PROVE  /\ e.on \notin Lazy /\ ListensTo(f, e.on)
           /\ e.on \in Stored => tier[f] = tier[e.on] + 1
           /\ e.on \notin Computes => tier[f] <= 2
<1>1. f \in Computes
  BY Kinds
<1>2. ListensTo(f, e.on)
  BY <1>1, EdgesListen
<1>3. PICK p \in PathsOf(f) : p.leaf = e.on \/ (e.on = Link /\ p.hops # <<>>)
  BY <1>2 DEF ListensTo
<1>. QED  BY <1>2, <1>3, Kinds DEF Schedule, Tiered

-----------------------------------------------------------------------------
(* What a propagation keeps of its queue q and visited set sn. A wrong     *)
(* cell has not been visited, and is in the queue or reads a wrong cell.   *)
Waiting(rows, live, q, sn) ==
    \A f, x : Wrong(rows, live, f, x) =>
        /\ x \notin sn[f]
        /\ \/ <<f, x>> \in Queued(q)
           \/ \E p \in PathsOf(f) : \E y \in Reach(Cold(rows), p, x) : Wrong(rows, live, p.leaf, y)

(* A wrong cell of the queue comes before every stored field of a higher   *)
(* tier, and the queue is at most one tier ahead of any wrong cell.        *)
Ahead(tier, rows, live, q) ==
    \A f, x : Wrong(rows, live, f, x) /\ <<f, x>> \in Queued(q) =>
        \E j \in DOMAIN q :
            /\ q[j].field = f /\ x \in q[j].ids
            /\ \A i \in 1..(j - 1) : q[i].field \in Stored => tier[q[i].field] <= tier[f]
Near(tier, rows, live, q) ==
    \A f, x : Wrong(rows, live, f, x) =>
        \A i \in DOMAIN q : q[i].field \in Stored => tier[q[i].field] <= tier[f] + 1

(* What a visited cell leads to is visited or in the queue.                *)
Followed(rows, q, sn) ==
    \A c, d \in Computes \X Recs : c[2] \in sn[c[1]] /\ Leads(Links(rows), c, d) =>
        d \in Queued(q) \/ d[2] \in sn[d[1]]

(* A cached lazy field that is not right any more has not been visited and *)
(* is among all that the queue leads to.                                   *)
LazyDue(rows, q, sn, cells) ==
    \A l \in Lazy : \A x \in Recs : cells[x][l] \notin {Absent, Truth(rows)[l][x]} =>
        /\ x \notin sn[l]
        /\ \A C \in SUBSET (Computes \X Recs) :
             Queued(q) \subseteq C /\ Closed(Links(rows), C) => <<l, x>> \in C

NoDead(live, cells) == \A l \in Lazy : \A x \in Recs \ live : cells[x][l] = Absent

(* All of it. The visited set is dropped with the last entry of the queue. *)
Due(tier, rows, live, q, sn, cells) ==
    /\ Waiting(rows, live, q, sn)
    /\ Ahead(tier, rows, live, q) /\ Near(tier, rows, live, q)
    /\ Followed(rows, q, sn) /\ LazyDue(rows, q, sn, cells)
    /\ NoDead(live, cells)
    /\ q = <<>> => sn = NothingSeen

LEMMA NothingQueued == Queued(<<>>) = {}
BY DEF Queued

(* Under every wrong cell there is a wrong cell of the queue.              *)
LEMMA WrongQueued ==
    ASSUME NEW tier, Schedule(tier), NEW rows, NEW live, NEW q, NEW sn, Waiting(rows, live, q, sn),
           NEW f, NEW x, Wrong(rows, live, f, x)
    PROVE  \E g, y : /\ Wrong(rows, live, g, y) /\ <<g, y>> \in Queued(q)
                     /\ tier[g] <= tier[f]
<1> DEFINE Under(h) == \E g, y : /\ Wrong(rows, live, g, y) /\ <<g, y>> \in Queued(q)
                                 /\ tier[g] <= tier[h]
           T == {k \in Nat : \A h, z : Wrong(rows, live, h, z) /\ tier[h] <= k => Under(h)}
<1>1. \A h, z : Wrong(rows, live, h, z) => h \in Stored /\ tier[h] \in Nat /\ tier[h] >= 1
  BY TiersAre DEF Wrong
<1>2. 0 \in T
  BY <1>1
<1>3. ASSUME NEW k \in Nat, k \in T
      PROVE  k + 1 \in T
  <2>1. SUFFICES ASSUME NEW h, NEW z, Wrong(rows, live, h, z), tier[h] <= k + 1
                 PROVE  Under(h)
    OBVIOUS
  <2>2. CASE <<h, z>> \in Queued(q)
    BY <1>1, <2>1, <2>2
  <2>3. CASE <<h, z>> \notin Queued(q)
    <3>1. PICK p \in PathsOf(h) : \E y \in Reach(Cold(rows), p, z) : Wrong(rows, live, p.leaf, y)
      BY <2>1, <2>3 DEF Waiting
    <3>2. PICK y \in Reach(Cold(rows), p, z) : Wrong(rows, live, p.leaf, y)
      BY <3>1
    <3>3. tier[h] = tier[p.leaf] + 1 /\ tier[p.leaf] \in Nat /\ tier[h] \in Nat
      BY <1>1, <2>1, <3>2, TiersAre
    <3>4. Under(p.leaf)
      <4>1. tier[p.leaf] <= k
        BY <2>1, <3>3
      <4>. QED  BY <1>3, <3>2, <4>1
    <3>5. PICK g, u : Wrong(rows, live, g, u) /\ <<g, u>> \in Queued(q) /\ tier[g] <= tier[p.leaf]
      BY <3>4
    <3>6. tier[g] <= tier[h]
      BY <1>1, <3>3, <3>5
    <3>. QED  BY <3>5, <3>6
  <2>. QED  BY <2>2, <2>3
<1>4. Nat \subseteq T
  <2> HIDE DEF T
  <2>. QED  BY <1>2, <1>3, NatSet
<1>5. Under(f)
  <2>1. tier[f] \in Nat /\ tier[f] \in T
    BY <1>1, <1>4
  <2>2. tier[f] <= tier[f]
    BY <2>1
  <2> HIDE DEF Under
  <2>. QED  BY <2>1, <2>2
<1>. QED  BY <1>5

LEMMA IdleRight ==
    ASSUME NEW tier, Schedule(tier), NEW rows, NEW live, NEW sn, Waiting(rows, live, <<>>, sn)
    PROVE  \A f, x : ~Wrong(rows, live, f, x)
BY WrongQueued, NothingQueued
-----------------------------------------------------------------------------
(* One turn of the loop.                                                   *)
LEMMA RestIs ==
    ASSUME NEW S, NEW q \in Seq(S), q # <<>>, NEW more \in Seq(S)
    PROVE  LET rest == Tail(q) \o more
           IN  /\ rest \in Seq(S)
               /\ Len(q) \in Nat /\ Len(q) >= 1 /\ DOMAIN q = 1..Len(q) /\ Head(q) = q[1]
               /\ Len(more) \in Nat /\ DOMAIN more = 1..Len(more)
               /\ DOMAIN rest = 1..(Len(q) - 1 + Len(more))
               /\ \A i \in 1..(Len(q) - 1) : rest[i] = q[i + 1]
               /\ \A i \in 1..Len(more) : rest[Len(q) - 1 + i] = more[i]
<1> DEFINE t == Tail(q)
           rest == t \o more
<1>1. /\ Len(q) \in Nat /\ Len(q) >= 1 /\ DOMAIN q = 1..Len(q) /\ Head(q) = q[1]
      /\ Len(more) \in Nat /\ DOMAIN more = 1..Len(more)
  BY LenProperties, EmptySeq, HeadTailProperties
<1>2. /\ t \in Seq(S) /\ Len(t) = Len(q) - 1 /\ \A i \in 1..(Len(q) - 1) : t[i] = q[i + 1]
  BY <1>1, HeadTailProperties
<1> HIDE DEF t
<1>3. /\ rest \in Seq(S) /\ Len(rest) = Len(t) + Len(more)
      /\ \A i \in 1..(Len(t) + Len(more)) : rest[i] = IF i <= Len(t) THEN t[i] ELSE more[i - Len(t)]
  BY <1>2, ConcatProperties
<1> HIDE DEF rest
<1>4. DOMAIN rest = 1..(Len(q) - 1 + Len(more))
  BY <1>2, <1>3, LenProperties
<1>5. \A i \in 1..(Len(q) - 1) : rest[i] = q[i + 1]
  BY <1>1, <1>2, <1>3
<1>6. ASSUME NEW i \in 1..Len(more)
      PROVE  rest[Len(q) - 1 + i] = more[i]
  <2>1. /\ Len(q) - 1 + i \in 1..(Len(t) + Len(more)) /\ ~(Len(q) - 1 + i <= Len(t))
        /\ (Len(q) - 1 + i) - Len(t) = i
    BY <1>1, <1>2
  <2>. QED  BY <1>3, <2>1
<1>. QED  BY <1>1, <1>3, <1>4, <1>5, <1>6 DEF rest, t

Holds(e, d) == e.field = d[1] /\ d[2] \in e.ids

(* Taking the first entry and adding more at the end.                      *)
LEMMA QueuedRest ==
    ASSUME NEW S, NEW q \in Seq(S), q # <<>>, NEW more \in Seq(S)
    PROVE  /\ \A d \in Queued(q) : Holds(Head(q), d) \/ d \in Queued(Tail(q) \o more)
           /\ Queued(more) \subseteq Queued(Tail(q) \o more)
           /\ \A d \in Queued(Tail(q) \o more) : d \in Queued(q) \/ d \in Queued(more)
<1> DEFINE rest == Tail(q) \o more
<1>1. /\ Len(q) \in Nat /\ Len(q) >= 1 /\ DOMAIN q = 1..Len(q) /\ Head(q) = q[1]
      /\ Len(more) \in Nat /\ DOMAIN more = 1..Len(more)
      /\ DOMAIN rest = 1..(Len(q) - 1 + Len(more))
      /\ \A i \in 1..(Len(q) - 1) : rest[i] = q[i + 1]
      /\ \A i \in 1..Len(more) : rest[Len(q) - 1 + i] = more[i]
  BY RestIs
<1> HIDE DEF rest
<1>2. \A z, d : d \in Queued(z) <=> d \in Computes \X Recs /\ \E i \in DOMAIN z : Holds(z[i], d)
  BY DEF Queued, Holds
<1>3. ASSUME NEW d \in Queued(q)
      PROVE  Holds(Head(q), d) \/ d \in Queued(rest)
  <2>1. PICK i \in 1..Len(q) : Holds(q[i], d)
    BY <1>1, <1>2
  <2>2. CASE i = 1
    BY <1>1, <2>1, <2>2
  <2>3. CASE i # 1
    <3>1. i - 1 \in 1..(Len(q) - 1) /\ (i - 1) + 1 = i /\ i - 1 \in DOMAIN rest
      BY <1>1, <2>3
    <3>2. Holds(rest[i - 1], d)
      BY <1>1, <2>1, <3>1
    <3>. QED  BY <1>2, <3>1, <3>2
  <2>. QED  BY <2>2, <2>3
<1>4. ASSUME NEW d \in Queued(more)
      PROVE  d \in Queued(rest)
  <2>1. PICK i \in 1..Len(more) : Holds(more[i], d)
    BY <1>1, <1>2
  <2>2. Len(q) - 1 + i \in DOMAIN rest
    BY <1>1
  <2>3. Holds(rest[Len(q) - 1 + i], d)
    BY <1>1, <2>1
  <2>. QED  BY <1>2, <2>2, <2>3
<1>5. ASSUME NEW d \in Queued(rest)
      PROVE  d \in Queued(q) \/ d \in Queued(more)
  <2>1. PICK i \in 1..(Len(q) - 1 + Len(more)) : Holds(rest[i], d)
    BY <1>1, <1>2
  <2>2. CASE i <= Len(q) - 1
    <3>1. i \in 1..(Len(q) - 1) /\ i + 1 \in 1..Len(q)
      BY <1>1, <2>2
    <3>. QED  BY <1>1, <1>2, <1>5, <2>1, <3>1
  <2>3. CASE ~(i <= Len(q) - 1)
    <3>1. i - (Len(q) - 1) \in 1..Len(more) /\ Len(q) - 1 + (i - (Len(q) - 1)) = i
      BY <1>1, <2>3
    <3>. QED  BY <1>1, <1>2, <1>5, <2>1, <3>1
  <2>. QED  BY <2>2, <2>3
<1>. QED  BY <1>3, <1>4, <1>5 DEF rest

(* The head of the queue is of the lowest tier that has a wrong cell.      *)
LEMMA HeadLowest ==
    ASSUME NEW tier, Schedule(tier), NEW rows, NEW live, NEW S, NEW q \in Seq(S), q # <<>>, NEW sn,
           Waiting(rows, live, q, sn), Ahead(tier, rows, live, q), Head(q).field \in Stored,
           NEW g, NEW y, Wrong(rows, live, g, y)
    PROVE  tier[Head(q).field] <= tier[g]
<1>1. Len(q) \in Nat /\ Len(q) >= 1 /\ DOMAIN q = 1..Len(q) /\ Head(q) = q[1]
  BY LenProperties, EmptySeq, HeadTailProperties
<1>2. PICK h, z : Wrong(rows, live, h, z) /\ <<h, z>> \in Queued(q) /\ tier[h] <= tier[g]
  BY WrongQueued
<1>3. PICK j \in DOMAIN q : /\ q[j].field = h
                            /\ \A i \in 1..(j - 1) : q[i].field \in Stored =>
                                 tier[q[i].field] <= tier[h]
  BY <1>2 DEF Ahead
<1>4. tier[Head(q).field] \in Nat /\ tier[h] \in Nat /\ tier[g] \in Nat
  BY <1>2, TiersAre DEF Wrong
<1>5. tier[Head(q).field] <= tier[h]
  <2>1. CASE j = 1
    BY <1>1, <1>3, <1>4, <2>1
  <2>2. CASE j # 1
    <3>1. 1 \in 1..(j - 1)
      BY <1>1, <2>2
    <3>. QED  BY <1>1, <1>3, <3>1
  <2>. QED  BY <2>1, <2>2
<1>. QED  BY <1>2, <1>4, <1>5

(* Rows with the same links are walked in the same way.                    *)
LEMMA SameLinks ==
    ASSUME NEW rows0, Points(rows0), NEW rows1, \A y \in Recs : rows1[y][Link] = rows0[y][Link]
    PROVE  /\ Links(rows1) = Links(rows0) /\ Points(rows1)
           /\ \A f \in Computes : \A p \in PathsOf(f) : \A r \in Recs :
                Reach(Cold(rows1), p, r) = Reach(Cold(rows0), p, r) /\
                  Reach(Cold(rows0), p, r) \subseteq Recs
<1>1. Points(rows1) /\ Links(rows1) = Links(rows0)
  BY DEF Points, Links
<1>2. \A x \in Recs : ChildrenOf(rows1, x) = ChildrenOf(rows0, x)
  BY DEF ChildrenOf
<1>3. \A x \in Recs : LinkIn(Cold(rows1), x) = LinkIn(Cold(rows0), x) /\
        KidsIn(Cold(rows1), x) = KidsIn(Cold(rows0), x)
  BY <1>1, <1>2, ColdReads
<1>4. Linked(Cold(rows0))
  BY ColdReads
<1>5. ASSUME NEW f \in Computes, NEW p \in PathsOf(f), NEW r \in Recs
      PROVE  Reach(Cold(rows1), p, r) = Reach(Cold(rows0), p, r) /\
               Reach(Cold(rows0), p, r) \subseteq Recs
  <2>1. p.hops \in Seq(Hops)
    BY PathsAreTyped
  <2>. QED  BY <1>3, <1>4, <2>1, WalksAgree
<1>. QED  BY <1>1, <1>5

Fresh(q, sn) == Head(q).ids \ sn[Head(q).field]
More(rows, q, sn) == FanOut(Links(rows), <<Head(q).field>>, Fresh(q, sn))
Rest(rows, q, sn) == Tail(q) \o More(rows, q, sn)
Visited(q, sn) == [sn EXCEPT ![Head(q).field] = @ \cup Fresh(q, sn)]

(* What one turn does to the rows and to the cached lazy fields, when the  *)
(* method it calls returns what it should.                                 *)
Turned(live, rows0, rows1, q, sn, cells0, cells1) ==
    /\ RowsOK(rows0, live) /\ q \in Seq(Entries(live)) /\ q # <<>>
    /\ sn \in [Computes -> SUBSET Recs]
    /\ \A x \in Recs : \A g \in Columns :
         rows1[x][g] = IF g = Head(q).field /\ x \in Fresh(q, sn) THEN Truth(rows0)[g][x]
                                                                  ELSE rows0[x][g]
    /\ \A x \in Recs : \A l \in Lazy :
         cells1[x][l] = IF l = Head(q).field /\ x \in Fresh(q, sn) THEN Absent ELSE cells0[x][l]

(* The first entry is of a computed field and of rows that exist.          *)
LEMMA HeadIsTyped ==
    ASSUME NEW live, NEW q \in Seq(Entries(live)), q # <<>>
    PROVE  Head(q).field \in Computes /\ Head(q).ids \subseteq live
<1>1. Head(q) \in Entries(live)
  BY HeadTailProperties
<1>. QED  BY <1>1 DEF Entries

(* A turn writes stored columns only: what every field should be stays,    *)
(* and the cells written are not wrong any more.                           *)
LEMMA TurnKeepsTruth ==
    ASSUME NEW live, NEW rows0, NEW rows1, NEW q, NEW sn, NEW cells0, NEW cells1,
           Turned(live, rows0, rows1, q, sn, cells0, cells1)
    PROVE  /\ Head(q).field \in Computes /\ Fresh(q, sn) \subseteq live /\ live \subseteq Recs
           /\ Points(rows0) /\ Links(rows1) = Links(rows0)
           /\ \A f \in Fields : \A x \in Recs : Truth(rows1)[f][x] = Truth(rows0)[f][x]
           /\ \A f \in Computes : \A p \in PathsOf(f) : \A r \in Recs :
                Reach(Cold(rows1), p, r) = Reach(Cold(rows0), p, r) /\
                  Reach(Cold(rows0), p, r) \subseteq Recs
           /\ \A f, x : Wrong(rows1, live, f, x) <=>
                Wrong(rows0, live, f, x) /\ ~(f = Head(q).field /\ x \in Fresh(q, sn))
<1>1. Head(q).field \in Computes /\ Fresh(q, sn) \subseteq live /\ live \subseteq Recs
  BY HeadIsTyped DEF Turned, Fresh, RowsOK
<1>2. Points(rows0)
  BY OKPoints DEF Turned
<1>3. \A x \in Recs : \A g \in Fields \ Computes : rows1[x][g] = rows0[x][g]
  <2>1. \A g \in Fields \ Computes : g \in Columns /\ g # Head(q).field
    BY <1>1, Kinds
  <2>. QED  BY <2>1 DEF Turned
<1>4. \A y \in Recs : rows1[y][Link] = rows0[y][Link]
  BY <1>3, Kinds
<1>5. \A f \in Fields : \A x \in Recs : Truth(rows1)[f][x] = Truth(rows0)[f][x]
  <2>1. \A f \in Fields : \A x \in Recs : Truth(rows0)[f][x] = Truth(rows1)[f][x]
    BY <1>2, <1>3, TruthReads
  <2>. QED  BY <2>1
<1>6. ASSUME NEW f, NEW x
      PROVE  Wrong(rows1, live, f, x) <=>
               Wrong(rows0, live, f, x) /\ ~(f = Head(q).field /\ x \in Fresh(q, sn))
  <2>1. CASE x \in live /\ f \in Stored
    <3>1. x \in Recs /\ f \in Columns /\ f \in Fields
      BY <1>1, <2>1, Kinds
    <3>2. rows1[x][f] = IF f = Head(q).field /\ x \in Fresh(q, sn) THEN Truth(rows0)[f][x] ELSE rows0[x][f]
      BY <3>1 DEF Turned
    <3>. QED  BY <1>5, <2>1, <3>1, <3>2 DEF Wrong
  <2>2. CASE ~(x \in live /\ f \in Stored)
    BY <2>2 DEF Wrong
  <2>. QED  BY <2>1, <2>2
<1>. QED  BY <1>1, <1>2, <1>4, <1>5, <1>6, SameLinks

(* What a turn adds to the queue.                                          *)
LEMMA MoreIs ==
    ASSUME NEW live, NEW rows, RowsOK(rows, live), NEW q \in Seq(Entries(live)), q # <<>>, NEW sn
    PROVE  /\ More(rows, q, sn) \in Seq(Entries(live))
           /\ \E block, decl : Notified(Links(rows), <<Head(q).field>>, Fresh(q, sn), More(rows, q, sn), block, decl)
           /\ \A x \in Fresh(q, sn) : \A d \in Computes \X Recs :
                Leads(Links(rows), <<Head(q).field, x>>, d) => d \in Queued(More(rows, q, sn))
<1> DEFINE fs == <<Head(q).field>>
           ids == Fresh(q, sn)
           more == More(rows, q, sn)
<1>1. DOMAIN fs = 1..1 /\ 1 \in Nat /\ fs[1] = Head(q).field
  OBVIOUS
<1>2. ids \in SUBSET live /\ live \subseteq Recs /\ ids \in SUBSET Recs
  BY HeadIsTyped DEF Fresh, RowsOK
<1>3. more = FanOut(Links(rows), fs, ids)
  BY DEF More
<1> HIDE DEF fs, ids, more
<1>4. more \in Seq(Entries(live))
  BY <1>1, <1>2, <1>3, NotifiesRows
<1>5. PICK block, decl : Notified(Links(rows), fs, ids, more, block, decl)
  <2>1. \A r \in Recs : Links(rows)[r] \in Recs \cup {None}
    BY <1>2 DEF RowsOK, Links
  <2>. QED  BY <1>1, <1>2, <1>3, <2>1, FanOutInOrder
<1>6. ASSUME NEW x \in ids, NEW d \in Computes \X Recs, Leads(Links(rows), <<fs[1], x>>, d)
      PROVE  d \in Queued(more)
  <2>1. 1 \in DOMAIN fs
    BY <1>1
  <2>2. PICK m \in 1..Len(more) : more[m].field = d[1] /\ d[2] \in more[m].ids
    BY <1>5, <1>6, <2>1 DEF Notified
  <2>3. m \in DOMAIN more
    BY <1>4, LenProperties
  <2>. QED  BY <2>2, <2>3 DEF Queued
<1>. QED  BY <1>1, <1>4, <1>5, <1>6 DEF fs, ids, more

(* A stored field notifies stored fields of the next tier, a lazy field    *)
(* none.                                                                   *)
LEMMA MoreTier ==
    ASSUME NEW tier, Schedule(tier), NEW live, NEW rows, RowsOK(rows, live),
           NEW q \in Seq(Entries(live)), q # <<>>, NEW sn,
           NEW i \in DOMAIN More(rows, q, sn), More(rows, q, sn)[i].field \in Stored
    PROVE  /\ Head(q).field \in Stored
           /\ tier[More(rows, q, sn)[i].field] = tier[Head(q).field] + 1
<1> DEFINE f == Head(q).field
           more == More(rows, q, sn)
           g == more[i].field
           fs == <<f>>
<1>1. PICK block, decl : Notified(Links(rows), fs, Fresh(q, sn), more, block, decl)
  BY MoreIs
<1>2. more \in Seq(Entries(live)) /\ f \in Computes
  BY MoreIs, HeadIsTyped
<1>3. DOMAIN fs = 1..1 /\ fs[1] = f
  OBVIOUS
<1> HIDE DEF more, fs, f
<1>4. i \in 1..Len(more) /\ g \in Stored
  BY <1>2, LenProperties DEF more
<1>5. block[i] \in DOMAIN fs /\ \E e : EdgeOf(g, e) /\ e.on = fs[block[i]]
  BY <1>1, <1>4 DEF Notified
<1>6. block[i] = 1
  BY <1>3, <1>5
<1>7. PICK e : EdgeOf(g, e) /\ e.on = f
  BY <1>3, <1>5, <1>6
<1>8. f \notin Lazy /\ (f \in Stored => tier[g] = tier[f] + 1)
  BY <1>4, <1>7, EdgeTier
<1>. QED  BY <1>2, <1>8, Kinds DEF more, f
-----------------------------------------------------------------------------
(* Waiting: whatever a turn makes wrong cells wait for was in the queue or *)
(* has been added to it.                                                   *)
LEMMA TurnWaits ==
    ASSUME NEW live, NEW rows0, NEW rows1, NEW q, NEW sn, NEW cells0, NEW cells1,
           Turned(live, rows0, rows1, q, sn, cells0, cells1), Waiting(rows0, live, q, sn)
    PROVE  Waiting(rows1, live, Rest(rows0, q, sn), Visited(q, sn))
<1> DEFINE h == Head(q).field
           new == Fresh(q, sn)
           more == More(rows0, q, sn)
           rest == Rest(rows0, q, sn)
           vis == Visited(q, sn)
<1> SUFFICES ASSUME NEW f, NEW x, Wrong(rows1, live, f, x)
             PROVE  /\ x \notin vis[f]
                    /\ \/ <<f, x>> \in Queued(rest)
                       \/ \E p \in PathsOf(f) : \E y \in Reach(Cold(rows1), p, x) :
                            Wrong(rows1, live, p.leaf, y)
  BY DEF Waiting
<1>1. /\ h \in Computes /\ new \subseteq live /\ live \subseteq Recs
      /\ \A g, z : Wrong(rows1, live, g, z) <=> Wrong(rows0, live, g, z) /\ ~(g = h /\ z \in new)
      /\ \A g \in Computes : \A p \in PathsOf(g) : \A r \in Recs :
                Reach(Cold(rows1), p, r) = Reach(Cold(rows0), p, r) /\
                  Reach(Cold(rows0), p, r) \subseteq Recs
  BY TurnKeepsTruth
<1>2. Wrong(rows0, live, f, x) /\ ~(f = h /\ x \in new) /\ f \in Computes /\ x \in Recs
  BY <1>1, Kinds DEF Wrong
<1>3. x \notin sn[f]
  BY <1>2 DEF Waiting
<1>4. x \notin vis[f]
  <2>1. vis[f] = IF f = h THEN sn[f] \cup new ELSE sn[f]
    BY <1>1, <1>2 DEF Visited, Turned
  <2>. QED  BY <1>2, <1>3, <2>1
<1>5. /\ q \in Seq(Entries(live)) /\ q # <<>> /\ RowsOK(rows0, live)
      /\ more \in Seq(Entries(live)) /\ rest = Tail(q) \o more
  BY MoreIs DEF Turned, Rest
<1>6. CASE <<f, x>> \in Queued(q)
  <2>1. Holds(Head(q), <<f, x>>) \/ <<f, x>> \in Queued(rest)
    BY <1>5, <1>6, QueuedRest
  <2>2. ~Holds(Head(q), <<f, x>>)
    BY <1>2, <1>3 DEF Holds, Fresh
  <2>. QED  BY <1>4, <2>1, <2>2
<1>7. CASE <<f, x>> \notin Queued(q)
  <2>1. PICK p \in PathsOf(f) : \E y \in Reach(Cold(rows0), p, x) : Wrong(rows0, live, p.leaf, y)
    BY <1>2, <1>7 DEF Waiting
  <2>2. PICK y \in Reach(Cold(rows0), p, x) : Wrong(rows0, live, p.leaf, y)
    BY <2>1
  <2>3. y \in Reach(Cold(rows1), p, x)
    BY <1>1, <1>2, <2>2
  <2>4. CASE Wrong(rows1, live, p.leaf, y)
    BY <1>4, <2>3, <2>4
  <2>5. CASE ~Wrong(rows1, live, p.leaf, y)
    <3>1. p.leaf = h /\ y \in new
      BY <1>1, <2>2, <2>5
    <3>2. Leads(Links(rows0), <<h, y>>, <<f, x>>)
      <4>1. Points(rows0)
        BY <1>5, OKPoints
      <4>. QED  BY <1>2, <2>2, <3>1, <4>1, PathLeads
    <3>3. <<f, x>> \in Computes \X Recs
      BY <1>2
    <3>4. <<f, x>> \in Queued(more)
      BY <1>5, <3>1, <3>2, <3>3, MoreIs
    <3>5. <<f, x>> \in Queued(rest)
      BY <1>5, <3>4, QueuedRest
    <3>. QED  BY <1>4, <3>5
  <2>. QED  BY <2>4, <2>5
<1>. QED  BY <1>6, <1>7

(* Ahead and Near: what a turn adds is of the next tier and goes to the    *)
(* end of the queue.                                                       *)
LEMMA TurnKeepsAhead ==
    ASSUME NEW tier, Schedule(tier),
           NEW live, NEW rows0, NEW rows1, NEW q, NEW sn, NEW cells0, NEW cells1,
           Turned(live, rows0, rows1, q, sn, cells0, cells1),
           Waiting(rows0, live, q, sn), Ahead(tier, rows0, live, q), Near(tier, rows0, live, q)
    PROVE  Ahead(tier, rows1, live, Rest(rows0, q, sn)) /\ Near(tier, rows1, live, Rest(rows0, q, sn))
<1> DEFINE h == Head(q).field
           new == Fresh(q, sn)
           more == More(rows0, q, sn)
           rest == Rest(rows0, q, sn)
           n == Len(q) - 1
<1>1. /\ h \in Computes /\ new \subseteq live /\ live \subseteq Recs
      /\ \A g, z : Wrong(rows1, live, g, z) <=> Wrong(rows0, live, g, z) /\ ~(g = h /\ z \in new)
  BY TurnKeepsTruth
<1>2. /\ q \in Seq(Entries(live)) /\ q # <<>> /\ RowsOK(rows0, live)
      /\ more \in Seq(Entries(live)) /\ rest = Tail(q) \o more
  BY MoreIs DEF Turned, Rest
<1>3. /\ Len(q) \in Nat /\ Len(q) >= 1 /\ DOMAIN q = 1..Len(q) /\ Head(q) = q[1]
      /\ Len(more) \in Nat /\ DOMAIN more = 1..Len(more)
      /\ DOMAIN rest = 1..(n + Len(more))
      /\ \A i \in 1..n : rest[i] = q[i + 1]
      /\ \A i \in 1..Len(more) : rest[n + i] = more[i]
  BY <1>2, RestIs
<1>4. \A i \in 1..Len(more) : more[i].field \in Stored =>
        h \in Stored /\ tier[more[i].field] = tier[h] + 1
  BY <1>2, <1>3, MoreTier
<1> HIDE DEF more, rest, new
<1>5. \A f \in Stored : tier[f] \in Nat
  BY TiersAre
<1>6. ASSUME NEW f, NEW x, Wrong(rows1, live, f, x), NEW i \in DOMAIN rest, rest[i].field \in Stored
      PROVE  tier[rest[i].field] <= tier[f] + 1
  <2>1. Wrong(rows0, live, f, x) /\ f \in Stored
    BY <1>1, <1>6 DEF Wrong
  <2>2. CASE i <= n
    <3>1. i \in 1..n /\ i + 1 \in DOMAIN q
      BY <1>3, <2>2
    <3>. QED  BY <1>3, <1>6, <2>1, <3>1 DEF Near
  <2>3. CASE ~(i <= n)
    <3>1. i - n \in 1..Len(more) /\ n + (i - n) = i
      BY <1>3, <2>3
    <3>2. h \in Stored /\ tier[rest[i].field] = tier[h] + 1
      BY <1>3, <1>4, <1>6, <3>1
    <3>3. tier[h] <= tier[f]
      BY <1>2, <2>1, <3>2, HeadLowest
    <3>. QED  BY <1>5, <2>1, <3>2, <3>3
  <2>. QED  BY <2>2, <2>3
<1>7. ASSUME NEW f, NEW x, Wrong(rows1, live, f, x), <<f, x>> \in Queued(rest)
      PROVE  \E j \in DOMAIN rest :
               /\ rest[j].field = f /\ x \in rest[j].ids
               /\ \A i \in 1..(j - 1) : rest[i].field \in Stored => tier[rest[i].field] <= tier[f]
  <2>1. Wrong(rows0, live, f, x) /\ f \in Stored /\ ~(f = h /\ x \in new) /\ x \notin sn[f]
    BY <1>1, <1>7 DEF Wrong, Waiting
  <2>2. CASE <<f, x>> \in Queued(q)
    <3>1. PICK j \in DOMAIN q :
            /\ q[j].field = f /\ x \in q[j].ids
            /\ \A i \in 1..(j - 1) : q[i].field \in Stored => tier[q[i].field] <= tier[f]
      BY <2>1, <2>2 DEF Ahead
    <3>2. j # 1
      BY <1>3, <2>1, <3>1 DEF new, Fresh
    <3>3. j - 1 \in 1..n /\ (j - 1) + 1 = j /\ j - 1 \in DOMAIN rest
      BY <1>3, <3>2
    <3>4. \A i \in 1..((j - 1) - 1) : rest[i].field \in Stored => tier[rest[i].field] <= tier[f]
      <4> SUFFICES ASSUME NEW i \in 1..((j - 1) - 1), rest[i].field \in Stored
                   PROVE  tier[rest[i].field] <= tier[f]
        OBVIOUS
      <4>1. i \in 1..n /\ i + 1 \in 1..(j - 1)
        BY <1>3, <3>3
      <4>. QED  BY <1>3, <3>1, <4>1
    <3>. QED  BY <1>3, <3>1, <3>3, <3>4
  <2>3. CASE <<f, x>> \notin Queued(q)
    <3>1. <<f, x>> \in Queued(more)
      BY <1>2, <1>7, <2>3, QueuedRest
    <3>2. PICK m \in DOMAIN more : more[m].field = f /\ x \in more[m].ids
      BY <3>1 DEF Queued
    <3>3. n + m \in DOMAIN rest /\ rest[n + m] = more[m]
      BY <1>3
    <3>4. tier[f] = tier[h] + 1 /\ h \in Stored
      BY <1>3, <1>4, <2>1, <3>2
    <3> DEFINE j == n + m
    <3>5. ASSUME NEW i \in 1..(j - 1), rest[i].field \in Stored
          PROVE  tier[rest[i].field] <= tier[f]
      <4>1. CASE i <= n
        <5>1. i \in 1..n /\ i + 1 \in DOMAIN q
          BY <1>3, <4>1
        <5>2. PICK p \in PathsOf(f) : \E y \in Reach(Cold(rows0), p, x) :
                Wrong(rows0, live, p.leaf, y)
          BY <2>1, <2>3 DEF Waiting
        <5>3. PICK y : Wrong(rows0, live, p.leaf, y)
          BY <5>2
        <5>4. tier[f] = tier[p.leaf] + 1
          BY <2>1, <5>3, TiersAre DEF Wrong
        <5>5. tier[q[i + 1].field] <= tier[p.leaf] + 1
          BY <1>3, <3>5, <5>1, <5>3 DEF Near
        <5>. QED  BY <1>3, <5>1, <5>4, <5>5
      <4>2. CASE ~(i <= n)
        <5>1. i - n \in 1..Len(more) /\ n + (i - n) = i
          BY <1>3, <4>2
        <5>2. rest[i] = more[i - n]
          BY <1>3, <5>1
        <5>3. tier[rest[i].field] = tier[h] + 1
          BY <1>4, <3>5, <5>1, <5>2
        <5>. QED  BY <1>5, <3>4, <5>3
      <4>. QED  BY <4>1, <4>2
    <3>6. j \in DOMAIN rest /\ rest[j].field = f /\ x \in rest[j].ids
      BY <3>2, <3>3
    <3> HIDE DEF j
    <3>. QED  BY <3>5, <3>6
  <2>. QED  BY <2>2, <2>3
<1>8. Near(tier, rows1, live, rest)
  BY <1>6 DEF Near
<1>9. Ahead(tier, rows1, live, rest)
  BY <1>7 DEF Ahead
<1>. QED  BY <1>8, <1>9 DEF rest

VisitedCells(sn) == {d \in Computes \X Recs : d[2] \in sn[d[1]]}

(* What a turn marks as visited.                                           *)
LEMMA VisitedGrows ==
    ASSUME NEW live, NEW rows0, NEW rows1, NEW q, NEW sn, NEW cells0, NEW cells1,
           Turned(live, rows0, rows1, q, sn, cells0, cells1)
    PROVE  /\ \A d \in Computes \X Recs :
                d[2] \in Visited(q, sn)[d[1]] <=>
                  d[2] \in sn[d[1]] \/ (d[1] = Head(q).field /\ d[2] \in Fresh(q, sn))
           /\ \A d \in Queued(q) :
                d \in Queued(Rest(rows0, q, sn)) \/ d \in VisitedCells(Visited(q, sn))
<1> DEFINE h == Head(q).field
           new == Fresh(q, sn)
           more == More(rows0, q, sn)
           rest == Rest(rows0, q, sn)
           vis == Visited(q, sn)
<1>1. h \in Computes /\ sn \in [Computes -> SUBSET Recs]
  <2>1. h \in Computes
    BY TurnKeepsTruth
  <2>2. sn \in [Computes -> SUBSET Recs]
    BY DEF Turned
  <2>. QED  BY <2>1, <2>2
<1>2. ASSUME NEW d \in Computes \X Recs
      PROVE  d[2] \in vis[d[1]] <=> d[2] \in sn[d[1]] \/ (d[1] = h /\ d[2] \in new)
  <2>1. d[1] \in Computes
    OBVIOUS
  <2>2. vis[d[1]] = IF d[1] = h THEN sn[d[1]] \cup new ELSE sn[d[1]]
    <3>1. vis = [sn EXCEPT ![h] = sn[h] \cup new]
      BY DEF Visited
    <3> HIDE DEF vis, new, h
    <3>. QED  BY <1>1, <2>1, <3>1
  <2>. QED  BY <2>2
<1>3. /\ q \in Seq(Entries(live)) /\ q # <<>> /\ RowsOK(rows0, live)
      /\ more \in Seq(Entries(live)) /\ rest = Tail(q) \o more
  BY MoreIs DEF Turned, Rest
<1>4. ASSUME NEW d \in Queued(q), d \notin Queued(rest)
      PROVE  d \in VisitedCells(vis)
  <2>1. Holds(Head(q), d)
    BY <1>3, <1>4, QueuedRest
  <2>2. d \in Computes \X Recs
    BY DEF Queued
  <2>3. d[1] = h /\ (d[2] \in sn[d[1]] \/ d[2] \in new)
    BY <2>1 DEF Holds, Fresh
  <2>. QED  BY <1>2, <2>2, <2>3 DEF VisitedCells
<1>. QED  BY <1>2, <1>4

(* Followed: fan_out queues whatever the visited rows lead to.             *)
LEMMA TurnFollows ==
    ASSUME NEW live, NEW rows0, NEW rows1, NEW q, NEW sn, NEW cells0, NEW cells1,
           Turned(live, rows0, rows1, q, sn, cells0, cells1), Followed(rows0, q, sn)
    PROVE  Followed(rows1, Rest(rows0, q, sn), Visited(q, sn))
<1> DEFINE h == Head(q).field
           new == Fresh(q, sn)
           more == More(rows0, q, sn)
           rest == Rest(rows0, q, sn)
           vis == Visited(q, sn)
<1> SUFFICES ASSUME NEW c \in Computes \X Recs, NEW d \in Computes \X Recs,
                    c[2] \in vis[c[1]], Leads(Links(rows1), c, d)
             PROVE  d \in Queued(rest) \/ d[2] \in vis[d[1]]
  BY DEF Followed
<1>1. Links(rows1) = Links(rows0) /\ h \in Computes
  BY TurnKeepsTruth
<1>2. c[2] \in sn[c[1]] \/ (c[1] = h /\ c[2] \in new)
  BY VisitedGrows
<1>3. /\ q \in Seq(Entries(live)) /\ q # <<>> /\ RowsOK(rows0, live)
      /\ more \in Seq(Entries(live)) /\ rest = Tail(q) \o more
  BY MoreIs DEF Turned, Rest
<1>4. CASE c[2] \in sn[c[1]]
  <2>1. d \in Queued(q) \/ d[2] \in sn[d[1]]
    BY <1>1, <1>4 DEF Followed
  <2>2. CASE d \in Queued(q)
    BY <2>2, VisitedGrows DEF VisitedCells
  <2>3. CASE d[2] \in sn[d[1]]
    BY <2>3, VisitedGrows
  <2>. QED  BY <2>1, <2>2, <2>3
<1>5. CASE c[1] = h /\ c[2] \in new
  <2>1. c = <<h, c[2]>>
    BY <1>5
  <2>2. Leads(Links(rows0), <<h, c[2]>>, d)
    BY <1>1, <2>1
  <2>3. d \in Queued(more)
    BY <1>3, <1>5, <2>2, MoreIs
  <2>. QED  BY <1>3, <2>3, QueuedRest
<1>. QED  BY <1>2, <1>4, <1>5

(* LazyDue: a set that holds the rest of the queue and is closed, with     *)
(* what has been visited, holds the queue as it was.                       *)
LEMMA TurnKeepsLazyDue ==
    ASSUME NEW live, NEW rows0, NEW rows1, NEW q, NEW sn, NEW cells0, NEW cells1,
           Turned(live, rows0, rows1, q, sn, cells0, cells1), Followed(rows0, q, sn),
           LazyDue(rows0, q, sn, cells0)
    PROVE  LazyDue(rows1, Rest(rows0, q, sn), Visited(q, sn), cells1)
<1> DEFINE h == Head(q).field
           new == Fresh(q, sn)
           rest == Rest(rows0, q, sn)
           vis == Visited(q, sn)
<1> SUFFICES ASSUME NEW l \in Lazy, NEW x \in Recs, cells1[x][l] \notin {Absent, Truth(rows1)[l][x]}
             PROVE  /\ x \notin vis[l]
                    /\ \A C \in SUBSET (Computes \X Recs) :
                         Queued(rest) \subseteq C /\ Closed(Links(rows1), C) => <<l, x>> \in C
  BY DEF LazyDue
<1>1. Links(rows1) = Links(rows0) /\ h \in Computes /\ l \in Computes /\ l \in Fields
  BY TurnKeepsTruth, Kinds
<1>2. cells1[x][l] = IF l = h /\ x \in new THEN Absent ELSE cells0[x][l]
  BY DEF Turned
<1>3. ~(l = h /\ x \in new) /\ cells0[x][l] \notin {Absent, Truth(rows0)[l][x]}
  BY <1>1, <1>2, TurnKeepsTruth
<1>4. x \notin sn[l]
  BY <1>3 DEF LazyDue
<1>5. x \notin vis[l]
  <2>1. <<l, x>> \in Computes \X Recs
    BY <1>1
  <2>2. <<l, x>>[2] \in vis[<<l, x>>[1]] <=>
           <<l, x>>[2] \in sn[<<l, x>>[1]] \/ (<<l, x>>[1] = h /\ <<l, x>>[2] \in new)
    BY <2>1, VisitedGrows
  <2> HIDE DEF vis
  <2>. QED  BY <1>3, <1>4, <2>2
<1>6. ASSUME NEW C \in SUBSET (Computes \X Recs), Queued(rest) \subseteq C, Closed(Links(rows1), C)
      PROVE  <<l, x>> \in C
  <2> DEFINE C0 == C \cup VisitedCells(vis)
  <2>1. C0 \in SUBSET (Computes \X Recs)
    BY DEF VisitedCells
  <2>2. Queued(q) \subseteq C0
    BY <1>6, VisitedGrows
  <2>3. Closed(Links(rows0), C0)
    <3>1. SUFFICES ASSUME NEW c \in C0, NEW d \in Computes \X Recs, Leads(Links(rows0), c, d)
                   PROVE  d \in C0
      BY DEF Closed
    <3>2. CASE c \in C
      BY <1>1, <1>6, <3>1, <3>2 DEF Closed
    <3>3. CASE c \in VisitedCells(vis)
      <4>1. c \in Computes \X Recs /\ c[2] \in vis[c[1]]
        BY <3>3 DEF VisitedCells
      <4>2. Followed(rows1, rest, vis)
        BY TurnFollows
      <4>3. d \in Queued(rest) \/ d[2] \in vis[d[1]]
        BY <1>1, <3>1, <4>1, <4>2 DEF Followed
      <4>. QED  BY <1>6, <4>3 DEF VisitedCells
    <3>. QED  BY <3>2, <3>3
  <2>4. <<l, x>> \in C0
    <3> HIDE DEF C0
    <3>. QED  BY <1>3, <2>1, <2>2, <2>3 DEF LazyDue
  <2>5. <<l, x>> \notin VisitedCells(vis)
    <3>1. \A d \in VisitedCells(vis) : d[2] \in vis[d[1]]
      BY DEF VisitedCells
    <3> HIDE DEF vis
    <3>. QED  BY <1>5, <3>1
  <2>. QED  BY <2>4, <2>5
<1>. QED  BY <1>5, <1>6

(* A turn keeps all of it; the last one forgets what was visited.          *)
LEMMA TurnIsDue ==
    ASSUME NEW tier, Schedule(tier),
           NEW live, NEW rows0, NEW rows1, NEW q, NEW sn, NEW cells0, NEW cells1,
           Turned(live, rows0, rows1, q, sn, cells0, cells1),
           Due(tier, rows0, live, q, sn, cells0)
    PROVE  LET rest == Rest(rows0, q, sn)
           IN  Due(tier, rows1, live, rest, IF rest = <<>> THEN NothingSeen ELSE Visited(q, sn), cells1)
<1> DEFINE rest == Rest(rows0, q, sn)
           vis == Visited(q, sn)
           sn1 == IF rest = <<>> THEN NothingSeen ELSE vis
<1>1. /\ Waiting(rows1, live, rest, vis) /\ Followed(rows1, rest, vis) /\
           LazyDue(rows1, rest, vis, cells1)
      /\ Ahead(tier, rows1, live, rest) /\ Near(tier, rows1, live, rest)
  BY TurnWaits, TurnFollows, TurnKeepsLazyDue, TurnKeepsAhead DEF Due
<1>2. NoDead(live, cells1)
  <2>1. SUFFICES ASSUME NEW l \in Lazy, NEW x \in Recs \ live
                 PROVE  cells1[x][l] = Absent
    BY DEF NoDead
  <2>2. cells0[x][l] = Absent
    BY DEF Due, NoDead
  <2>. QED  BY <2>2 DEF Turned
<1>3. \A f \in Computes : NothingSeen[f] = {}
  BY DEF NothingSeen
<1>4. Waiting(rows1, live, rest, sn1)
  <2>1. \A f, x : Wrong(rows1, live, f, x) => f \in Computes
    BY Kinds DEF Wrong
  <2>2. \A f, x : Wrong(rows1, live, f, x) => x \notin sn1[f]
    BY <1>1, <1>3, <2>1 DEF Waiting
  <2> HIDE DEF sn1
  <2>. QED  BY <1>1, <2>2 DEF Waiting
<1>5. Followed(rows1, rest, sn1)
  <2>1. CASE rest = <<>>
    <3>1. \A c \in Computes \X Recs : sn1[c[1]] = {}
      BY <1>3, <2>1
    <3> HIDE DEF sn1
    <3>. QED  BY <3>1 DEF Followed
  <2>2. CASE rest # <<>>
    BY <1>1, <2>2
  <2>. QED  BY <2>1, <2>2
<1>6. LazyDue(rows1, rest, sn1, cells1)
  <2>1. CASE rest = <<>>
    <3>1. \A l \in Lazy : sn1[l] = {}
      BY <1>3, <2>1, Kinds
    <3> HIDE DEF sn1
    <3>. QED  BY <1>1, <3>1 DEF LazyDue
  <2>2. CASE rest # <<>>
    BY <1>1, <2>2
  <2>. QED  BY <2>1, <2>2
<1> HIDE DEF rest, vis
<1>7. rest = <<>> => sn1 = NothingSeen
  OBVIOUS
<1> HIDE DEF sn1
<1>. QED  BY <1>1, <1>2, <1>4, <1>5, <1>6, <1>7 DEF Due, rest, vis, sn1

(* A read fills the cells that are missing and no others.                  *)
LEMMA LoadGives ==
    ASSUME NEW v, ViewOK(v), NEW cells
    PROVE  LET w == Load(v, cells)
           IN  /\ ViewOK(w) /\ w.row = v.row
               /\ \A r \in Recs : \A f \in Fields :
                    w.cache[r][f] = IF <<r, f>> \in cells /\ v.cache[r][f] = Absent
                                    THEN IF f \in Columns THEN v.row[r][f] ELSE Value(v)[f][r]
                                    ELSE v.cache[r][f]
<1> DEFINE val == Value(v)
           filled == [r \in Recs |-> [f \in Fields |->
              IF <<r, f>> \in cells /\ v.cache[r][f] = Absent
              THEN IF f \in Columns THEN v.row[r][f] ELSE val[f][r]
              ELSE v.cache[r][f]]]
           tuples == [r \in Recs |-> IF <<r>> \in cells THEN KidsIn(v, r) ELSE v.kids[r]]
           w == Load(v, cells)
<1>1. w = [v EXCEPT !.cache = filled, !.kids = tuples]
  BY DEF Load
<1> HIDE DEF val
<1>2. /\ filled = [r \in Recs |-> [f \in Fields |-> filled[r][f]]]
      /\ tuples = [r \in Recs |-> tuples[r]]
      /\ \A r \in Recs : \A f \in Fields :
            filled[r][f] = IF <<r, f>> \in cells /\ v.cache[r][f] = Absent
                           THEN IF f \in Columns THEN v.row[r][f] ELSE val[f][r]
                           ELSE v.cache[r][f]
  OBVIOUS
<1> HIDE DEF filled, tuples, w
<1>3. w \in Viewing(v.row, filled, tuples)
  BY <1>1 DEF ViewOK, Viewing
<1>4. w.row = v.row /\ w.cache = filled /\ w.kids = tuples /\ w \in Viewing(w.row, w.cache, w.kids)
  BY <1>3, ViewParts
<1>5. ViewOK(w)
  BY <1>2, <1>4 DEF ViewOK
<1>. QED  BY <1>2, <1>4, <1>5 DEF w, val

(* compute_field on a field that reads no lazy one leaves them alone.      *)
LEMMA ComputeGives ==
    ASSUME NEW v, Mirrors(v), Points(v.row), NEW f \in Stored, \A p \in PathsOf(f) :
             p.leaf \in Columns,
           NEW ids \in SUBSET Recs
    PROVE  LET x == ComputeField(v, f, ids)
           IN  /\ Mirrors(x)
               /\ \A r \in Recs : \A g \in Columns :
                    x.row[r][g] = IF r \in ids /\ g = f THEN Result(v, f, r) ELSE v.row[r][g]
               /\ \A r \in Recs : \A l \in Lazy : x.cache[r][l] = v.cache[r][l]
<1> DEFINE loaded == UNION {MethodLoads(v, f, r) : r \in ids}
           w == Load(v, loaded)
           new == [r \in ids |-> Result(v, f, r)]
           cells == [r \in Recs |-> IF r \in ids THEN [w.cache[r] EXCEPT ![f] = new[r]]
                                                 ELSE w.cache[r]]
           rows == [r \in Recs |-> IF r \in ids THEN [w.row[r] EXCEPT ![f] = new[r]]
                                                ELSE w.row[r]]
           x == ComputeField(v, f, ids)
<1>1. x = [w EXCEPT !.cache = cells, !.row = rows]
  BY DEF ComputeField
<1>2. ViewOK(v)
  BY DEF Mirrors
<1>3. f \in Computes /\ f \in Columns /\ f \in Fields /\ f # Link
  BY Kinds
<1>4. Mirrors(x)
  BY <1>3, ComputeMirrors
<1>5. \A r \in Recs : \A l \in Lazy : <<r, l>> \notin loaded
  <2>1. ASSUME NEW r \in Recs, NEW l \in Lazy, <<r, l>> \in loaded
        PROVE  FALSE
    <3>1. PICK y \in ids : <<r, l>> \in MethodLoads(v, f, y)
      BY <2>1
    <3>. QED  BY <1>3, <3>1, MethodLoadsColumns
  <2>. QED  BY <2>1
<1> HIDE DEF loaded
<1>6. /\ ViewOK(w) /\ w.row = v.row
      /\ \A r \in Recs : \A g \in Fields :
           w.cache[r][g] = IF <<r, g>> \in loaded /\ v.cache[r][g] = Absent
                           THEN IF g \in Columns THEN v.row[r][g] ELSE Value(v)[g][r]
                           ELSE v.cache[r][g]
  BY <1>2, LoadGives
<1>7. \A r \in Recs : \A l \in Lazy : w.cache[r][l] = v.cache[r][l]
  BY <1>5, <1>6, Kinds
<1>8. \A r \in ids : new[r] = Result(v, f, r)
  OBVIOUS
<1> HIDE DEF w, new
<1>9. ASSUME NEW r \in Recs
      PROVE  /\ \A g \in Columns : rows[r][g] = IF r \in ids /\ g = f THEN new[r] ELSE w.row[r][g]
             /\ \A g \in Fields : cells[r][g] = IF r \in ids /\ g = f THEN new[r] ELSE w.cache[r][g]
  <2>1. /\ w.row[r] = [g \in Columns |-> w.row[r][g]]
        /\ w.cache[r] = [g \in Fields |-> w.cache[r][g]]
    BY <1>6 DEF ViewOK
  <2>. QED  BY <1>3, <2>1
<1> HIDE DEF rows, cells, x
<1>10. x \in Viewing(rows, cells, w.kids)
  BY <1>1, <1>6 DEF ViewOK, Viewing
<1>11. x.row = rows /\ x.cache = cells
  BY <1>10, ViewParts
<1>12. \A r \in Recs : \A g \in Columns :
          x.row[r][g] = IF r \in ids /\ g = f THEN Result(v, f, r) ELSE v.row[r][g]
  BY <1>6, <1>8, <1>9, <1>11, Zenon
<1>13. \A r \in Recs : \A l \in Lazy : x.cache[r][l] = v.cache[r][l]
  <2>1. \A l \in Lazy : l \in Fields /\ l # f
    BY <1>3, Kinds
  <2>2. \A r \in Recs : \A l \in Lazy : x.cache[r][l] = w.cache[r][l]
    BY <1>9, <1>11, <2>1
  <2>. QED  BY <1>7, <2>2
<1>. QED  BY <1>4, <1>12, <1>13 DEF x
-----------------------------------------------------------------------------
(* The state of session s is one in which the propagation serves.          *)
IsDue(tier, s) == Due(tier, row, alive, queue[s], seen[s], cache[s])

(* Inside a turn, the method reads right values: what it reads is of a     *)
(* lower tier, and the wrong cells are not.                                *)
LEMMA TurnComputes ==
    ASSUME None \notin SUBSET Facts, NEW tier, Schedule(tier),
           NEW v, Mirrors(v), TypedRows(v.row), NEW live, RowsOK(v.row, live),
           NEW q \in Seq(Entries(live)), q # <<>>, NEW sn,
           Waiting(v.row, live, q, sn), Ahead(tier, v.row, live, q),
           Head(q).field \in Stored, NEW r \in live
    PROVE  Result(v, Head(q).field, r) = Truth(v.row)[Head(q).field][r]
<1> DEFINE f == Head(q).field
<1>1. \A p \in PathsOf(f) : p.leaf \in Columns
  BY TiersAre
<1>2. ASSUME NEW p \in PathsOf(f), NEW x, Wrong(v.row, live, p.leaf, x)
      PROVE  FALSE
  <2>1. p.leaf \in Stored
    BY <1>2 DEF Wrong
  <2>2. tier[f] = tier[p.leaf] + 1 /\ tier[f] \in Nat /\ tier[p.leaf] \in Nat
    BY <2>1, TiersAre
  <2>3. tier[f] <= tier[p.leaf]
    BY <1>2, HeadLowest
  <2>. QED  BY <2>2, <2>3
<1>. QED  BY <1>1, <1>2, ResultRight

(* Each turn of the propagation keeps all of it.                           *)
LEMMA PropagateTurns ==
    ASSUME None \notin SUBSET Facts, NEW s, Sessions = {s}, TypeInv, MirrorInv,
           NEW tier, Schedule(tier), IsDue(tier, s), Propagate(s)
    PROVE  IsDue(tier, s)'
<1> DEFINE q == queue[s]
           sn == seen[s]
           f == Head(q).field
           new == Fresh(q, sn)
           u == ViewOf(s)
           v == Forget(u, new, {f})
           w == IF f \in Stored THEN ComputeField(v, f, new) ELSE v
           rest == Rest(row, q, sn)
<1>1. /\ TypedView(u) /\ u.row = row /\ u.cache = cache[s] /\ RowsOK(row, alive) /\ TypedRows(row)
      /\ q \in Seq(Entries(alive)) /\ sn \in [Computes -> SUBSET Recs]
  BY StartIsTyped
<1>2. Mirrors(u) /\ ViewOK(u)
  BY StartMirrors
<1>3. /\ q # <<>> /\ Becomes(s, w) /\ alive' = alive
      /\ queue' = [queue EXCEPT ![s] = rest]
      /\ seen' = [seen EXCEPT ![s] = IF rest = <<>> THEN NothingSeen ELSE Visited(q, sn)]
  BY DEF Propagate, Idle, Rest, More, Visited, Fresh
<1>4. /\ queue \in [Sessions -> Seq(Entries(alive))] /\
           seen \in [Sessions -> [Computes -> SUBSET Recs]]
      /\ cache = [t \in Sessions |-> cache[t]]
  BY DEF TypeInv
<1>5. Due(tier, row, alive, q, sn, cache[s])
  BY DEF IsDue
<1>6. f \in Computes /\ new \subseteq alive /\ alive \subseteq Recs
  BY <1>1, <1>3, HeadIsTyped DEF Fresh, RowsOK
<1> HIDE DEF q, sn
<1>7. queue'[s] = rest /\ seen'[s] = IF rest = <<>> THEN NothingSeen ELSE Visited(q, sn)
  BY <1>3, <1>4
<1> HIDE DEF f, new, u
<1>8. /\ Mirrors(v) /\ v.row = row
      /\ \A r \in Recs, g \in Fields :
           v.cache[r][g] = IF r \in new /\ g \in {f} THEN Absent ELSE u.cache[r][g]
  BY <1>1, <1>2, ForgetMirrors, ForgetGives
<1> HIDE DEF v
<1>9. /\ \A x \in Recs : \A g \in Columns :
           w.row[x][g] = IF g = f /\ x \in new THEN Truth(row)[g][x] ELSE row[x][g]
      /\ \A x \in Recs : \A l \in Lazy : w.cache[x][l] = v.cache[x][l]
  <2>1. CASE f \in Stored
    <3> DEFINE y == ComputeField(v, f, new)
    <3>1. \A p \in PathsOf(f) : p.leaf \in Columns
      BY <2>1, TiersAre
    <3>2. new \in SUBSET Recs /\ Points(v.row)
      BY <1>1, <1>6, <1>8, OKPoints
    <3>3. /\ \A r \in Recs : \A g \in Columns :
               y.row[r][g] = IF r \in new /\ g = f THEN Result(v, f, r) ELSE v.row[r][g]
          /\ \A r \in Recs : \A l \in Lazy : y.cache[r][l] = v.cache[r][l]
      BY <1>8, <2>1, <3>1, <3>2, ComputeGives
    <3>4. \A r \in new : Result(v, f, r) = Truth(row)[f][r]
      <4> SUFFICES ASSUME NEW r \in new PROVE Result(v, f, r) = Truth(row)[f][r]
        OBVIOUS
      <4>1. Waiting(row, alive, q, sn) /\ Ahead(tier, row, alive, q)
        BY <1>5 DEF Due
      <4>2. r \in alive
        BY <1>6
      <4>3. Head(q).field \in Stored
        BY <2>1 DEF f
      <4>4. /\ TypedRows(v.row) /\ RowsOK(v.row, alive) /\ Mirrors(v)
            /\ Waiting(v.row, alive, q, sn) /\ Ahead(tier, v.row, alive, q)
            /\ q \in Seq(Entries(alive)) /\ q # <<>>
        BY <1>1, <1>3, <1>8, <4>1
      <4>5. Result(v, Head(q).field, r) = Truth(v.row)[Head(q).field][r]
        BY <4>2, <4>3, <4>4, TurnComputes
      <4>. QED  BY <1>8, <4>5 DEF f
    <3>5. w = y
      BY <2>1
    <3> HIDE DEF y, w
    <3>. QED  BY <1>8, <3>3, <3>4, <3>5
  <2>2. CASE f \notin Stored
    <3>1. w = v
      BY <2>2
    <3> HIDE DEF w
    <3>2. \A g \in Columns : g # f
      BY <1>6, <2>2, Kinds
    <3>. QED  BY <1>8, <3>1, <3>2
  <2>. QED  BY <2>1, <2>2
<1> HIDE DEF w
<1>10. row' = w.row /\ cache'[s] = w.cache
  BY <1>3, <1>4 DEF Becomes
<1>11. Turned(alive, row, row', q, sn, cache[s], cache'[s])
  <2>1. \A x \in Recs : \A l \in Lazy :
          cache'[s][x][l] = IF l = f /\ x \in new THEN Absent ELSE cache[s][x][l]
    <3>1. \A l \in Lazy : l \in Fields
      BY Kinds
    <3>. QED  BY <1>1, <1>8, <1>9, <1>10, <3>1
  <2>2. \A x \in Recs : \A g \in Columns :
          row'[x][g] = IF g = f /\ x \in new THEN Truth(row)[g][x] ELSE row[x][g]
    BY <1>9, <1>10
  <2>. QED  BY <1>1, <1>3, <2>1, <2>2 DEF Turned, f, new
<1>12. Due(tier, row', alive, rest, IF rest = <<>> THEN NothingSeen ELSE Visited(q, sn), cache'[s])
  BY <1>5, <1>11, TurnIsDue
<1> HIDE DEF rest
<1>. QED  BY <1>3, <1>7, <1>12 DEF IsDue
-----------------------------------------------------------------------------
(* Between operations.                                                     *)
LEMMA IdleFacts ==
    ASSUME NEW tier, Schedule(tier), NEW rows, NEW live, NEW q, q = <<>>, NEW sn, NEW cells,
           Due(tier, rows, live, q, sn, cells)
    PROVE  /\ \A f, x : ~Wrong(rows, live, f, x)
           /\ \A l \in Lazy : \A x \in Recs : cells[x][l] \in {Absent, Truth(rows)[l][x]}
           /\ NoDead(live, cells) /\ sn = NothingSeen
<1>1. \A f, x : ~Wrong(rows, live, f, x)
  BY IdleRight DEF Due
<1>2. ASSUME NEW l \in Lazy, NEW x \in Recs
      PROVE  cells[x][l] \in {Absent, Truth(rows)[l][x]}
  <2>1. PICK C \in SUBSET (Computes \X Recs) : C = {}
    OBVIOUS
  <2>2. Queued(q) \subseteq C /\ Closed(Links(rows), C)
    BY <2>1, NothingQueued DEF Closed
  <2>3. <<l, x>> \notin C
    BY <2>1
  <2>. QED  BY <2>2, <2>3 DEF Due, LazyDue
<1>. QED  BY <1>1, <1>2 DEF Due

(* Nothing has been visited, so nothing is to follow.                      *)
LEMMA NoneSeen ==
    ASSUME NEW rows, NEW q
    PROVE  Followed(rows, q, NothingSeen)
<1>1. \A c \in Computes \X Recs : NothingSeen[c[1]] = {}
  BY DEF NothingSeen
<1>. QED  BY <1>1 DEF Followed
-----------------------------------------------------------------------------
(* A notification starts a propagation.                                    *)
Told(link, fs, ids, f, x, k) ==
    k \in DOMAIN fs /\ fs[k] \notin Computes /\ \E y \in ids : Leads(link, <<fs[k], y>>, <<f, x>>)
Early(tier, fs, k) ==
    \A i \in DOMAIN fs : i < k =>
        fs[i] \notin Computes /\ \A g \in Stored : ListensTo(g, fs[i]) => tier[g] # 2

(* Only a field that listens to a column is told of it.                    *)
LEMMA ToldListens ==
    ASSUME NEW link, NEW fs, NEW ids, NEW f, NEW x, NEW k, Told(link, fs, ids, f, x, k)
    PROVE  f \in Computes /\ ListensTo(f, fs[k])
<1>1. PICK y \in ids : Leads(link, <<fs[k], y>>, <<f, x>>)
  BY DEF Told
<1> DEFINE c == fs[k]
<1>2. Leads(link, <<c, y>>, <<f, x>>)
  BY <1>1
<1> HIDE DEF c
<1>3. f \in Computes /\ \E e \in Edge : EdgeOf(f, e) /\ e.on = c /\ x \in FindSourceIds(link, e, {y})
  BY <1>2, LeadsAlongEdge
<1>4. ListensTo(f, c)
  BY <1>3, EdgesListen
<1>. QED  BY <1>3, <1>4 DEF c

Foremost(tier, q, f, x) ==
    \E j \in DOMAIN q : /\ q[j].field = f /\ x \in q[j].ids
                        /\ \A i \in 1..(j - 1) : q[i].field \in Stored => tier[q[i].field] <= tier[f]

(* A field of tier 1 that block k notifies has an entry with no higher     *)
(* tier before it, if no earlier block has one.                            *)
LEMMA ToldFirst ==
    ASSUME NEW tier, Schedule(tier), NEW link, NEW n \in Nat, NEW fs, DOMAIN fs = 1..n, NEW ids,
           NEW q, NEW block, NEW decl, Notified(link, fs, ids, q, block, decl),
           NEW f \in Stored, tier[f] = 1, NEW x \in Recs, NEW k, Told(link, fs, ids, f, x, k),
           Early(tier, fs, k)
    PROVE  Foremost(tier, q, f, x)
<1>a. k \in DOMAIN fs /\ fs[k] \notin Computes
  BY DEF Told
<1>b. PICK y \in ids : Leads(link, <<fs[k], y>>, <<f, x>>)
  BY DEF Told
<1>c. \A i \in DOMAIN fs : i < k =>
        fs[i] \notin Computes /\ \A g \in Stored : ListensTo(g, fs[i]) => tier[g] # 2
  BY DEF Early
<1>1. /\ \A g \in Stored : tier[g] \in Nat /\ tier[g] >= 1
      /\ f \in Computes
  BY TiersAre, Kinds
<1>2. Len(q) \in Nat /\ DOMAIN q = 1..Len(q)
  <2>1. q \in Seq(Entries(Recs))
    BY DEF Notified
  <2>. QED  BY <2>1, LenProperties
<1>3. PICK j \in 1..Len(q) : block[j] = k /\ q[j].field = f /\ x \in q[j].ids
  <2>1. <<f, x>> \in Computes \X Recs
    BY <1>1
  <2>2. \E m \in 1..Len(q) : block[m] = k /\ q[m].field = <<f, x>>[1] /\ <<f, x>>[2] \in q[m].ids
    BY <1>a, <1>b, <2>1 DEF Notified
  <2>. QED  BY <2>2
<1>4. ASSUME NEW i \in 1..(j - 1), q[i].field \in Stored
      PROVE  tier[q[i].field] <= tier[f]
  <2> DEFINE g == q[i].field
  <2>1. i \in 1..Len(q) /\ i < j
    BY <1>2
  <2>2. /\ block[i] \in DOMAIN fs /\ decl[i] \in DOMAIN Decl /\ g = Decl[decl[i]]
        /\ \E e : EdgeOf(g, e) /\ e.on = fs[block[i]]
    BY <2>1 DEF Notified
  <2>3. /\ decl[j] \in DOMAIN Decl /\ f = Decl[decl[j]]
        /\ block[i] < block[j] \/ (block[i] = block[j] /\ decl[i] <= decl[j])
    BY <1>3, <2>1 DEF Notified
  <2>4. ListensTo(g, fs[block[i]]) /\ (fs[block[i]] \notin Computes => tier[g] <= 2)
    BY <1>4, <2>2, EdgeTier
  <2> HIDE DEF g
  <2>5. g \in Stored
    BY <1>4 DEF g
  <2>6. tier[g] # 2
    <3>1. CASE block[i] < block[j]
      <4>1. block[i] < k
        BY <1>3, <3>1
      <4>. QED  BY <1>c, <2>2, <2>4, <2>5, <4>1
    <3>2. CASE block[i] = block[j] /\ decl[i] <= decl[j]
      <4>1. DOMAIN Decl = 1..Len(Decl) /\ Len(Decl) \in Nat
        BY GraphAssumption, LenProperties
      <4>2. CASE decl[i] = decl[j]
        <5>1. g = f
          BY <2>2, <2>3, <4>2
        <5>. QED  BY <5>1
      <4>3. CASE decl[i] # decl[j]
        <5>1. decl[i] < decl[j]
          BY <2>2, <2>3, <3>2, <4>1, <4>3
        <5>. QED  BY <2>2, <2>3, <2>5, <5>1 DEF Schedule, Declared
      <4>. QED  BY <4>2, <4>3
    <3>. QED  BY <2>3, <3>1, <3>2
  <2>7. fs[block[i]] \notin Computes
    <3>1. CASE block[i] < block[j]
      <4>1. block[i] < k
        BY <1>3, <3>1
      <4>. QED  BY <1>c, <2>2, <4>1
    <3>2. CASE block[i] = block[j]
      BY <1>a, <1>3, <3>2
    <3>. QED  BY <2>3, <3>1, <3>2
  <2>8. tier[g] <= 2 /\ tier[g] \in Nat
    BY <1>1, <2>4, <2>5, <2>7
  <2>9. tier[g] <= 1
    BY <2>6, <2>8
  <2>. QED  BY <2>9 DEF g
<1>. QED  BY <1>2, <1>3, <1>4 DEF Foremost

(* The queue a notification makes: every wrong cell is in it or waits for  *)
(* one that is, in the order of the tiers.                                 *)
LEMMA QueueStarts ==
    ASSUME NEW tier, Schedule(tier), NEW rows, NEW live \in SUBSET Recs,
           NEW n \in Nat, NEW fs, DOMAIN fs = 1..n, NEW ids, NEW q, NEW block, NEW decl,
           Notified(Links(rows), fs, ids, q, block, decl),
           \A f, x : Wrong(rows, live, f, x) =>
             \/ \E k : Told(Links(rows), fs, ids, f, x, k)
             \/ \E p \in PathsOf(f) : \E y \in Reach(Cold(rows), p, x) : Wrong(rows, live, p.leaf, y),
           \A i \in 1..Len(q) : q[i].field \in Stored => tier[q[i].field] <= 2,
           \A f, x : Wrong(rows, live, f, x) /\ tier[f] = 1 /\
             (\E k : Told(Links(rows), fs, ids, f, x, k))
             => \E k : Told(Links(rows), fs, ids, f, x, k) /\ Early(tier, fs, k)
    PROVE  Waiting(rows, live, q, NothingSeen) /\ Ahead(tier, rows, live, q) /\
             Near(tier, rows, live, q)
<1> DEFINE link == Links(rows)
<1>1. Len(q) \in Nat /\ DOMAIN q = 1..Len(q)
  <2>1. q \in Seq(Entries(Recs))
    BY DEF Notified
  <2>. QED  BY <2>1, LenProperties
<1>2. \A f, x : Wrong(rows, live, f, x) => f \in Computes /\ f \in Stored /\ x \in Recs
  BY Kinds DEF Wrong
<1>3. \A f \in Stored : tier[f] \in Nat /\ tier[f] >= 1
  BY TiersAre
<1>4. Near(tier, rows, live, q)
  <2>1. SUFFICES ASSUME NEW f, NEW x, Wrong(rows, live, f, x), NEW i \in DOMAIN q,
                          q[i].field \in Stored
                 PROVE  tier[q[i].field] <= tier[f] + 1
    BY DEF Near
  <2>2. tier[q[i].field] <= 2 /\ tier[q[i].field] \in Nat /\ tier[f] \in Nat /\ tier[f] >= 1
    BY <1>1, <1>2, <1>3, <2>1
  <2>. QED  BY <2>2
<1>5. Waiting(rows, live, q, NothingSeen)
  <2>1. SUFFICES ASSUME NEW f, NEW x, Wrong(rows, live, f, x)
                 PROVE  /\ x \notin NothingSeen[f]
                        /\ \/ <<f, x>> \in Queued(q)
                           \/ \E p \in PathsOf(f) : \E y \in Reach(Cold(rows), p, x) :
                                Wrong(rows, live, p.leaf, y)
    BY DEF Waiting
  <2>2. x \notin NothingSeen[f]
    BY <1>2, <2>1 DEF NothingSeen
  <2>3. ASSUME NEW k, Told(link, fs, ids, f, x, k)
        PROVE  <<f, x>> \in Queued(q)
    <3>1. k \in DOMAIN fs
      BY <2>3 DEF Told
    <3>2. PICK y \in ids : Leads(link, <<fs[k], y>>, <<f, x>>)
      BY <2>3 DEF Told
    <3>3. <<f, x>> \in Computes \X Recs
      BY <1>2, <2>1
    <3>4. \E m \in 1..Len(q) : block[m] = k /\ q[m].field = <<f, x>>[1] /\ <<f, x>>[2] \in q[m].ids
      BY <3>1, <3>2, <3>3 DEF Notified
    <3>. QED  BY <1>1, <3>3, <3>4 DEF Queued
  <2>. QED  BY <2>1, <2>2, <2>3
<1>6. Ahead(tier, rows, live, q)
  <2>1. SUFFICES ASSUME NEW f, NEW x, Wrong(rows, live, f, x), <<f, x>> \in Queued(q)
                 PROVE  \E j \in DOMAIN q :
                           /\ q[j].field = f /\ x \in q[j].ids
                           /\ \A i \in 1..(j - 1) : q[i].field \in Stored =>
                                tier[q[i].field] <= tier[f]
    BY DEF Ahead
  <2>2. CASE tier[f] = 1
    <3>1. ~\E p \in PathsOf(f) : \E y \in Reach(Cold(rows), p, x) : Wrong(rows, live, p.leaf, y)
      <4>1. ASSUME NEW p \in PathsOf(f), NEW y, Wrong(rows, live, p.leaf, y)
            PROVE  FALSE
        <5>1. tier[f] = tier[p.leaf] + 1 /\ tier[p.leaf] \in Nat /\ tier[p.leaf] >= 1
          BY <1>2, <1>3, <2>1, <4>1, TiersAre
        <5>. QED  BY <2>2, <5>1
      <4>. QED  BY <4>1
    <3>2. PICK k : Told(link, fs, ids, f, x, k) /\ Early(tier, fs, k)
      BY <2>1, <2>2, <3>1
    <3>3. Early(tier, fs, k) /\ f \in Stored /\ x \in Recs
      BY <1>2, <2>1, <2>2, <3>2
    <3>4. Foremost(tier, q, f, x)
      <4> HIDE DEF link
      <4>1. Notified(link, fs, ids, q, block, decl)
        BY DEF link
      <4>. QED  BY <2>2, <3>2, <3>3, <4>1, ToldFirst
    <3>. QED  BY <3>4 DEF Foremost
  <2>3. CASE tier[f] # 1
    <3>1. PICK j \in DOMAIN q : q[j].field = f /\ x \in q[j].ids
      BY <2>1 DEF Queued
    <3>2. tier[f] \in Nat /\ tier[f] >= 2
      BY <1>2, <1>3, <2>1, <2>3
    <3>3. ASSUME NEW i \in 1..(j - 1), q[i].field \in Stored
          PROVE  tier[q[i].field] <= tier[f]
      <4>1. i \in 1..Len(q)
        BY <1>1
      <4>2. tier[q[i].field] <= 2 /\ tier[q[i].field] \in Nat
        BY <1>3, <3>3, <4>1
      <4>. QED  BY <3>2, <4>2
    <3>. QED  BY <3>1, <3>3
  <2>. QED  BY <2>2, <2>3
<1>. QED  BY <1>4, <1>5, <1>6
-----------------------------------------------------------------------------
(* Plain columns changed only where the notification says so.              *)
Announced(rows0, rows1, fs, ids) ==
    \A x \in Recs : \A g \in Fields \ Computes : rows1[x][g] # rows0[x][g] =>
        x \in ids /\ \E k \in DOMAIN fs : fs[k] = g

(* The stored fields of the rows of D were right and have not been touched.*)
Untouched(rows0, rows1, D) ==
    \A f \in Stored : \A x \in D : rows1[x][f] = rows0[x][f] /\ rows0[x][f] = Truth(rows0)[f][x]

(* A stored field of a row that was right and is not any more has been     *)
(* told, or reads one that is not right any more.                          *)
LEMMA WrongWasTold ==
    ASSUME NEW tier, Schedule(tier),
           NEW rows0, Points(rows0), NEW rows1, NEW live, RowsOK(rows1, live),
           NoneLeaves(rows0, rows1), NEW fs, NEW ids,
           Announced(rows0, rows1, fs, ids), NEW D, Untouched(rows0, rows1, D),
           NEW f, NEW x \in D, Wrong(rows1, live, f, x),
           \A p \in PathsOf(f) : Reach(Cold(rows0), p, x) \subseteq D
    PROVE  \/ \E k : Told(Links(rows1), fs, ids, f, x, k) /\ (fs[k] = Link \/ ids \cap D # {})
           \/ \E p \in PathsOf(f) : \E y \in Reach(Cold(rows1), p, x) : Wrong(rows1, live, p.leaf, y)
<1>1. /\ f \in Stored /\ f \in Computes /\ x \in Recs /\ x \in live /\ live \subseteq Recs
      /\ Points(rows1)
  BY Kinds, OKPoints DEF Wrong, RowsOK
<1>2. Truth(rows0)[f][x] # Truth(rows1)[f][x]
  BY <1>1 DEF Wrong, Untouched
<1>3. CASE Rerouted(rows0, rows1, f, x)
  <2>1. PICK y \in Recs : rows0[y][Link] # rows1[y][Link] /\
          Leads(Links(rows1), <<Link, y>>, <<f, x>>)
    BY <1>3 DEF Rerouted
  <2>2. Link \in Fields \ Computes
    BY Kinds
  <2>3. y \in ids /\ \E k \in DOMAIN fs : fs[k] = Link
    BY <2>1, <2>2 DEF Announced
  <2>4. PICK k \in DOMAIN fs : fs[k] = Link
    BY <2>3
  <2>. QED  BY <2>1, <2>2, <2>3, <2>4 DEF Told
<1>4. CASE ~Rerouted(rows0, rows1, f, x)
  <2>1. PICK p \in PathsOf(f) : \E y \in Recs :
          /\ y \in Reach(Cold(rows0), p, x) /\ y \in Reach(Cold(rows1), p, x)
          /\ Truth(rows0)[p.leaf][y] # Truth(rows1)[p.leaf][y]
    BY <1>1, <1>2, <1>4, ChangedLocally
  <2>2. PICK y \in Recs :
          /\ y \in Reach(Cold(rows0), p, x) /\ y \in Reach(Cold(rows1), p, x)
          /\ Truth(rows0)[p.leaf][y] # Truth(rows1)[p.leaf][y]
    BY <2>1
  <2>3. p.leaf \in Columns /\ p.leaf \in Fields
    BY <1>1, TiersAre, Kinds
  <2>4. CASE p.leaf \in Computes
    <3>1. p.leaf \in Stored
      BY <2>3, <2>4, Kinds
    <3>2. y \in live
      BY <1>1, <2>2, AliveWalks
    <3>3. rows1[y][p.leaf] = Truth(rows0)[p.leaf][y]
      BY <2>2, <3>1 DEF Untouched
    <3>4. Wrong(rows1, live, p.leaf, y)
      BY <2>2, <3>1, <3>2, <3>3 DEF Wrong
    <3>. QED  BY <2>2, <3>4
  <2>5. CASE p.leaf \notin Computes
    <3>1. rows0[y][p.leaf] # rows1[y][p.leaf]
      BY <2>2, <2>3, <2>5, PlainTruth
    <3>2. y \in ids /\ \E k \in DOMAIN fs : fs[k] = p.leaf
      BY <2>3, <2>5, <3>1 DEF Announced
    <3>3. Leads(Links(rows1), <<p.leaf, y>>, <<f, x>>)
      BY <1>1, <2>2, PathLeads
    <3>4. PICK k \in DOMAIN fs : fs[k] = p.leaf
      BY <3>2
    <3>5. y \in D
      BY <2>2
    <3>. QED  BY <2>5, <3>2, <3>3, <3>4, <3>5 DEF Told
  <2>. QED  BY <2>4, <2>5
<1>. QED  BY <1>3, <1>4

(* A cached lazy field that a change makes wrong is in all that the queue  *)
(* leads to: the change was announced.                                     *)
LEMMA LazyStarts ==
    ASSUME NEW rows0, Points(rows0), NEW rows1, Points(rows1), NoneLeaves(rows0, rows1),
           NEW fs, NEW ids, Announced(rows0, rows1, fs, ids),
           NEW q, NEW block, NEW decl, Notified(Links(rows1), fs, ids, q, block, decl), NEW cells,
           \A l \in Lazy : \A x \in Recs : cells[x][l] \in {Absent, Truth(rows0)[l][x]}
    PROVE  LazyDue(rows1, q, NothingSeen, cells)
<1> SUFFICES ASSUME NEW l \in Lazy, NEW x \in Recs, cells[x][l] \notin {Absent, Truth(rows1)[l][x]}
             PROVE  /\ x \notin NothingSeen[l]
                    /\ \A C \in SUBSET (Computes \X Recs) :
                         Queued(q) \subseteq C /\ Closed(Links(rows1), C) => <<l, x>> \in C
  BY DEF LazyDue
<1>1. l \in Computes
  BY Kinds
<1>2. Truth(rows0)[l][x] # Truth(rows1)[l][x]
  OBVIOUS
<1>3. DOMAIN q = 1..Len(q)
  <2>1. q \in Seq(Entries(Recs))
    BY DEF Notified
  <2>. QED  BY <2>1, LenProperties
<1>4. ASSUME NEW C \in SUBSET (Computes \X Recs), Queued(q) \subseteq C, Closed(Links(rows1), C)
      PROVE  <<l, x>> \in C
  <2>1. Seeded(rows0, rows1, C)
    <3>1. SUFFICES ASSUME NEW g \in Fields \ Computes, NEW y \in Recs, rows0[y][g] # rows1[y][g],
                          NEW d \in Computes \X Recs, Leads(Links(rows1), <<g, y>>, d)
                   PROVE  d \in C
      BY DEF Seeded
    <3>2. y \in ids /\ \E k \in DOMAIN fs : fs[k] = g
      BY <3>1 DEF Announced
    <3>3. PICK k \in DOMAIN fs : fs[k] = g
      BY <3>2
    <3>4. Leads(Links(rows1), <<fs[k], y>>, d)
      BY <3>1, <3>3
    <3>5. \E m \in 1..Len(q) : block[m] = k /\ q[m].field = d[1] /\ d[2] \in q[m].ids
      BY <3>2, <3>4 DEF Notified
    <3>. QED  BY <1>3, <1>4, <3>5 DEF Queued
  <2>. QED  BY <1>1, <1>2, <1>4, <2>1, TruthChangeIsDue
<1>5. x \notin NothingSeen[l]
  BY <1>1 DEF NothingSeen
<1>. QED  BY <1>4, <1>5

(* What a write makes of the rows and the cached lazy fields.              *)
LEMMA WriteGives ==
    ASSUME NEW s, Sessions = {s}, TypeInv, NEW ids, NEW vals \in WriteVals, Write(s, ids, vals)
    PROVE  /\ ids \subseteq alive /\ alive' = alive /\ queue[s] = <<>>
           /\ \A x \in Recs : \A g \in Columns :
                row'[x][g] = IF x \in ids /\ g \in DOMAIN vals THEN vals[g] ELSE row[x][g]
           /\ \A x \in Recs : \A l \in Lazy : cache'[s][x][l] = cache[s][x][l]
           /\ \E changed \in SetToSeqs(DOMAIN vals) :
                queue'[s] = FanOut(Links(row'), changed, ids)
           /\ seen'[s] = NothingSeen
<1> DEFINE v == ViewOf(s)
           old == IF Link \in DOMAIN vals THEN {LinkIn(v, r) : r \in ids} \ {None} ELSE {}
           a == Assign(v, ids, vals)
           w == ForgetKids(a, old \cup Parent(vals))
<1>1. TypedView(v) /\ ViewOK(v) /\ v.row = row /\ v.cache = cache[s]
  BY StartIsTyped DEF TypedView
<1>2. /\ ids \subseteq alive /\ alive' = alive /\ Becomes(s, w)
      /\ \E changed \in SetToSeqs(DOMAIN vals) : Notify(s, w, changed, ids)
      /\ queue[s] = <<>>
  BY DEF Write, Idle
<1>3. queue = [t \in Sessions |-> queue[t]] /\ seen = [t \in Sessions |-> seen[t]] /\
        cache = [t \in Sessions |-> cache[t]]
  BY DEF TypeInv
<1> HIDE DEF v, old
<1>4. /\ ViewOK(a)
      /\ \A r \in Recs : \A f \in Columns :
           a.row[r][f] = IF r \in ids /\ f \in DOMAIN vals THEN vals[f] ELSE v.row[r][f]
      /\ \A r \in Recs : \A f \in Fields :
           a.cache[r][f] = IF r \in ids /\ f \in DOMAIN vals THEN vals[f] ELSE v.cache[r][f]
  BY <1>1, AssignGives
<1> HIDE DEF a
<1>5. w.row = a.row /\ w.cache = a.cache
  BY <1>4, ForgetKidsGives
<1> HIDE DEF w
<1>6. row' = w.row /\ cache'[s] = w.cache
  BY <1>2, <1>3 DEF Becomes
<1>7. PICK changed \in SetToSeqs(DOMAIN vals) : Notify(s, w, changed, ids)
  BY <1>2
<1>8. queue'[s] = FanOut(Links(row'), changed, ids) /\ seen'[s] = NothingSeen
  BY <1>3, <1>6, <1>7 DEF Notify
<1>9. \A l \in Lazy : l \in Fields /\ l \notin DOMAIN vals
  BY Kinds, ValsAreTyped
<1>10. \A x \in Recs : \A l \in Lazy : cache'[s][x][l] = cache[s][x][l]
  BY <1>1, <1>4, <1>5, <1>6, <1>9
<1>11. \A x \in Recs : \A g \in Columns :
          row'[x][g] = IF x \in ids /\ g \in DOMAIN vals THEN vals[g] ELSE row[x][g]
  BY <1>1, <1>4, <1>5, <1>6
<1>. QED  BY <1>2, <1>8, <1>10, <1>11

(* write() starts a propagation, or changes nothing.                       *)
LEMMA WriteIsDue ==
    ASSUME NEW s, Sessions = {s}, TypeInv, LinksStay, NEW tier, Schedule(tier),
           IsDue(tier, s), NEW ids, NEW vals \in WriteVals, Write(s, ids, vals)
    PROVE  IsDue(tier, s)'
<1>1. /\ ids \subseteq alive /\ alive' = alive /\ queue[s] = <<>>
      /\ \A x \in Recs : \A g \in Columns :
           row'[x][g] = IF x \in ids /\ g \in DOMAIN vals THEN vals[g] ELSE row[x][g]
      /\ \A x \in Recs : \A l \in Lazy : cache'[s][x][l] = cache[s][x][l]
      /\ \E changed \in SetToSeqs(DOMAIN vals) :
           queue'[s] = FanOut(Links(row'), changed, ids)
      /\ seen'[s] = NothingSeen
  BY WriteGives
<1>2. PICK changed \in SetToSeqs(DOMAIN vals) : queue'[s] = FanOut(Links(row'), changed, ids)
  BY <1>1
<1>3. /\ \A k \in DOMAIN changed : changed[k] \in DOMAIN vals /\ changed[k] \in Fields \ Computes
      /\ \A i, j \in DOMAIN changed : changed[i] = changed[j] => i = j
      /\ \A c \in DOMAIN vals : \E k \in DOMAIN changed : changed[k] = c
  BY EveryColumnOnce
<1>4. PICK n \in Nat : DOMAIN changed = 1..n
  BY EveryColumnOnce
<1>5. RowsOK(row, alive) /\ RowsOK(row', alive)
  <2>1. TypeInv'
    BY WriteIsTyped
  <2>. QED  BY <1>1, <2>1 DEF TypeInv
<1>6. Points(row) /\ Points(row') /\ alive \subseteq Recs /\ ids \in SUBSET Recs
  BY <1>1, <1>5, OKPoints DEF RowsOK
<1>7. /\ \A f, x : ~Wrong(row, alive, f, x)
      /\ \A l \in Lazy : \A x \in Recs : cache[s][x][l] \in {Absent, Truth(row)[l][x]}
      /\ NoDead(alive, cache[s])
  <2>1. Due(tier, row, alive, queue[s], seen[s], cache[s])
    BY DEF IsDue
  <2>. QED  BY <1>1, <2>1, IdleFacts
<1> DEFINE q == queue'[s]
<1>8. PICK block, decl : Notified(Links(row'), changed, ids, q, block, decl)
  <2>1. \A r \in Recs : Links(row')[r] \in Recs \cup {None}
    BY <1>6 DEF Points, Links
  <2>. QED  BY <1>2, <1>4, <1>6, <2>1, FanOutInOrder
<1> HIDE DEF q
<1>9. Announced(row, row', changed, ids)
  <2>1. SUFFICES ASSUME NEW x \in Recs, NEW g \in Fields \ Computes, row'[x][g] # row[x][g]
                 PROVE  x \in ids /\ \E k \in DOMAIN changed : changed[k] = g
    BY DEF Announced
  <2>2. g \in Columns
    BY Kinds
  <2>. QED  BY <1>1, <1>3, <2>1, <2>2
<1>10. NoneLeaves(row, row')
  <2>1. CASE UpOnly
    BY <2>1 DEF NoneLeaves
  <2>2. CASE ~UpOnly
    <3>1. Link \notin DOMAIN vals
      BY <2>2 DEF LinksStay
    <3>2. \A y \in Recs : row'[y][Link] = row[y][Link]
      BY <1>1, <3>1, Kinds
    <3>. QED  BY <3>2 DEF NoneLeaves
  <2>. QED  BY <2>1, <2>2
<1>11. LazyDue(row', q, NothingSeen, cache'[s])
  <2>1. \A l \in Lazy : \A x \in Recs : cache'[s][x][l] \in {Absent, Truth(row)[l][x]}
    BY <1>1, <1>7
  <2>. QED  BY <1>6, <1>8, <1>9, <1>10, <2>1, LazyStarts
<1>12. ASSUME NEW f, NEW x, Wrong(row', alive, f, x)
       PROVE  \/ \E k : Told(Links(row'), changed, ids, f, x, k)
              \/ \E p \in PathsOf(f) : \E y \in Reach(Cold(row'), p, x) :
                   Wrong(row', alive, p.leaf, y)
  <2>1. f \in Stored /\ f \in Computes /\ x \in alive
    BY <1>12, Kinds DEF Wrong
  <2>2. \A p \in PathsOf(f) : Reach(Cold(row), p, x) \subseteq alive
    BY <1>5, <2>1, AliveWalks
  <2>3. Untouched(row, row', alive)
    <3>1. SUFFICES ASSUME NEW g \in Stored, NEW y \in alive
                   PROVE  row'[y][g] = row[y][g] /\ row[y][g] = Truth(row)[g][y]
      BY DEF Untouched
    <3>2. g \notin DOMAIN vals /\ g \in Columns /\ y \in Recs
      BY <1>6, Kinds, ValsAreTyped
    <3>. QED  BY <1>1, <1>7, <3>2 DEF Wrong
  <2>. QED  BY <1>5, <1>6, <1>9, <1>10, <1>12, <2>1, <2>2, <2>3, WrongWasTold
<1>13. \A i \in 1..Len(q) : q[i].field \in Stored => tier[q[i].field] <= 2
  <2> SUFFICES ASSUME NEW i \in 1..Len(q), q[i].field \in Stored PROVE tier[q[i].field] <= 2
    OBVIOUS
  <2>1. block[i] \in DOMAIN changed /\ \E e : EdgeOf(q[i].field, e) /\ e.on = changed[block[i]]
    BY <1>8 DEF Notified
  <2>2. PICK e : EdgeOf(q[i].field, e) /\ e.on = changed[block[i]]
    BY <2>1
  <2>3. e.on \notin Computes
    BY <1>3, <2>1, <2>2
  <2>. QED  BY <2>2, <2>3, EdgeTier
<1>14. ASSUME NEW f, NEW x, NEW k, Wrong(row', alive, f, x), tier[f] = 1,
              Told(Links(row'), changed, ids, f, x, k)
       PROVE  Early(tier, changed, k)
  <2>1. f \in Stored /\ ListensTo(f, changed[k]) /\ k \in DOMAIN changed
    BY <1>14, ToldListens DEF Wrong, Told
  <2>2. SUFFICES ASSUME NEW i \in DOMAIN changed, i < k
                 PROVE  /\ changed[i] \notin Computes
                        /\ \A g \in Stored : ListensTo(g, changed[i]) => tier[g] # 2
    BY DEF Early
  <2>3. changed[i] # changed[k] /\ changed[i] \in DOMAIN vals /\ changed[k] \in DOMAIN vals
    <3>1. i # k
      BY <1>4, <2>1, <2>2
    <3>. QED  BY <1>3, <2>1, <2>2, <3>1
  <2>4. ASSUME NEW g \in Stored, ListensTo(g, changed[i]), tier[g] = 2
        PROVE  FALSE
    <3>1. WritesInOrder(tier)
      BY DEF Schedule
    <3> DEFINE c == changed[i]
               d == changed[k]
    <3>2. c \in DOMAIN vals /\ d \in DOMAIN vals /\ c # d /\ ListensTo(g, c) /\
            ListensTo(f, d) /\ f \in Stored
      BY <2>1, <2>3, <2>4
    <3> HIDE DEF c, d
    <3>. QED  BY <1>14, <2>4, <3>1, <3>2 DEF WritesInOrder
  <2>. QED  BY <1>3, <2>2, <2>4
<1>15. Waiting(row', alive, q, NothingSeen) /\ Ahead(tier, row', alive, q) /\
         Near(tier, row', alive, q)
  <2>1. alive \in SUBSET Recs
    BY <1>6
  <2>. QED  BY <1>4, <1>8, <1>12, <1>13, <1>14, <2>1, QueueStarts
<1>16. NoDead(alive, cache'[s])
  BY <1>1, <1>6, <1>7 DEF NoDead
<1>17. Due(tier, row', alive, q, NothingSeen, cache'[s])
  BY <1>11, <1>15, <1>16, NoneSeen DEF Due
<1>. QED  BY <1>1, <1>17 DEF IsDue, q

(* What create makes of the stored fields of the new row.                  *)
Computed(q, k, v, r, u) ==
    /\ Mirrors(u) /\ TypedView(u)
    /\ \A x \in Recs : \A c \in Columns :
         x # r \/ (\A i \in 1..k : q[i] # c) => u.row[x][c] = v.row[x][c]
    /\ \A x \in Recs : \A l \in Lazy : u.cache[x][l] = v.cache[x][l]

Resulting(q, k, g, r) ==
    \A i \in 1..k : g[1..k].row[r][q[i]] = Result(g[1..(i - 1)], q[i], r)

(* Inside create(), each stored field of the new row is computed after     *)
(* those it reads.                                                         *)
LEMMA CreateSteps ==
    ASSUME NEW tier, Schedule(tier), NEW v, Mirrors(v), TypedView(v), NEW r \in Recs,
           NEW q, InOrder(q), NEW g, InTurn(g, v, q, r)
    PROVE  \A k \in 0..Len(q) : Computed(q, k, v, r, g[1..k]) /\ Resulting(q, k, g, r)
<1> DEFINE T == {k \in Nat : k <= Len(q) => Computed(q, k, v, r, g[1..k]) /\ Resulting(q, k, g, r)}
<1>1. /\ q \in Seq(Stored) /\ Len(q) \in Nat /\ \A k \in 1..Len(q) : q[k] \in Stored
      /\ \A i, j \in 1..Len(q) : q[i] = q[j] => i = j
  BY LenProperties, ElementOfSeq DEF InOrder, Orders
<1>2. /\ g[1..0] = v
      /\ \A k \in Nat : k + 1 <= Len(q) => g[1..(k + 1)] = ComputeField(g[1..k], q[k + 1], {r})
  BY DEF InTurn
<1>3. 0 \in T
  BY <1>2 DEF Computed, Resulting
<1>4. ASSUME NEW k \in Nat, k \in T
      PROVE  k + 1 \in T
  <2>1. SUFFICES ASSUME k + 1 <= Len(q)
                 PROVE  Computed(q, k + 1, v, r, g[1..(k + 1)]) /\ Resulting(q, k + 1, g, r)
    OBVIOUS
  <2>2. Computed(q, k, v, r, g[1..k]) /\ Resulting(q, k, g, r)
    BY <1>1, <1>4, <2>1
  <2> DEFINE u == g[1..k]
             f == q[k + 1]
             y == ComputeField(u, f, {r})
  <2>3. g[1..(k + 1)] = y
    BY <1>2, <2>1
  <2>4. f \in Stored
    BY <1>1, <2>1
  <2>5. Mirrors(u) /\ TypedView(u) /\ Points(u.row)
    <3>1. Mirrors(u) /\ TypedView(u)
      BY <2>2 DEF Computed
    <3>2. \A x \in Recs : IsValue(Link, u.row[x][Link])
      BY <3>1, Schema DEF TypedView, TypedRows
    <3> HIDE DEF u
    <3>. QED  BY <3>1, <3>2, LinkValue DEF Points
  <2>6. \A p \in PathsOf(f) : p.leaf \in Columns
    BY <2>4, TiersAre
  <2> HIDE DEF u, f
  <2>7. /\ Mirrors(y)
        /\ \A x \in Recs : \A c \in Columns :
             y.row[x][c] = IF x \in {r} /\ c = f THEN Result(u, f, x) ELSE u.row[x][c]
        /\ \A x \in Recs : \A l \in Lazy : y.cache[x][l] = u.cache[x][l]
    BY <2>4, <2>5, <2>6, ComputeGives
  <2>8. TypedView(y)
    BY <2>4, <2>5, ComputeIsTyped
  <2> HIDE DEF y
  <2>9. /\ \A x \in Recs : \A c \in Columns :
             x # r \/ (\A i \in 1..k : q[i] # c) => u.row[x][c] = v.row[x][c]
        /\ \A x \in Recs : \A l \in Lazy : u.cache[x][l] = v.cache[x][l]
    BY <2>2 DEF Computed, u
  <2>10. ASSUME NEW x \in Recs, NEW c \in Columns, x # r \/ (\A i \in 1..(k + 1) : q[i] # c)
         PROVE  y.row[x][c] = v.row[x][c]
    <3>1. x # r \/ c # f
      BY <2>10 DEF f
    <3>2. y.row[x][c] = u.row[x][c]
      BY <2>7, <3>1
    <3>3. x # r \/ (\A i \in 1..k : q[i] # c)
      BY <2>10
    <3>. QED  BY <2>9, <3>2, <3>3
  <2>11. Computed(q, k + 1, v, r, y)
    <3>1. \A x \in Recs : \A c \in Columns :
            x # r \/ (\A i \in 1..(k + 1) : q[i] # c) => y.row[x][c] = v.row[x][c]
      BY <2>10
    <3>2. \A x \in Recs : \A l \in Lazy : y.cache[x][l] = v.cache[x][l]
      BY <2>7, <2>9
    <3>. QED  BY <2>7, <2>8, <3>1, <3>2 DEF Computed
  <2>12. ASSUME NEW i \in 1..(k + 1)
         PROVE  y.row[r][q[i]] = Result(g[1..(i - 1)], q[i], r)
    <3>1. i \in 1..Len(q) /\ k + 1 \in 1..Len(q) /\ q[i] \in Columns
      BY <1>1, <2>1, Kinds
    <3>2. CASE i = k + 1
      <4>1. q[i] = f /\ i - 1 = k
        BY <3>2 DEF f
      <4>2. g[1..(i - 1)] = u
        BY <4>1 DEF u
      <4>. QED  BY <2>7, <3>1, <4>1, <4>2
    <3>3. CASE i # k + 1
      <4>1. i \in 1..k /\ q[i] # f
        BY <1>1, <3>1, <3>3 DEF f
      <4>2. y.row[r][q[i]] = u.row[r][q[i]]
        BY <2>7, <3>1, <4>1
      <4>3. u.row[r][q[i]] = Result(g[1..(i - 1)], q[i], r)
        BY <2>2, <4>1 DEF Resulting, u
      <4>. QED  BY <4>2, <4>3
    <3>. QED  BY <3>2, <3>3
  <2>13. Resulting(q, k + 1, g, r)
    BY <2>3, <2>12 DEF Resulting
  <2>. QED  BY <2>3, <2>11, <2>13
<1>5. Nat \subseteq T
  <2> HIDE DEF T
  <2>. QED  BY <1>3, <1>4, NatSet
<1>. QED  BY <1>1, <1>5

(* A stored field of the new row that is not right reads one that is not.  *)
LEMMA CreatedReadsWrong ==
    ASSUME None \notin SUBSET Facts, NEW tier, Schedule(tier), NEW v, Mirrors(v), TypedView(v),
           NEW live, RowsOK(v.row, live), NEW r \in live
    PROVE  LET w == ComputeAll(v, StoredOrder, r)
           IN  /\ \A x \in Recs : \A c \in Columns : x # r \/ c \notin Stored =>
                    w.row[x][c] = v.row[x][c]
               /\ \A x \in Recs : \A l \in Lazy : w.cache[x][l] = v.cache[x][l]
               /\ RowsOK(w.row, live)
               /\ \A f : Wrong(w.row, live, f, r) =>
                    \E p \in PathsOf(f) : \E y \in Reach(Cold(w.row), p, r) :
                      Wrong(w.row, live, p.leaf, y)
<1> DEFINE q == StoredOrder
           g == Folding(v, q, r)
           w == ComputeAll(v, q, r)
<1>1. /\ InOrder(q) /\ q \in Seq(Stored) /\ Len(q) \in Nat /\ \A k \in 1..Len(q) : q[k] \in Stored
      /\ \A f \in Stored : \E k \in 1..Len(q) : q[k] = f
      /\ \A i, j \in 1..Len(q) : q[i] = q[j] => i = j
      /\ \A j \in 1..Len(q) : \A p \in PathsOf(q[j]) :
           p.leaf \in Stored => \E i \in 1..(j - 1) : q[i] = p.leaf
  <2>1. InOrder(q) /\ ToSet(q) = Stored
    BY CreateFollowsReads
  <2> HIDE DEF q
  <2>2. q \in Seq(Stored) /\ Len(q) \in Nat /\ DOMAIN q = 1..Len(q) /\
          \A k \in 1..Len(q) : q[k] \in Stored
    BY <2>1, LenProperties, ElementOfSeq DEF InOrder, Orders
  <2>. QED  BY <2>1, <2>2 DEF InOrder, ToSet
<1>2. InTurn(g, v, q, r) /\ w = g[1..Len(q)] /\ r \in Recs /\ live \subseteq Recs
  BY <1>1, FoldingSteps DEF RowsOK
<1> HIDE DEF q, g, w
<1>3. \A k \in 0..Len(q) : Computed(q, k, v, r, g[1..k]) /\ Resulting(q, k, g, r)
  BY <1>1, <1>2, CreateSteps
<1>4. Computed(q, Len(q), v, r, w) /\ Resulting(q, Len(q), g, r)
  BY <1>1, <1>2, <1>3
<1>5. /\ \A x \in Recs : \A c \in Columns : x # r \/ c \notin Stored => w.row[x][c] = v.row[x][c]
      /\ \A x \in Recs : \A l \in Lazy : w.cache[x][l] = v.cache[x][l]
      /\ Mirrors(w) /\ TypedView(w)
  BY <1>1, <1>4 DEF Computed
<1>6. RowsOK(w.row, live)
  <2>1. \A x \in Recs : w.row[x][Link] = v.row[x][Link]
    BY <1>5, Kinds
  <2>2. \A x \in Recs \ live : \A c \in Columns : w.row[x][c] = v.row[x][c]
    BY <1>5
  <2>. QED  BY <2>1, <2>2 DEF RowsOK
<1>7. ASSUME NEW f, Wrong(w.row, live, f, r),
             \A p \in PathsOf(f) : \A y \in Reach(Cold(w.row), p, r) : ~Wrong(w.row, live, p.leaf, y)
      PROVE  FALSE
  <2>1. f \in Stored /\ f \in Computes /\ w.row[r][f] # Truth(w.row)[f][r]
    BY <1>7, Kinds DEF Wrong
  <2>2. PICK j \in 1..Len(q) : q[j] = f
    BY <1>1, <2>1
  <2> DEFINE u == g[1..(j - 1)]
  <2>3. w.row[r][f] = Result(u, f, r)
    BY <1>2, <1>4, <2>2 DEF Resulting
  <2>4. j - 1 \in 0..Len(q) /\ Computed(q, j - 1, v, r, u) /\ Resulting(q, j - 1, g, r)
    <3>1. j - 1 \in 0..Len(q)
      BY <1>1
    <3> DEFINE k == j - 1
    <3>2. k \in 0..Len(q)
      BY <3>1
    <3> HIDE DEF k
    <3>3. Computed(q, k, v, r, g[1..k]) /\ Resulting(q, k, g, r)
      BY <1>3, <3>2
    <3>. QED  BY <3>1, <3>3 DEF k
  <2>5. /\ Mirrors(u) /\ TypedView(u)
        /\ \A x \in Recs : \A c \in Columns :
             x # r \/ (\A i \in 1..(j - 1) : q[i] # c) => u.row[x][c] = v.row[x][c]
    BY <2>4 DEF Computed
  <2>6. \A i \in 1..(j - 1) : u.row[r][q[i]] = Result(g[1..(i - 1)], q[i], r)
    BY <2>4 DEF Resulting
  <2>7. \A i \in 1..(j - 1) : w.row[r][q[i]] = Result(g[1..(i - 1)], q[i], r)
    BY <1>1, <1>2, <1>4 DEF Resulting
  <2> HIDE DEF u
  <2>8. \A x \in Recs : u.row[x][Link] = w.row[x][Link]
    <3>1. Link \in Columns /\ Link \notin Stored /\ \A i \in 1..(j - 1) : q[i] # Link
      BY <1>1, Kinds
    <3>. QED  BY <1>5, <2>5, <3>1
  <2>9. Points(w.row) /\ Points(u.row)
    <3>1. Points(w.row)
      BY <1>6, OKPoints
    <3>. QED  BY <2>8, <3>1 DEF Points
  <2>10. ASSUME NEW p \in PathsOf(f)
         PROVE  /\ Reach(Cold(w.row), p, r) = Reach(u, p, r)
                /\ \A y \in Reach(u, p, r) : Value(u)[p.leaf][y] = Truth(w.row)[p.leaf][y]
    <3>1. /\ Reach(u, p, r) = Reach(Cold(u.row), p, r)
          /\ Reach(Cold(u.row), p, r) = Reach(Cold(w.row), p, r)
      <4>1. Reach(u, p, r) = Reach(Cold(u.row), p, r)
        BY <1>2, <2>1, <2>5, <2>9, MirrorWalks
      <4>2. Reach(Cold(u.row), p, r) = Reach(Cold(w.row), p, r)
        BY <1>2, <2>1, <2>8, <2>9, SameLinks
      <4>. QED  BY <4>1, <4>2
    <3>2. Reach(Cold(w.row), p, r) \subseteq live
      BY <1>6, <2>1, AliveWalks
    <3>3. p.leaf \in Columns
      BY <2>1, TiersAre
    <3>4. ASSUME NEW y \in Reach(u, p, r)
          PROVE  Value(u)[p.leaf][y] = Truth(w.row)[p.leaf][y]
      <4>1. y \in live /\ y \in Recs /\ ~Wrong(w.row, live, p.leaf, y)
        BY <1>2, <1>7, <3>1, <3>2
      <4>2. Value(u)[p.leaf][y] = AsFacts(y, p.leaf, u.row[y][p.leaf])
        BY <2>5, <3>3, <4>1, ColumnRead
      <4>3. u.row[y][p.leaf] = w.row[y][p.leaf]
        <5>1. CASE y = r /\ p.leaf \in Stored
          <6>1. PICK i \in 1..(j - 1) : q[i] = p.leaf
            BY <1>1, <2>2, <5>1
          <6>. QED  BY <2>6, <2>7, <5>1, <6>1
        <5>2. CASE y # r
          BY <1>5, <2>5, <3>3, <4>1, <5>2
        <5>3. CASE p.leaf \notin Stored
          <6> DEFINE l == p.leaf
          <6> HIDE DEF l
          <6>1. \A i \in 1..(j - 1) : i \in 1..Len(q)
            BY <1>1
          <6>2. \A i \in 1..(j - 1) : q[i] \in Stored
            BY <1>1, <6>1
          <6>3. \A i \in 1..(j - 1) : q[i] # l
            BY <5>3, <6>2 DEF l
          <6>4. u.row[y][l] = v.row[y][l] /\ w.row[y][l] = v.row[y][l]
            BY <1>5, <2>5, <3>3, <4>1, <5>3, <6>3 DEF l
          <6>. QED  BY <6>4 DEF l
        <5>. QED  BY <5>1, <5>2, <5>3
      <4>4. AsFacts(y, p.leaf, w.row[y][p.leaf]) = Truth(w.row)[p.leaf][y]
        <5>1. TypedRows(w.row)
          BY <1>5 DEF TypedView
        <5>. QED  BY <3>3, <4>1, <5>1, ColumnFacts
      <4>. QED  BY <4>2, <4>3, <4>4
    <3>. QED  BY <3>1, <3>4
  <2>11. Gather(u, f, r, Value(u)) = Gather(Cold(w.row), f, r, Truth(w.row))
    <3> DEFINE a == Value(u)
               b == Truth(w.row)
               c == Cold(w.row)
    <3>1. \A p \in PathsOf(f) : Reach(c, p, r) = Reach(u, p, r) /\
            \A y \in Reach(u, p, r) : a[p.leaf][y] = b[p.leaf][y]
      BY <2>10
    <3> HIDE DEF a, b, c
    <3>2. Gather(u, f, r, a) = Gather(c, f, r, b)
      BY <3>1, GathersAgree
    <3>. QED  BY <3>2 DEF a, b, c
  <2>12. Truth(w.row)[f][r] = Gather(Cold(w.row), f, r, Truth(w.row))
    BY <1>2, <2>1, Kinds, TruthIs
  <2>. QED  BY <2>1, <2>3, <2>11, <2>12 DEF Result
<1>8. \A f : Wrong(w.row, live, f, r) =>
        \E p \in PathsOf(f) : \E y \in Reach(Cold(w.row), p, r) : Wrong(w.row, live, p.leaf, y)
  BY <1>7
<1>. QED  BY <1>5, <1>6, <1>8 DEF w, q

(* The new row, its cells, and the queue create() makes.                   *)
LEMMA CreateGives ==
    ASSUME None \notin SUBSET Facts, NEW s, Sessions = {s}, TypeInv, MirrorInv,
           NEW tier, Schedule(tier), NEW r \in Recs, NEW vals \in CreateVals, Create(s, r, vals)
    PROVE  /\ r \notin alive /\ alive' = alive \cup {r} /\ queue[s] = <<>>
           /\ \A x \in Recs : \A c \in Columns : x # r \/ c \notin Stored =>
                row'[x][c] = IF x = r /\ c \in DOMAIN vals THEN vals[c] ELSE row[x][c]
           /\ \A x \in Recs : \A l \in Lazy : cache'[s][x][l] = cache[s][x][l]
           /\ RowsOK(row', alive')
           /\ \A f : Wrong(row', alive', f, r) =>
                \E p \in PathsOf(f) : \E y \in Reach(Cold(row'), p, r) :
                  Wrong(row', alive', p.leaf, y)
           /\ \E changed \in SetToSeqs(DOMAIN vals) :
                queue'[s] = FanOut(Links(row'), changed \o StoredOrder, {r})
           /\ seen'[s] = NothingSeen
<1> DEFINE u == ViewOf(s)
           a == Assign(u, {r}, vals)
           v == ForgetKids(a, Parent(vals))
           w == ComputeAll(v, StoredOrder, r)
<1>1. TypedView(u) /\ ViewOK(u) /\ u.row = row /\ u.cache = cache[s] /\ RowsOK(row, alive)
  BY StartIsTyped DEF TypedView
<1>2. Mirrors(u)
  BY StartMirrors
<1>3. /\ r \notin alive /\ Parent(vals) \subseteq alive /\ alive' = alive \cup {r}
      /\ Becomes(s, w) /\ queue[s] = <<>>
      /\ \E changed \in SetToSeqs(DOMAIN vals) : Notify(s, w, changed \o StoredOrder, {r})
  BY DEF Create, ComputeAll, Idle
<1>4. queue = [t \in Sessions |-> queue[t]] /\ seen = [t \in Sessions |-> seen[t]] /\
        cache = [t \in Sessions |-> cache[t]]
  BY DEF TypeInv
<1>5. row[r][Link] = None
  BY <1>1, <1>3, Schema DEF RowsOK
<1>6. Link \in DOMAIN vals =>
        \A x \in {r} \cap Recs : {u.row[x][Link], vals[Link]} \ {None} \subseteq Parent(vals)
  BY <1>1, <1>5 DEF Parent
<1> HIDE DEF u
<1>7. Mirrors(v)
  BY <1>2, <1>6, AssignMirrors
<1>8. /\ TypedView(a) /\ ViewOK(a)
      /\ \A x \in Recs : \A f \in Columns :
           a.row[x][f] = IF x \in {r} /\ f \in DOMAIN vals THEN vals[f] ELSE u.row[x][f]
      /\ \A x \in Recs : \A f \in Fields :
           a.cache[x][f] = IF x \in {r} /\ f \in DOMAIN vals THEN vals[f] ELSE u.cache[x][f]
  <2>1. TypedView(a)
    BY <1>1, ValsAreTyped, AssignIsTyped
  <2>. QED  BY <1>1, <2>1, AssignGives
<1> HIDE DEF a
<1>9. TypedView(v) /\ v.row = a.row /\ v.cache = a.cache
  BY <1>8, ForgetIsTyped, ForgetKidsGives
<1> HIDE DEF v
<1>10. Link \in DOMAIN vals => vals[Link] \in alive \cup {None}
  BY <1>3 DEF Parent
<1>11. RowsOK(v.row, alive') /\ r \in alive'
  <2>1. ASSUME NEW x \in Recs
        PROVE  v.row[x][Link] \in alive \cup {None}
    BY <1>1, <1>8, <1>9, <1>10, Schema DEF RowsOK
  <2>2. ASSUME NEW x \in Recs \ alive', NEW f \in Columns
        PROVE  v.row[x][f] = None
    <3>1. x # r /\ x \in Recs \ alive
      BY <1>3
    <3>. QED  BY <1>1, <1>8, <1>9, <3>1 DEF RowsOK
  <2>. QED  BY <1>1, <1>3, <2>1, <2>2 DEF RowsOK
<1>12. /\ \A x \in Recs : \A c \in Columns : x # r \/ c \notin Stored => w.row[x][c] = v.row[x][c]
       /\ \A x \in Recs : \A l \in Lazy : w.cache[x][l] = v.cache[x][l]
       /\ RowsOK(w.row, alive')
       /\ \A f : Wrong(w.row, alive', f, r) =>
            \E p \in PathsOf(f) : \E y \in Reach(Cold(w.row), p, r) : Wrong(w.row, alive', p.leaf, y)
  BY <1>7, <1>9, <1>11, CreatedReadsWrong
<1> HIDE DEF w
<1>13. row' = w.row /\ cache'[s] = w.cache
  BY <1>3, <1>4 DEF Becomes
<1>14. PICK changed \in SetToSeqs(DOMAIN vals) : Notify(s, w, changed \o StoredOrder, {r})
  BY <1>3
<1>15. queue'[s] = FanOut(Links(row'), changed \o StoredOrder, {r}) /\ seen'[s] = NothingSeen
  BY <1>4, <1>13, <1>14 DEF Notify
<1>16. \A l \in Lazy : l \in Fields /\ l \notin DOMAIN vals
  BY Kinds, ValsAreTyped
<1>17. \A x \in Recs : \A l \in Lazy : cache'[s][x][l] = cache[s][x][l]
  BY <1>1, <1>8, <1>9, <1>12, <1>13, <1>16
<1>18. \A x \in Recs : \A c \in Columns : x # r \/ c \notin Stored =>
          row'[x][c] = IF x = r /\ c \in DOMAIN vals THEN vals[c] ELSE row[x][c]
  BY <1>1, <1>8, <1>9, <1>12, <1>13
<1>. QED  BY <1>3, <1>12, <1>13, <1>15, <1>17, <1>18

(* Where only Many2one paths are declared, a change of a row that nobody   *)
(* points at leads to the row itself.                                      *)
LEMMA LeadsToItself ==
    ASSUME UpOnly, NEW link, \A x \in Recs : link[x] \in Recs \cup {None}, NEW D \in SUBSET Recs,
           \A x \in Recs : link[x] \in D => x \in D,
           NEW c, NEW y \in D, NEW f, NEW x, Leads(link, <<c, y>>, <<f, x>>)
    PROVE  x \in D
<1>1. PICK e \in Edge : EdgeOf(f, e) /\ x \in FindSourceIds(link, e, {y})
  BY LeadsAlongEdge
<1>2. f \in Computes
  BY LeadsAlongEdge
<1>3. PICK p \in PathsOf(f) : \E j \in 1..Len(Edges(p)) : e = Edges(p)[j]
  BY <1>1 DEF EdgeOf
<1>4. PICK j \in 1..Len(Edges(p)) : e = Edges(p)[j]
  BY <1>3
<1>5. /\ p \in Path /\ p.hops \in Seq(Hops) /\ Len(p.hops) \in Nat /\ Len(Edges(p)) = Len(p.hops) + 1
      /\ \A i \in 1..Len(p.hops) : Edges(p)[i] = HopEdge(p, i)
      /\ Edges(p)[Len(p.hops) + 1] = LeafEdge(p)
      /\ DOMAIN p.hops = 1..Len(p.hops)
  <2>1. p \in Path /\ p.hops \in Seq(Hops)
    BY <1>2, PathsAreTyped
  <2>. QED  BY <2>1, EdgesAre, LenProperties
<1>6. \A i \in 1..Len(p.hops) : p.hops[i] = "m2o"
  BY <1>2, <1>5 DEF UpOnly
<1>7. e.start # "o2m" /\ \A i \in 1..Len(e.back) : e.back[i] = "m2o"
  <2>1. CASE j <= Len(p.hops)
    <3>1. e = HopEdge(p, j) /\ j \in 1..Len(p.hops)
      BY <1>4, <1>5, <2>1
    <3>2. e.start = p.hops[j] /\ e.back = SubSeq(p.hops, 1, j - 1)
      BY <3>1 DEF HopEdge
    <3>3. Len(e.back) = j - 1 /\ \A i \in 1..(j - 1) : e.back[i] = p.hops[i]
      <4> DEFINE b == SubSeq(p.hops, 1, j - 1)
      <4>1. 1 \in 1..(Len(p.hops) + 1) /\ j - 1 \in (1 - 1)..Len(p.hops)
        BY <1>5, <3>1
      <4>2. Len(b) = j - 1 /\ \A i \in 1..(j - 1) : b[i] = p.hops[i]
        BY <1>5, <3>1, <4>1, SubSeqProperties
      <4>. QED  BY <3>2, <4>2
    <3>4. \A i \in 1..(j - 1) : i \in 1..Len(p.hops)
      BY <1>5, <3>1
    <3>5. p.hops[j] = "m2o"
      BY <1>6, <3>1
    <3>. QED  BY <1>6, <3>2, <3>3, <3>4, <3>5
  <2>2. CASE ~(j <= Len(p.hops))
    <3>1. e = LeafEdge(p)
      <4>1. j = Len(p.hops) + 1
        BY <1>5, <2>2
      <4>. QED  BY <1>4, <1>5, <4>1
    <3>2. e.start = "self" /\ e.back = p.hops
      BY <3>1 DEF LeafEdge
    <3>. QED  BY <1>6, <3>2
  <2>. QED  BY <2>1, <2>2
<1>8. e.back \in Seq(Hops)
  BY DEF Edge
<1>9. StartOf(link, e, {y}) \subseteq D
  BY <1>7 DEF StartOf
<1>10. \A i \in 1..Len(e.back) : \A X \in SUBSET D : Back(link, e.back[i], X) \subseteq D
  BY <1>7 DEF Back
<1>11. FindSourceIds(link, e, {y}) \subseteq D
  BY <1>8, <1>9, <1>10, SourcesWithin
<1>. QED  BY <1>1, <1>11

(* The columns of vals come first in what a create notifies, and the       *)
(* stored fields after them.                                               *)
LEMMA ChangedThenStored ==
    ASSUME NEW vals \in CreateVals, NEW changed \in SetToSeqs(DOMAIN vals)
    PROVE  LET fs == changed \o StoredOrder
           IN  /\ \E n \in Nat : DOMAIN fs = 1..n
               /\ \A k \in DOMAIN fs : fs[k] \notin Computes =>
                    /\ fs[k] \in DOMAIN vals
                    /\ \A i \in DOMAIN fs : i < k => fs[i] \in DOMAIN vals \ {fs[k]} /\
                         fs[i] \notin Computes
               /\ \A c \in DOMAIN vals : \E k \in DOMAIN fs : fs[k] = c
<1> DEFINE order == StoredOrder
           fs == changed \o order
<1>1. /\ changed \in Seq(Columns)
      /\ \A k \in DOMAIN changed : changed[k] \in DOMAIN vals /\ changed[k] \in Fields \ Computes
      /\ \A i, j \in DOMAIN changed : changed[i] = changed[j] => i = j
      /\ \A c \in DOMAIN vals : \E k \in DOMAIN changed : changed[k] = c
  BY EveryColumnOnce
<1>2. order \in Seq(Columns) /\ \A k \in 1..Len(order) : order[k] \in Computes
  <2>1. order \in Seq(Stored)
    BY OrderIsOfStored
  <2> HIDE DEF order
  <2>2. \A k \in 1..Len(order) : order[k] \in Stored
    BY <2>1, LenProperties, ElementOfSeq
  <2>3. Stored \subseteq Columns /\ Stored \subseteq Computes
    BY Kinds
  <2>4. order \in Seq(Columns)
    BY <2>1, <2>3, SeqOfMore
  <2>. QED  BY <2>2, <2>3, <2>4
<1> HIDE DEF order
<1>3. /\ Len(changed) \in Nat /\ Len(order) \in Nat
      /\ DOMAIN changed = 1..Len(changed)
  BY <1>1, <1>2, LenProperties
<1>4. /\ fs \in Seq(Columns) /\ Len(fs) = Len(changed) + Len(order)
      /\ \A i \in 1..(Len(changed) + Len(order)) :
           fs[i] = IF i <= Len(changed) THEN changed[i] ELSE order[i - Len(changed)]
  BY <1>1, <1>2, ConcatProperties
<1>5. DOMAIN fs = 1..(Len(changed) + Len(order))
  BY <1>4, LenProperties
<1> HIDE DEF fs
<1>6. \A i \in DOMAIN fs : i <= Len(changed) => i \in DOMAIN changed /\ fs[i] = changed[i]
  BY <1>3, <1>4, <1>5
<1>7. ASSUME NEW i \in DOMAIN fs, ~(i <= Len(changed))
      PROVE  fs[i] \in Computes
  <2>1. i - Len(changed) \in 1..Len(order)
    BY <1>3, <1>5, <1>7
  <2>. QED  BY <1>2, <1>4, <1>5, <1>7, <2>1
<1>8. ASSUME NEW k \in DOMAIN fs, fs[k] \notin Computes
      PROVE  /\ fs[k] \in DOMAIN vals
             /\ \A i \in DOMAIN fs : i < k => fs[i] \in DOMAIN vals \ {fs[k]} /\ fs[i] \notin Computes
  <2>1. k <= Len(changed)
    BY <1>7, <1>8
  <2>2. k \in DOMAIN changed /\ fs[k] = changed[k]
    BY <1>6, <2>1
  <2>3. ASSUME NEW i \in DOMAIN fs, i < k
        PROVE  fs[i] \in DOMAIN vals \ {fs[k]} /\ fs[i] \notin Computes
    <3>1. i <= Len(changed) /\ i # k
      BY <1>3, <1>5, <2>1, <2>3
    <3>2. i \in DOMAIN changed /\ fs[i] = changed[i]
      BY <1>6, <3>1
    <3>. QED  BY <1>1, <2>2, <3>1, <3>2
  <2>. QED  BY <1>1, <2>2, <2>3
<1>9. ASSUME NEW c \in DOMAIN vals
      PROVE  \E k \in DOMAIN fs : fs[k] = c
  <2>1. PICK k \in DOMAIN changed : changed[k] = c
    BY <1>1
  <2>2. k \in DOMAIN fs /\ k <= Len(changed)
    BY <1>3, <1>5
  <2>. QED  BY <1>6, <2>1, <2>2
<1>. QED  BY <1>3, <1>5, <1>8, <1>9 DEF fs, order

(* create() starts a propagation for all of the new row.                   *)
LEMMA CreateIsDue ==
    ASSUME None \notin SUBSET Facts, NEW s, Sessions = {s}, TypeInv, MirrorInv,
           NEW tier, Schedule(tier), IsDue(tier, s),
           NEW r \in Recs, NEW vals \in CreateVals, Create(s, r, vals)
    PROVE  IsDue(tier, s)'
<1>1. /\ r \notin alive /\ alive' = alive \cup {r} /\ queue[s] = <<>>
      /\ \A x \in Recs : \A c \in Columns : x # r \/ c \notin Stored =>
           row'[x][c] = IF x = r /\ c \in DOMAIN vals THEN vals[c] ELSE row[x][c]
      /\ \A x \in Recs : \A l \in Lazy : cache'[s][x][l] = cache[s][x][l]
      /\ RowsOK(row', alive')
      /\ \A f : Wrong(row', alive', f, r) =>
           \E p \in PathsOf(f) : \E y \in Reach(Cold(row'), p, r) : Wrong(row', alive', p.leaf, y)
      /\ \E changed \in SetToSeqs(DOMAIN vals) :
           queue'[s] = FanOut(Links(row'), changed \o StoredOrder, {r})
      /\ seen'[s] = NothingSeen
  BY CreateGives
<1>2. PICK changed \in SetToSeqs(DOMAIN vals) : queue'[s] = FanOut(Links(row'), changed \o StoredOrder, {r})
  BY <1>1
<1> DEFINE fs == changed \o StoredOrder
           q == queue'[s]
           live == alive'
<1>3. /\ \E n \in Nat : DOMAIN fs = 1..n
      /\ \A k \in DOMAIN fs : fs[k] \notin Computes =>
           /\ fs[k] \in DOMAIN vals
           /\ \A i \in DOMAIN fs : i < k => fs[i] \in DOMAIN vals \ {fs[k]} /\ fs[i] \notin Computes
      /\ \A c \in DOMAIN vals : \E k \in DOMAIN fs : fs[k] = c
  BY ChangedThenStored
<1>4. q = FanOut(Links(row'), fs, {r})
  BY <1>2
<1> HIDE DEF fs, q, live
<1>5. PICK n \in Nat : DOMAIN fs = 1..n
  BY <1>3
<1>6. RowsOK(row, alive) /\ RowsOK(row', live) /\ alive \subseteq Recs /\ live = alive \cup {r}
  BY <1>1 DEF TypeInv, RowsOK, live
<1>7. Points(row) /\ Points(row') /\ live \in SUBSET Recs /\ {r} \in SUBSET Recs
  BY <1>6, OKPoints DEF RowsOK
<1>8. /\ \A f, x : ~Wrong(row, alive, f, x)
      /\ \A l \in Lazy : \A x \in Recs : cache[s][x][l] \in {Absent, Truth(row)[l][x]}
      /\ NoDead(alive, cache[s])
  <2>1. Due(tier, row, alive, queue[s], seen[s], cache[s])
    BY DEF IsDue
  <2>. QED  BY <1>1, <2>1, IdleFacts
<1>9. \A x \in Recs : x # r => row'[x][Link] = row[x][Link]
  BY <1>1, Kinds
<1>10. row[r][Link] = None
  BY <1>1, <1>6, Schema DEF RowsOK
<1>11. NoneLeaves(row, row')
  BY <1>9, <1>10 DEF NoneLeaves
<1>12. Announced(row, row', fs, {r})
  <2>1. SUFFICES ASSUME NEW x \in Recs, NEW g \in Fields \ Computes, row'[x][g] # row[x][g]
                 PROVE  x \in {r} /\ \E k \in DOMAIN fs : fs[k] = g
    BY DEF Announced
  <2>2. g \in Columns /\ g \notin Stored
    BY Kinds
  <2>. QED  BY <1>1, <1>3, <2>1, <2>2
<1>13. PICK block, decl : Notified(Links(row'), fs, {r}, q, block, decl)
  <2>1. \A x \in Recs : Links(row')[x] \in Recs \cup {None}
    BY <1>7 DEF Points, Links
  <2>. QED  BY <1>4, <1>5, <1>7, <2>1, FanOutInOrder
<1>14. LazyDue(row', q, NothingSeen, cache'[s])
  <2>1. \A l \in Lazy : \A x \in Recs : cache'[s][x][l] \in {Absent, Truth(row)[l][x]}
    BY <1>1, <1>8
  <2>. QED  BY <1>7, <1>11, <1>12, <1>13, <2>1, LazyStarts
<1>15. ASSUME NEW f, NEW x \in alive, Wrong(row', live, f, x)
       PROVE  \/ \E k : Told(Links(row'), fs, {r}, f, x, k) /\ fs[k] = Link
              \/ \E p \in PathsOf(f) : \E y \in Reach(Cold(row'), p, x) : Wrong(row', live, p.leaf, y)
  <2>1. f \in Stored /\ f \in Computes
    BY <1>15, Kinds DEF Wrong
  <2>2. \A p \in PathsOf(f) : Reach(Cold(row), p, x) \subseteq alive
    BY <1>6, <2>1, AliveWalks
  <2>3. Untouched(row, row', alive)
    <3>1. SUFFICES ASSUME NEW g \in Stored, NEW y \in alive
                   PROVE  row'[y][g] = row[y][g] /\ row[y][g] = Truth(row)[g][y]
      BY DEF Untouched
    <3>2. g \in Columns /\ y \in Recs /\ y # r
      BY <1>1, <1>6, Kinds
    <3>. QED  BY <1>1, <1>8, <3>2 DEF Wrong
  <2>4. \/ \E k : Told(Links(row'), fs, {r}, f, x, k) /\ (fs[k] = Link \/ {r} \cap alive # {})
        \/ \E p \in PathsOf(f) : \E y \in Reach(Cold(row'), p, x) : Wrong(row', live, p.leaf, y)
    BY <1>6, <1>7, <1>11, <1>12, <1>15, <2>2, <2>3, WrongWasTold
  <2>5. {r} \cap alive = {}
    BY <1>1
  <2>. QED  BY <2>4, <2>5
<1>16. \A f : Wrong(row', live, f, r) =>
         \E p \in PathsOf(f) : \E y \in Reach(Cold(row'), p, r) : Wrong(row', live, p.leaf, y)
  BY <1>1 DEF live
<1>17. \A f, x : Wrong(row', live, f, x) =>
         \/ \E k : Told(Links(row'), fs, {r}, f, x, k) /\ fs[k] = Link /\ x # r
         \/ \E p \in PathsOf(f) : \E y \in Reach(Cold(row'), p, x) : Wrong(row', live, p.leaf, y)
  <2> SUFFICES ASSUME NEW f, NEW x, Wrong(row', live, f, x)
               PROVE  \/ \E k : Told(Links(row'), fs, {r}, f, x, k) /\ fs[k] = Link /\ x # r
                      \/ \E p \in PathsOf(f) : \E y \in Reach(Cold(row'), p, x) :
                           Wrong(row', live, p.leaf, y)
    OBVIOUS
  <2>1. x \in live
    BY DEF Wrong
  <2>2. CASE x = r
    BY <1>16, <2>2
  <2>3. CASE x # r
    <3>1. x \in alive
      BY <1>6, <2>1, <2>3
    <3>. QED  BY <1>15, <2>3, <3>1
  <2>. QED  BY <2>2, <2>3
<1>18. Waiting(row', live, q, NothingSeen) /\ Ahead(tier, row', live, q) /\ Near(tier, row', live, q)
  <2>1. CASE UpOnly
    <3>1. ASSUME NEW f, NEW x, NEW k, Told(Links(row'), fs, {r}, f, x, k)
          PROVE  x = r
      <4>1. Leads(Links(row'), <<fs[k], r>>, <<f, x>>)
        BY <3>1 DEF Told
      <4> DEFINE c == fs[k]
                 link == Links(row')
      <4>2. /\ \A y \in Recs : link[y] \in Recs \cup {None}
            /\ \A y \in Recs : link[y] \in {r} => y \in {r}
        <5>1. \A y \in Recs : row[y][Link] # r
          BY <1>1, <1>6, Schema DEF RowsOK
        <5>. QED  BY <1>7, <1>9, <5>1 DEF Points, Links
      <4>3. Leads(link, <<c, r>>, <<f, x>>)
        BY <4>1
      <4> HIDE DEF c, link
      <4>4. x \in {r}
        BY <1>7, <2>1, <4>2, <4>3, LeadsToItself
      <4>. QED  BY <4>4
    <3>2. Waiting(row', live, <<>>, NothingSeen)
      <4> DEFINE none == <<>>
      <4> HIDE DEF none
      <4>1. Waiting(row', live, none, NothingSeen)
        <5>1. \A f, x : Wrong(row', live, f, x) => f \in Computes
          BY Kinds DEF Wrong
        <5>2. \A f, x : Wrong(row', live, f, x) => x \notin NothingSeen[f]
          BY <5>1 DEF NothingSeen
        <5>3. \A f, x : Wrong(row', live, f, x) =>
                 \E p \in PathsOf(f) : \E y \in Reach(Cold(row'), p, x) : Wrong(row', live, p.leaf, y)
          BY <1>17, <3>1
        <5>. QED  BY <5>2, <5>3 DEF Waiting
      <4>. QED  BY <4>1 DEF none
    <3>3. \A f, x : ~Wrong(row', live, f, x)
      BY <3>2, IdleRight
    <3>. QED  BY <3>3 DEF Waiting, Ahead, Near
  <2>2. CASE ~UpOnly
    <3>1. /\ \A f \in Stored : tier[f] <= 2
          /\ Link \in DOMAIN vals =>
               \A c \in DOMAIN vals \ {Link} : \A f \in Stored : ListensTo(f, c) => tier[f] # 2
      BY <2>2 DEF Schedule, CreatesInOrder
    <3>2. \A f, x : Wrong(row', live, f, x) =>
            \/ \E k : Told(Links(row'), fs, {r}, f, x, k)
            \/ \E p \in PathsOf(f) : \E y \in Reach(Cold(row'), p, x) : Wrong(row', live, p.leaf, y)
      BY <1>17
    <3>3. ASSUME NEW f, NEW x, Wrong(row', live, f, x), tier[f] = 1
          PROVE  \E k : Told(Links(row'), fs, {r}, f, x, k) /\ Early(tier, fs, k)
      <4>1. f \in Stored
        BY <3>3 DEF Wrong
      <4>2. ASSUME NEW p \in PathsOf(f), NEW y, Wrong(row', live, p.leaf, y)
            PROVE  FALSE
        <5>1. p.leaf \in Stored /\ tier[f] = tier[p.leaf] + 1 /\ tier[p.leaf] \in Nat /\
                tier[p.leaf] >= 1
          BY <4>1, <4>2, TiersAre DEF Wrong
        <5>. QED  BY <3>3, <5>1
      <4>3. PICK k : Told(Links(row'), fs, {r}, f, x, k) /\ fs[k] = Link
        BY <1>17, <3>3, <4>2
      <4>4. k \in DOMAIN fs /\ Link \notin Computes
        BY <4>3, Kinds DEF Told
      <4>5. /\ Link \in DOMAIN vals
            /\ \A i \in DOMAIN fs : i < k => fs[i] \in DOMAIN vals \ {Link} /\ fs[i] \notin Computes
        BY <1>3, <4>3, <4>4
      <4>6. Early(tier, fs, k)
        BY <3>1, <4>5 DEF Early
      <4>. QED  BY <4>3, <4>6
    <3>4. \A i \in 1..Len(q) : q[i].field \in Stored => tier[q[i].field] <= 2
      BY <3>1
    <3>. QED  BY <1>5, <1>7, <1>13, <3>2, <3>3, <3>4, QueueStarts
  <2>. QED  BY <2>1, <2>2
<1>19. NoDead(live, cache'[s])
  BY <1>1, <1>6, <1>8 DEF NoDead
<1>20. Due(tier, row', live, q, NothingSeen, cache'[s])
  BY <1>14, <1>18, <1>19, NoneSeen DEF Due
<1>. QED  BY <1>1, <1>20 DEF IsDue, q, live

(* unlink() takes rows that no other points at.                            *)
LEMMA UnlinkGives ==
    ASSUME NEW s, Sessions = {s}, TypeInv, MirrorInv, OnDelete = "RESTRICT", NEW ids, Unlink(s, ids)
    PROVE  /\ ids \subseteq alive /\ alive' = alive \ ids /\ queue[s] = <<>> /\ queue' = queue /\
                seen' = seen
           /\ \A x \in Recs : row[x][Link] \in ids => x \in ids
           /\ \A x \in Recs \ ids : \A c \in Columns : row'[x][c] = row[x][c]
           /\ \A x \in Recs : \A f \in Fields :
                cache'[s][x][f] = IF x \in ids THEN Absent ELSE cache[s][x][f]
<1> DEFINE u == ViewOf(s)
           p == {LinkIn(u, r) : r \in ids} \ {None}
           v == ForgetFrom(u, ids)
           rows == [r \in Recs |->
                      IF r \in ids THEN NoRow
                      ELSE IF row[r][Link] \in ids THEN [row[r] EXCEPT ![Link] = None]
                      ELSE row[r]]
           y == ForgetRows(v, ids)
           z == [y EXCEPT !.row = rows]
<1>1. Mirrors(u) /\ u.row = row /\ u.cache = cache[s] /\ ids \subseteq alive
  BY StartMirrors DEF Unlink, ViewOf
<1>2. Doomed(ids) = ids
  BY DEF Doomed
<1>3. /\ alive' = alive \ ids /\ Becomes(s, z) /\ Referrers(ids) \subseteq ids
      /\ queue[s] = <<>> /\ queue' = queue /\ seen' = seen
  BY <1>2 DEF Unlink, Idle, Quiet
<1>4. v = ForgetKids(u, p)
  BY DEF ForgetFrom
<1>5. Unlinking(u, p, {}, {}, v)
  BY <1>4 DEF Unlinking
<1> HIDE DEF u, p, v
<1>6. Unlinked(u, ids, p, {}, y)
  <2> DEFINE none == {}
  <2>1. none \in SUBSET ids /\ Unlinking(u, p, none, none, v)
    BY <1>5
  <2> HIDE DEF none
  <2>2. Unlinked(u, ids, p, none, y)
    BY <1>1, <2>1, UnlinkCells
  <2>. QED  BY <2>2 DEF none
<1> HIDE DEF y
<1>7. ViewOK(y) /\ \A x \in Recs : \A f \in Fields :
        y.cache[x][f] = IF x \in ids THEN Absent ELSE u.cache[x][f]
  BY <1>6 DEF Unlinked
<1>8. \A x \in Recs : row[x][Link] \in ids => x \in ids
  BY <1>3 DEF Referrers
<1>9. \A x \in Recs \ ids : rows[x] = row[x]
  BY <1>8
<1> HIDE DEF rows
<1>10. z \in Viewing(rows, y.cache, y.kids)
  BY <1>7 DEF ViewOK, Viewing
<1> HIDE DEF z
<1>11. z.row = rows /\ z.cache = y.cache
  BY <1>10, ViewParts
<1>12. row' = z.row /\ cache'[s] = z.cache
  BY <1>3 DEF Becomes, TypeInv
<1>. QED  BY <1>1, <1>3, <1>7, <1>8, <1>9, <1>11, <1>12

(* Nothing wrong is left, so nothing has to be in the queue.               *)
LEMMA NothingWrongIsDue ==
    ASSUME NEW tier, NEW rows, NEW live, NEW q, q = <<>>, NEW sn, sn = NothingSeen, NEW cells,
           \A f, x : ~Wrong(rows, live, f, x),
           \A l \in Lazy : \A x \in Recs : cells[x][l] \in {Absent, Truth(rows)[l][x]},
           NoDead(live, cells)
    PROVE  Due(tier, rows, live, q, sn, cells)
<1>1. Waiting(rows, live, q, sn)
  BY DEF Waiting
<1>2. Ahead(tier, rows, live, q) /\ Near(tier, rows, live, q)
  BY DEF Ahead, Near
<1>3. Followed(rows, q, sn)
  BY NoneSeen
<1>4. LazyDue(rows, q, sn, cells)
  BY DEF LazyDue
<1>. QED  BY <1>1, <1>2, <1>3, <1>4 DEF Due

(* unlink() leaves nothing that reads what is gone.                        *)
LEMMA UnlinkIsDue ==
    ASSUME NEW s, Sessions = {s}, TypeInv, MirrorInv, LinksStay, NEW tier, Schedule(tier),
           IsDue(tier, s), NEW ids, Unlink(s, ids)
    PROVE  IsDue(tier, s)'
<1>1. UpOnly /\ OnDelete = "RESTRICT"
  BY DEF Unlink, LinksStay
<1>2. /\ ids \subseteq alive /\ alive' = alive \ ids /\ queue[s] = <<>> /\ queue' = queue /\
           seen' = seen
      /\ \A x \in Recs : row[x][Link] \in ids => x \in ids
      /\ \A x \in Recs \ ids : \A c \in Columns : row'[x][c] = row[x][c]
      /\ \A x \in Recs : \A f \in Fields :
           cache'[s][x][f] = IF x \in ids THEN Absent ELSE cache[s][x][f]
  BY <1>1, UnlinkGives
<1>3. RowsOK(row, alive) /\ RowsOK(row', alive') /\ alive \subseteq Recs
  <2>1. TypeInv'
    BY UnlinkIsTyped
  <2>. QED  BY <2>1 DEF TypeInv, RowsOK
<1>4. Points(row) /\ Points(row') /\ ids \in SUBSET Recs
  BY <1>2, <1>3, OKPoints
<1>5. /\ \A f, x : ~Wrong(row, alive, f, x)
      /\ \A l \in Lazy : \A x \in Recs : cache[s][x][l] \in {Absent, Truth(row)[l][x]}
      /\ NoDead(alive, cache[s]) /\ seen[s] = NothingSeen
  <2>1. Due(tier, row, alive, queue[s], seen[s], cache[s])
    BY DEF IsDue
  <2>. QED  BY <1>2, <2>1, IdleFacts
<1> DEFINE C == Computes \X ids
           link == Links(row')
<1>6. ASSUME NEW c, NEW y \in ids, NEW d \in Computes \X Recs, Leads(link, <<c, y>>, d)
      PROVE  d \in C
  <2>1. /\ \A x \in Recs : link[x] \in Recs \cup {None}
        /\ \A x \in Recs : link[x] \in ids => x \in ids
    BY <1>2, <1>4, Kinds DEF Points, Links
  <2>2. d = <<d[1], d[2]>>
    OBVIOUS
  <2> DEFINE f == d[1]
             x == d[2]
  <2>3. Leads(link, <<c, y>>, <<f, x>>)
    BY <1>6, <2>2
  <2> HIDE DEF f, x, link
  <2>4. x \in ids
    BY <1>1, <1>4, <2>1, <2>3, LeadsToItself
  <2>. QED  BY <2>2, <2>4 DEF f, x
<1>7. Closed(link, C)
  <2>1. SUFFICES ASSUME NEW c \in C, NEW d \in Computes \X Recs, Leads(link, c, d)
                 PROVE  d \in C
    BY DEF Closed
  <2>2. c = <<c[1], c[2]>> /\ c[2] \in ids
    OBVIOUS
  <2>3. Leads(link, <<c[1], c[2]>>, d)
    BY <2>1, <2>2
  <2> HIDE DEF link, C
  <2>. QED  BY <1>6, <2>2, <2>3
<1>8. Seeded(row, row', C)
  <2>1. SUFFICES ASSUME NEW g \in Fields \ Computes, NEW y \in Recs, row[y][g] # row'[y][g],
                        NEW d \in Computes \X Recs, Leads(link, <<g, y>>, d)
                 PROVE  d \in C
    BY DEF Seeded
  <2>2. y \in ids
    BY <1>2, <2>1, Kinds
  <2>. QED  BY <1>6, <2>1, <2>2
<1>9. \A f \in Computes : \A x \in Recs \ ids : Truth(row')[f][x] = Truth(row)[f][x]
  <2>1. NoneLeaves(row, row')
    BY <1>1 DEF NoneLeaves
  <2>2. \A f \in Computes : \A x \in Recs : Truth(row)[f][x] # Truth(row')[f][x] => <<f, x>> \in C
    <3> HIDE DEF C
    <3>1. Closed(Links(row'), C)
      BY <1>7
    <3>. QED  BY <1>4, <1>8, <2>1, <3>1, TruthChangeIsDue
  <2>. QED  BY <2>2
<1>10. \A f, x : ~Wrong(row', alive', f, x)
  <2>1. SUFFICES ASSUME NEW f \in Stored, NEW x \in alive \ ids
                 PROVE  row'[x][f] = Truth(row')[f][x]
    BY <1>2 DEF Wrong
  <2>2. f \in Computes /\ f \in Columns /\ x \in Recs \ ids
    BY <1>3, Kinds
  <2>. QED  BY <1>2, <1>5, <1>9, <2>2 DEF Wrong
<1>11. \A l \in Lazy : \A x \in Recs : cache'[s][x][l] \in {Absent, Truth(row')[l][x]}
  <2>1. \A l \in Lazy : l \in Fields /\ l \in Computes
    BY Kinds
  <2>. QED  BY <1>2, <1>5, <1>9, <2>1
<1>12. NoDead(alive', cache'[s])
  <2>1. \A l \in Lazy : l \in Fields
    BY Kinds
  <2>. QED  BY <1>2, <1>5, <2>1 DEF NoDead
<1>13. queue'[s] = <<>> /\ seen'[s] = NothingSeen
  BY <1>2, <1>5
<1>14. Due(tier, row', alive', queue'[s], seen'[s], cache'[s])
  BY <1>10, <1>11, <1>12, <1>13, NothingWrongIsDue
<1>. QED  BY <1>14 DEF IsDue

(* A read between operations caches what is right.                         *)
LEMMA ReadIsDue ==
    ASSUME None \notin SUBSET Facts, NEW s, Sessions = {s}, TypeInv, MirrorInv,
           NEW tier, Schedule(tier), IsDue(tier, s), queue[s] = <<>>,
           NEW cells, \A x, l : <<x, l>> \in cells /\ l \in Lazy => x \in alive,
           Becomes(s, Load(ViewOf(s), cells)), alive' = alive, Quiet
    PROVE  IsDue(tier, s)'
<1> DEFINE v == ViewOf(s)
           w == Load(v, cells)
<1>1. /\ TypedView(v) /\ ViewOK(v) /\ v.row = row /\ v.cache = cache[s]
      /\ RowsOK(row, alive) /\ TypedRows(row) /\ alive \subseteq Recs
  BY StartIsTyped DEF TypedView, RowsOK
<1>2. Mirrors(v)
  BY StartMirrors
<1>3. Becomes(s, w)
  OBVIOUS
<1> HIDE DEF v
<1>4. /\ w.row = v.row
      /\ \A r \in Recs : \A f \in Fields :
           w.cache[r][f] = IF <<r, f>> \in cells /\ v.cache[r][f] = Absent
                           THEN IF f \in Columns THEN v.row[r][f] ELSE Value(v)[f][r]
                           ELSE v.cache[r][f]
  BY <1>1, LoadGives
<1> HIDE DEF w
<1>5. row' = row /\ cache'[s] = w.cache
  BY <1>1, <1>3, <1>4 DEF Becomes, TypeInv
<1>6. queue'[s] = <<>> /\ seen'[s] = seen[s]
  BY DEF Quiet
<1>7. /\ \A f, x : ~Wrong(row, alive, f, x)
      /\ \A l \in Lazy : \A x \in Recs : cache[s][x][l] \in {Absent, Truth(row)[l][x]}
      /\ NoDead(alive, cache[s]) /\ seen[s] = NothingSeen
  <2>1. Due(tier, row, alive, queue[s], seen[s], cache[s])
    BY DEF IsDue
  <2>. QED  BY <2>1, IdleFacts
<1>8. \A f \in Fields : \A r \in alive : Value(v)[f][r] = Truth(row)[f][r]
  <2>1. \A f, x : ~Wrong(v.row, alive, f, x)
    BY <1>1, <1>7
  <2>2. \A l \in Lazy : \A x \in alive : v.cache[x][l] \in {Absent, Truth(v.row)[l][x]}
    BY <1>1, <1>7
  <2>3. TypedRows(v.row) /\ RowsOK(v.row, alive)
    BY <1>1
  <2>4. \A f \in Fields : \A r \in alive : Value(v)[f][r] = Truth(v.row)[f][r]
    BY <1>2, <2>1, <2>2, <2>3, ReadsTrue
  <2>. QED  BY <1>1, <2>4
<1>9. ASSUME NEW l \in Lazy, NEW x \in Recs
      PROVE  /\ cache'[s][x][l] = cache[s][x][l] \/ (x \in alive /\ cache'[s][x][l] = Truth(row)[l][x])
  <2>1. l \in Fields /\ l \notin Columns
    BY Kinds
  <2>2. CASE <<x, l>> \in cells /\ v.cache[x][l] = Absent
    <3>1. x \in alive
      BY <2>2
    <3>. QED  BY <1>4, <1>5, <1>8, <2>1, <2>2, <3>1
  <2>3. CASE ~(<<x, l>> \in cells /\ v.cache[x][l] = Absent)
    BY <1>1, <1>4, <1>5, <2>1, <2>3
  <2>. QED  BY <2>2, <2>3
<1>10. \A l \in Lazy : \A x \in Recs : cache'[s][x][l] \in {Absent, Truth(row)[l][x]}
  BY <1>7, <1>9
<1>11. NoDead(alive, cache'[s])
  BY <1>7, <1>9 DEF NoDead
<1>12. Due(tier, row, alive, queue'[s], seen'[s], cache'[s])
  BY <1>6, <1>7, <1>10, <1>11, NothingWrongIsDue
<1>. QED  BY <1>5, <1>12 DEF IsDue

(* A request begins with an empty cache.                                   *)
LEMMA NewRequestIsDue ==
    ASSUME NEW s, Sessions = {s}, TypeInv, NEW tier, Schedule(tier), IsDue(tier, s), NewRequest(s)
    PROVE  IsDue(tier, s)'
<1>1. /\ queue[s] = <<>> /\ row' = row /\ alive' = alive /\ cache'[s] = NoCache
      /\ queue'[s] = <<>> /\ seen'[s] = seen[s]
  BY DEF NewRequest, Idle, Quiet, TypeInv
<1>2. (\A f, x : ~Wrong(row, alive, f, x)) /\ seen[s] = NothingSeen
  <2>1. Due(tier, row, alive, queue[s], seen[s], cache[s])
    BY DEF IsDue
  <2>. QED  BY <1>1, <2>1, IdleFacts
<1>3. \A l \in Lazy : \A x \in Recs : NoCache[x][l] = Absent
  BY Kinds DEF NoCache
<1>4. NoDead(alive, NoCache)
  BY <1>3 DEF NoDead
<1>5. Due(tier, row, alive, queue'[s], seen'[s], NoCache)
  BY <1>1, <1>2, <1>3, <1>4, NothingWrongIsDue
<1>. QED  BY <1>1, <1>5 DEF IsDue

(* A database left in order.                                               *)
LEMMA InitIsDue ==
    ASSUME NEW s, Sessions = {s}, NEW tier, Schedule(tier), Init
    PROVE  IsDue(tier, s)
<1>1. /\ alive \subseteq Recs /\ cache[s] = NoCache /\ queue[s] = <<>> /\ seen[s] = NothingSeen
  BY DEF Init
<1>2. PICK name \in [alive -> [Base -> Vals]], up \in [alive -> alive \cup {None}] :
        LET plain == [r \in Recs |->
                        IF r \notin alive THEN NoRow
                        ELSE [f \in Columns |-> IF f = Link THEN up[r]
                                                ELSE IF f \in Base THEN name[r][f] ELSE None]]
        IN  row = [r \in Recs |->
                     [f \in Columns |-> IF r \in alive /\ f \in Stored
                                        THEN Truth(plain)[f][r] ELSE plain[r][f]]]
  BY Zenon DEF Init
<1> DEFINE plain == [r \in Recs |->
                      IF r \notin alive THEN NoRow
                      ELSE [f \in Columns |-> IF f = Link THEN up[r]
                                              ELSE IF f \in Base THEN name[r][f] ELSE None]]
           cell(r, f) == IF r \in alive /\ f \in Stored THEN Truth(plain)[f][r] ELSE plain[r][f]
<1>3. row = [r \in Recs |-> [f \in Columns |-> cell(r, f)]]
  BY <1>2
<1>4. Points(plain)
  <2>1. ASSUME NEW r \in Recs
        PROVE  plain[r][Link] \in Recs \cup {None}
    <3>1. CASE r \notin alive
      BY <3>1, Schema DEF NoRow
    <3>2. CASE r \in alive
      BY <1>1, <3>2, Schema
    <3>. QED  BY <3>1, <3>2
  <2> HIDE DEF plain
  <2>. QED  BY <2>1 DEF Points
<1> HIDE DEF plain
<1>5. \A r \in Recs, f \in Columns : row[r][f] = cell(r, f)
  <2> HIDE DEF cell
  <2>. QED  BY <1>3
<1>6. \A y \in Recs : \A g \in Fields \ Computes : plain[y][g] = row[y][g]
  <2>1. \A g \in Fields \ Computes : g \in Columns /\ g \notin Stored
    BY Kinds
  <2>. QED  BY <1>5, <2>1
<1>7. \A f \in Fields : \A r \in Recs : Truth(plain)[f][r] = Truth(row)[f][r]
  BY <1>4, <1>6, TruthReads
<1>8. \A f, x : ~Wrong(row, alive, f, x)
  <2>1. SUFFICES ASSUME NEW f \in Stored, NEW x \in alive
                 PROVE  row[x][f] = Truth(row)[f][x]
    BY DEF Wrong
  <2>2. f \in Columns /\ f \in Fields /\ x \in Recs
    BY <1>1, Kinds
  <2>. QED  BY <1>5, <1>7, <2>2
<1>9. \A l \in Lazy : \A x \in Recs : NoCache[x][l] = Absent
  BY Kinds DEF NoCache
<1>10. NoDead(alive, cache[s])
  BY <1>1, <1>9 DEF NoDead
<1>11. Due(tier, row, alive, queue[s], seen[s], cache[s])
  BY <1>1, <1>8, <1>9, <1>10, NothingWrongIsDue
<1>. QED  BY <1>11 DEF IsDue
-----------------------------------------------------------------------------
(* The inductive invariant, and the properties that follow from it.        *)
DueInv(tier, s) == TypeInv /\ MirrorInv /\ IsDue(tier, s)

(* The invariant is inductive.                                             *)
LEMMA DueNext ==
    ASSUME None \notin SUBSET Facts, NEW s, Sessions = {s}, LinksStay, NEW tier, Schedule(tier),
           DueInv(tier, s), [Next]_vars
    PROVE  DueInv(tier, s)'
<1>1. TypeInv /\ MirrorInv /\ IsDue(tier, s)
  BY DEF DueInv
<1>2. TypeInv'
  BY <1>1, TypedNext
<1>3. MirrorInv'
  <2>1. Unlinks => OnDelete # "CASCADE"
    BY DEF LinksStay
  <2>. QED  BY <1>1, <2>1, MirrorNext
<1>4. IsDue(tier, s)'
  <2>1. CASE UNCHANGED vars
    BY <1>1, <2>1 DEF vars, IsDue
  <2>2. ASSUME NEW r \in Recs, ReadKids(s, r)
        PROVE  IsDue(tier, s)'
    <3> DEFINE cells == {<<r>>}
    <3>1. queue[s] = <<>> /\ Becomes(s, Load(ViewOf(s), cells)) /\ alive' = alive /\ Quiet
      BY <2>2 DEF ReadKids, Idle
    <3>2. \A x, l : <<x, l>> \notin cells
      OBVIOUS
    <3> HIDE DEF cells
    <3>. QED  BY <1>1, <3>1, <3>2, ReadIsDue
  <2>3. ASSUME NEW r \in Recs, NEW f \in Reads, ReadField(s, r, f)
        PROVE  IsDue(tier, s)'
    <3> DEFINE cells == Loads(ViewOf(s))[f][r]
    <3>1. /\ queue[s] = <<>> /\ Becomes(s, Load(ViewOf(s), cells)) /\ alive' = alive /\ Quiet
          /\ r \in alive /\ f \in Fields
      BY <2>3, SessionAssumption DEF ReadField, Idle
    <3>2. \A x, l : <<x, l>> \in cells /\ l \in Lazy => x \in alive
      <4> DEFINE v == ViewOf(s)
      <4>1. Mirrors(v) /\ RowsOK(v.row, alive)
        BY <1>1, StartMirrors, StartIsTyped
      <4> HIDE DEF v
      <4>2. \A x, l : <<x, l>> \in Loads(v)[f][r] /\ l \in Lazy => x \in alive
        BY <3>1, <4>1, LoadsAlive
      <4>. QED  BY <4>2 DEF v
    <3> HIDE DEF cells
    <3>. QED  BY <1>1, <3>1, <3>2, ReadIsDue
  <2>4. CASE NewRequest(s)
    BY <1>1, <2>4, NewRequestIsDue
  <2>5. ASSUME NEW ids \in SUBSET Recs, Unlink(s, ids)
        PROVE  IsDue(tier, s)'
    BY <1>1, <2>5, UnlinkIsDue
  <2>6. ASSUME NEW ids \in SUBSET Recs, NEW vals \in WriteVals, Write(s, ids, vals)
        PROVE  IsDue(tier, s)'
    BY <1>1, <2>6, WriteIsDue
  <2>7. ASSUME NEW r \in Recs, NEW vals \in CreateVals, Create(s, r, vals)
        PROVE  IsDue(tier, s)'
    BY <1>1, <2>7, CreateIsDue
  <2>8. CASE Propagate(s)
    BY <1>1, <2>8, PropagateTurns
  <2>. QED  BY <2>1, <2>2, <2>3, <2>4, <2>5, <2>6, <2>7, <2>8 DEF Next
<1>. QED  BY <1>2, <1>3, <1>4 DEF DueInv
-----------------------------------------------------------------------------
(* What the queue leads to, hop by hop.                                    *)
OneMore(link, cells) ==
    cells \cup {d \in Computes \X Recs : \E c \in cells : Leads(link, c, d)}
Reaches(s, g) ==
    /\ g[0] = Queued(queue[s])
    /\ \A k \in 1..Cardinality(Computes) : g[k] = OneMore(Links(row), g[k - 1])
    /\ Pending(s) = g[Cardinality(Computes)]

(* Pending is reached in as many steps as there are computed fields.       *)
LEMMA PendingGrows ==
    ASSUME NEW s
    PROVE  Cardinality(Computes) \in Nat /\ \E g : Reaches(s, g)
<1> DEFINE n == Cardinality(Computes)
           D == SUBSET (Computes \X Recs)
           start == Queued(queue[s])
           Step(X) == OneMore(Links(row), X)
           Right(g) == g = [k \in 0..n |-> IF k = 0 THEN start ELSE Step(g[k - 1])]
           next == [i \in 1..n |-> [X \in D |-> Step(X)]]
<1>1. n \in Nat
  BY GraphAssumption, LenProperties
<1>2. start \in D /\ \A X \in D : Step(X) \in D
  BY DEF Queued, OneMore
<1>3. Pending(s) = (CHOOSE g : Right(g))[n]
  BY DEF Pending, OneMore
<1> HIDE DEF n, D, start, Step
<1>4. next \in [1..n -> [D -> D]]
  BY <1>2
<1>5. PICK g : IsChain(D, n, start, next, g)
  <2> HIDE DEF next
  <2>. QED  BY <1>1, <1>2, <1>4, Chain
<1>6. Right(g)
  <2>1. /\ g \in [0..n -> D] /\ g[0] = start
        /\ \A i \in 1..n : g[i] = next[i][g[i - 1]]
    BY <1>5 DEF IsChain
  <2>2. ASSUME NEW i \in 0..n
        PROVE  g[i] = IF i = 0 THEN start ELSE Step(g[i - 1])
    <3>1. CASE i = 0
      BY <2>1, <3>1
    <3>2. CASE i # 0
      <4>1. i \in 1..n /\ i - 1 \in 0..n
        BY <1>1, <3>2
      <4>2. g[i - 1] \in D
        BY <2>1, <4>1
      <4>. QED  BY <2>1, <3>2, <4>1, <4>2
    <3>. QED  BY <3>1, <3>2
  <2>. QED  BY <2>1, <2>2
<1> HIDE DEF Right
<1> DEFINE h == CHOOSE h : Right(h)
<1>7. Right(h)
  BY <1>6
<1>8. Pending(s) = h[n]
  BY <1>3
<1> HIDE DEF h
<1>9. \A k \in 0..n : h[k] = IF k = 0 THEN start ELSE Step(h[k - 1])
  <2>1. h = [k \in 0..n |-> IF k = 0 THEN start ELSE Step(h[k - 1])]
    BY <1>7 DEF Right
  <2>. QED  BY <2>1
<1>10. h[0] = start /\ \A k \in 1..n : h[k] = Step(h[k - 1])
  <2>1. 0 \in 0..n /\ \A k \in 1..n : k \in 0..n /\ k # 0
    BY <1>1
  <2>. QED  BY <1>9, <2>1
<1>. QED  BY <1>1, <1>8, <1>10 DEF Reaches, n, start, Step

(* A wrong cell of tier k is at most k hops away from the queue.           *)
LEMMA WrongIsPending ==
    ASSUME NEW tier, Schedule(tier), NEW s, TypeInv, Waiting(row, alive, queue[s], seen[s]),
           NEW f, NEW x, Wrong(row, alive, f, x)
    PROVE  <<f, x>> \in Pending(s)
<1> DEFINE n == Cardinality(Computes)
<1>1. n \in Nat /\ \E g : Reaches(s, g)
  BY PendingGrows
<1>2. PICK g : Reaches(s, g)
  BY <1>1
<1> DEFINE T == {k \in Nat : k <= n =>
                   \A h, z : Wrong(row, alive, h, z) /\ tier[h] <= k => <<h, z>> \in g[k]}
<1>3. \A h, z : Wrong(row, alive, h, z) =>
        /\ h \in Stored /\ h \in Computes /\ z \in Recs
        /\ tier[h] \in Nat /\ tier[h] >= 1 /\ tier[h] <= n
  <2>1. RowsOK(row, alive) /\ Len(Decl) = n /\ tier \in [Stored -> 1 .. Len(Decl)]
    BY GraphAssumption, LenProperties DEF TypeInv, Schedule
  <2>. QED  BY <1>1, <2>1, Kinds DEF RowsOK, Wrong
<1>4. g[0] = Queued(queue[s]) /\ Pending(s) = g[n]
      /\ \A k \in 1..n : g[k] = OneMore(Links(row), g[k - 1])
  BY <1>2 DEF Reaches
<1>5. Points(row)
  BY DEF TypeInv, RowsOK, Points
<1> HIDE DEF n
<1> DEFINE U == {k \in Nat : k <= n => Queued(queue[s]) \subseteq g[k]}
<1>6. Nat \subseteq U
  <2>1. 0 \in U
    BY <1>4
  <2>2. ASSUME NEW k \in Nat, k \in U
        PROVE  k + 1 \in U
    <3>1. k + 1 <= n => k + 1 \in 1..n /\ (k + 1) - 1 = k /\ k <= n
      BY <1>1
    <3>. QED  BY <1>4, <2>2, <3>1 DEF OneMore
  <2> HIDE DEF U
  <2>. QED  BY <2>1, <2>2, NatSet
<1>7. 0 \in T
  BY <1>3
<1>8. ASSUME NEW k \in Nat, k \in T
      PROVE  k + 1 \in T
  <2>1. SUFFICES ASSUME k + 1 <= n, NEW h, NEW z, Wrong(row, alive, h, z), tier[h] <= k + 1
                 PROVE  <<h, z>> \in g[k + 1]
    OBVIOUS
  <2>2. k + 1 \in 1..n /\ (k + 1) - 1 = k /\ k <= n
    BY <1>1, <2>1
  <2>3. g[k + 1] = OneMore(Links(row), g[k])
    BY <1>4, <2>2
  <2>4. CASE <<h, z>> \in Queued(queue[s])
    BY <1>6, <2>1, <2>4
  <2>5. CASE <<h, z>> \notin Queued(queue[s])
    <3>1. PICK p \in PathsOf(h) : \E y \in Reach(Cold(row), p, z) : Wrong(row, alive, p.leaf, y)
      BY <2>1, <2>5 DEF Waiting
    <3>2. PICK y \in Reach(Cold(row), p, z) : Wrong(row, alive, p.leaf, y)
      BY <3>1
    <3>3. tier[h] = tier[p.leaf] + 1 /\ tier[p.leaf] \in Nat /\ tier[h] \in Nat
      BY <1>3, <2>1, <3>2, TiersAre
    <3>4. <<p.leaf, y>> \in g[k]
      <4>1. tier[p.leaf] <= k
        BY <2>1, <3>3
      <4>. QED  BY <1>8, <2>2, <3>2, <4>1
    <3>5. Leads(Links(row), <<p.leaf, y>>, <<h, z>>)
      BY <1>3, <1>5, <2>1, <3>2, PathLeads
    <3>6. <<h, z>> \in Computes \X Recs
      BY <1>3, <2>1
    <3>. QED  BY <2>3, <3>4, <3>5, <3>6 DEF OneMore
  <2>. QED  BY <2>4, <2>5
<1>9. Nat \subseteq T
  <2> HIDE DEF T
  <2>. QED  BY <1>7, <1>8, NatSet
<1>10. n \in T /\ tier[f] <= n
  BY <1>1, <1>3, <1>9
<1>. QED  BY <1>1, <1>4, <1>10

(* The three properties follow: an idle queue leaves nothing wrong.        *)
LEMMA DueImplies ==
    ASSUME NEW s, Sessions = {s}, NEW tier, Schedule(tier), DueInv(tier, s)
    PROVE  StoredUpToDate /\ LazyUpToDate /\ StaleIsPending
<1>1. /\ TypeInv /\ alive \subseteq Recs
      /\ Due(tier, row, alive, queue[s], seen[s], cache[s])
  BY DEF DueInv, IsDue, TypeInv, RowsOK
<1>2. queue[s] = <<>> =>
        /\ \A f, x : ~Wrong(row, alive, f, x)
        /\ \A l \in Lazy : \A x \in Recs : cache[s][x][l] \in {Absent, Truth(row)[l][x]}
  BY <1>1, IdleFacts
<1>3. StoredUpToDate
  BY <1>2 DEF StoredUpToDate, Idle, Wrong
<1>4. LazyUpToDate
  <2>1. SUFFICES ASSUME NEW t \in Sessions, Idle(t), NEW r \in alive, NEW f \in Lazy
                 PROVE  cache[t][r][f] \in {Absent, Truth(row)[f][r]}
    BY DEF LazyUpToDate
  <2>2. t = s /\ r \in Recs /\ queue[s] = <<>>
    BY <1>1, <2>1 DEF Idle
  <2>. QED  BY <1>2, <2>1, <2>2
<1>5. StaleIsPending
  <2>1. SUFFICES ASSUME NEW t \in Sessions, NEW r \in alive, NEW f \in Stored,
                        row[r][f] # Truth(row)[f][r]
                 PROVE  <<f, r>> \in Pending(t) /\ r \notin seen[t][f]
    BY DEF StaleIsPending
  <2>2. t = s /\ Wrong(row, alive, f, r)
    BY <2>1 DEF Wrong
  <2>3. Waiting(row, alive, queue[s], seen[s])
    BY <1>1 DEF Due
  <2>4. r \notin seen[s][f]
    BY <2>2, <2>3 DEF Waiting
  <2>5. <<f, r>> \in Pending(s)
    BY <1>1, <2>2, <2>3, WrongIsPending
  <2>. QED  BY <2>2, <2>4, <2>5
<1>. QED  BY <1>3, <1>4, <1>5

LEMMA DueAlways ==
    ASSUME NEW CONSTANT s, Sessions = {s}, None \notin SUBSET Facts, LinksStay,
           NEW CONSTANT tier, Schedule(tier)
    PROVE  Spec => [](StoredUpToDate /\ LazyUpToDate /\ StaleIsPending)
<1>1. Init => DueInv(tier, s)
  BY TypedInit, MirrorInit, InitIsDue DEF DueInv
<1>2. DueInv(tier, s) /\ [Next]_vars => DueInv(tier, s)'
  BY DueNext
<1>3. DueInv(tier, s) => StoredUpToDate /\ LazyUpToDate /\ StaleIsPending
  BY DueImplies
<1>. QED  BY <1>1, <1>2, <1>3, PTL DEF Spec

(* A tier for every stored field, where there is one.                      *)
TierOf == CHOOSE tier : Schedule(tier)

LEMMA TierExists == Orderly => LinksStay /\ Schedule(TierOf)
BY DEF Orderly, Schedule, TierOf

(* StoredUpToDate: whenever notify_changed's loop has come to its end,     *)
(* every stored computed column of every row holds what its method would   *)
(* return from the database as it is, so that another session may query it.*)
(* The fields, write()s and create()s are Orderly and there is one session *)
(* at a time; None is none of the values a method returns.                 *)
THEOREM StoredStaysUpToDate ==
    ASSUME NEW CONSTANT s, Sessions = {s}, None \notin SUBSET Facts, Orderly
    PROVE  Spec => []StoredUpToDate
<1>1. LinksStay /\ Schedule(TierOf)
  BY TierExists
<1>2. Spec => [](StoredUpToDate /\ LazyUpToDate /\ StaleIsPending)
  BY <1>1, DueAlways
<1>. QED  BY <1>2, PTL

(* LazyUpToDate: a non-stored computed field that a request finds in its   *)
(* cache between operations is right, since notify_changed has taken out   *)
(* whatever the changes of this request, direct or not, made wrong.        *)
THEOREM LazyStaysUpToDate ==
    ASSUME NEW CONSTANT s, Sessions = {s}, None \notin SUBSET Facts, Orderly
    PROVE  Spec => []LazyUpToDate
<1>1. LinksStay /\ Schedule(TierOf)
  BY TierExists
<1>2. Spec => [](StoredUpToDate /\ LazyUpToDate /\ StaleIsPending)
  BY <1>1, DueAlways
<1>. QED  BY <1>2, PTL

(* StaleIsPending: at every turn of notify_changed's loop, a stored column *)
(* that is out of date is among all that its queue leads to, and `seen`    *)
(* does not hold it, so the loop will not pass over it.                    *)
THEOREM StaleStaysPending ==
    ASSUME NEW CONSTANT s, Sessions = {s}, None \notin SUBSET Facts, Orderly
    PROVE  Spec => []StaleIsPending
<1>1. LinksStay /\ Schedule(TierOf)
  BY TierExists
<1>2. Spec => [](StoredUpToDate /\ LazyUpToDate /\ StaleIsPending)
  BY <1>1, DueAlways
<1>. QED  BY <1>2, PTL
=============================================================================
