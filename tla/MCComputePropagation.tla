------------------------ MODULE MCComputePropagation ------------------------
(***************************************************************************)
(* Instances of ComputePropagation for TLC: schemas of computed fields,    *)
(* named after what their paths walk, and the writes that go with them.    *)
(***************************************************************************)
EXTENDS ComputePropagation

CONSTANTS r1, r2, r3, v1, v2, s1

TwoRecs == {r1, r2}
ThreeRecs == {r1, r2, r3}
MCVals == {v1, v2}
OneSession == {s1}

Own(f) == [hops |-> <<>>, leaf |-> f]
Up(f) == [hops |-> <<"m2o">>, leaf |-> f]
UpUp(f) == [hops |-> <<"m2o", "m2o">>, leaf |-> f]
Down(f) == [hops |-> <<"o2m">>, leaf |-> f]

Name == {"name"}
Amount == {"amount"}
Is(f, v) == f :> v
In(f, v, p) == f :> v @@ "parent" :> p

(* Many2one paths: a full name, a two-hop label, and what hangs on them.   *)
UpDecl == <<"full", "root", "crumb", "title">>
UpStored == {"full", "root", "crumb"}
UpLazy == {"title"}
UpDepends ==
    [full |-> <<Own("name"), Up("name")>>,
     root |-> <<UpUp("name"), Own("parent")>>,
     crumb |-> <<Up("full")>>,
     title |-> <<Own("full"), Up("root")>>]
UpReads == {"parent", "title"}
UpWrites ==
    {Is("name", v1), Is("name", v2), Is("parent", None)}
      \cup {Is("parent", p) : p \in Recs}
UpCreates == {Is("name", v) : v \in MCVals} \cup {In("name", v, p) : v \in MCVals, p \in Recs}

(* One2many paths: a total over the children, and shares of it.            *)
DownDecl == <<"total", "share", "note">>
DownStored == {"total", "share"}
DownLazy == {"note"}
DownDepends ==
    [total |-> <<Down("amount")>>,
     share |-> <<Up("total")>>,
     note |-> <<Own("amount"), Down("share")>>]
DownReads == {"note"}
DownWrites == {Is("amount", v1), Is("amount", v2)}
DownCreates ==
    {Is("amount", v) : v \in MCVals} \cup {In("amount", v, p) : v \in MCVals, p \in Recs}
MovingWrites == DownWrites \cup {Is("parent", p) : p \in Recs}

(* Two columns of the same row, one computed from the other, the reader    *)
(* declared before the one it reads.                                       *)
LateDecl == <<"gross", "tax">>
LateStored == {"gross", "tax"}
LateDepends == [gross |-> <<Own("amount"), Own("tax")>>, tax |-> <<Own("amount")>>]
NoFields == {}

(* The instances in which a propagation serves are those that violate      *)
(* nothing.                                                                *)
ASSUME OrderlyInstances == Orderly <=> Decl /= LateDecl /\ WriteVals /= MovingWrites

MCSymmetry == Permutations(Recs) \cup Permutations(MCVals)
=============================================================================
