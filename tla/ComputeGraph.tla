---------------------------- MODULE ComputeGraph ----------------------------
(***************************************************************************)
(* The static side of computed fields: dependency paths (pyvelm/paths.py)  *)
(* and what Registry._build_compute_graph (pyvelm/registry.py) makes of    *)
(* them. One model stands for all: its records point at one another        *)
(* through one Many2one (Link), whose One2many inverse is `kids`.          *)
(***************************************************************************)
EXTENDS Naturals, SequencesExt

CONSTANTS Recs,      \* row slots
          None,      \* SQL NULL
          Base,      \* plain columns
          Link,      \* the Many2one column
          Stored,    \* computed fields with a column
          Lazy,      \* computed fields kept in the cache only
          Decl,      \* the computed fields in the order they are declared
          Depends    \* field -> the sequence of its @depends paths

Computes == Stored \cup Lazy
Columns == Base \cup {Link} \cup Stored
Fields == Columns \cup Lazy

(* A path walks relational hops, then reads the leaf.                      *)
Path == [hops : Seq({"m2o", "o2m"}), leaf : Fields]

PathsOf(f) == ToSet(Depends[f])

(* "Computed-field cycle" raises: the graph that survives has a rank.      *)
Acyclic ==
    \E rank \in [Computes -> 1 .. Cardinality(Computes)] :
        \A f \in Computes : \A p \in PathsOf(f) :
            p.leaf \in Computes => rank[p.leaf] < rank[f]

ASSUME GraphAssumption ==
    /\ None \notin Recs
    /\ Link \notin Base \cup Computes /\ Base \cap Computes = {} /\ Stored \cap Lazy = {}
    /\ IsFiniteSet(Base)
    /\ Decl \in Seq(Computes)
    /\ ToSet(Decl) = Computes /\ Len(Decl) = Cardinality(Computes)
    /\ \A f \in Computes : Depends[f] \in Seq(Path)
    /\ Acyclic
-----------------------------------------------------------------------------
(* Mutant: a path listens at its leaf only.                                *)
EdgesOfLeaf(p) == <<[on |-> p.leaf, start |-> "self", back |-> p.hops]>>

(* Path.edges: one listening point per hop and one for the leaf. A o2m hop *)
(* listens on the child's Link and starts from the parent it now has;      *)
(* `back` are the hops still to be walked in reverse.                      *)
Edges(p) ==
    Append([i \in DOMAIN p.hops |->
              [on |-> Link, start |-> p.hops[i], back |-> SubSeq(p.hops, 1, i - 1)]],
           [on |-> p.leaf, start |-> "self", back |-> p.hops])

(* Mutant: only stored fields are registered.                              *)
EdgeIndexOfStored ==
    FlattenSeq([d \in DOMAIN Decl |->
      IF Decl[d] \in Lazy THEN <<>>
      ELSE FlattenSeq([i \in DOMAIN Depends[Decl[d]] |->
             LET es == Edges(Depends[Decl[d]][i])
             IN  [j \in DOMAIN es |-> [field |-> Decl[d], edge |-> es[j]]]])])

(* Registry._edge_index, all keys together, in the order it is filled.     *)
EdgeIndex ==
    FlattenSeq([d \in DOMAIN Decl |->
      FlattenSeq([i \in DOMAIN Depends[Decl[d]] |->
        LET es == Edges(Depends[Decl[d]][i])
        IN  [j \in DOMAIN es |-> [field |-> Decl[d], edge |-> es[j]]]])])

(* Mutant: a child without a parent counts as a parent.                    *)
BackKeepsNull(link, hop, ids) ==
    IF hop = "m2o" THEN {r \in Recs : link[r] \in ids} ELSE {link[r] : r \in ids}

(* Hop.reverse_walk, a query on the database: from the far side of the hop *)
(* to the near side. `link` maps every row to its Link.                    *)
Back(link, hop, ids) ==
    IF hop = "m2o" THEN {r \in Recs : link[r] \in ids}
                   ELSE {link[r] : r \in ids} \ {None}

(* Mutant: the hops before the edge are not walked back.                   *)
FindSourceIdsHere(link, e, ids) ==
    IF e.start = "o2m" THEN Back(link, "o2m", ids) ELSE ids

(* HopEdge.find_source_ids.                                                *)
FindSourceIds(link, e, ids) ==
    LET n == Len(e.back)
        from[i \in 0 .. n] ==
            IF i = n THEN IF e.start = "o2m" THEN Back(link, "o2m", ids) ELSE ids
                     ELSE Back(link, e.back[i + 1], from[i + 1])
    IN  from[0]

(* notify_changed's fan_out: the queue entries a change of `fs` on `ids`   *)
(* adds, for the edges that find somebody.                                 *)
FanOut(link, fs, ids) ==
    FlattenSeq([k \in DOMAIN fs |->
      FlattenSeq([i \in DOMAIN EdgeIndex |->
        LET e == EdgeIndex[i].edge
            found == IF e.on = fs[k] THEN FindSourceIds(link, e, ids) ELSE {}
        IN  IF found = {} THEN <<>>
            ELSE <<[field |-> EdgeIndex[i].field, ids |-> found]>>])])
-----------------------------------------------------------------------------
(* The fields the paths of f end at.                                       *)
LeavesOf(f) == [i \in DOMAIN Depends[f] |-> Depends[f][i].leaf]

(* _stored_compute_order: depth first over the stored fields each one      *)
(* reads on the same model, whatever relation it reads them through.       *)
StoredOrder ==
    LET visit[f \in Fields] ==
          [order \in Seq(Stored) |->
             IF f \notin Stored \/ Contains(order, f) THEN order
             ELSE Append(FoldLeft(LAMBDA o, g : visit[g][o], order, LeavesOf(f)), f)]
    IN  FoldLeft(LAMBDA o, f : visit[f][o], <<>>, Decl)
=============================================================================
