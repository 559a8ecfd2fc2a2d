------------------------- MODULE ComputePropagation -------------------------
(***************************************************************************)
(* Records, the value cache of each request, and the propagation of        *)
(* changes to computed fields: BaseModel.create / write / unlink and the   *)
(* field descriptors (pyvelm/model.py, pyvelm/fields.py), compute_field    *)
(* and notify_changed (pyvelm/env.py).                                     *)
(*                                                                         *)
(* A compute method is free: its result is the set of facts, cells of      *)
(* plain columns with their value, that the declared paths lead to. A      *)
(* stale result is one that holds another set of facts than the database   *)
(* does now. Statements autocommit, as they do outside transaction().      *)
(***************************************************************************)
EXTENDS ComputeGraph

CONSTANTS Sessions,    \* requests being served, each with its own cache
          Vals,        \* values of the plain columns
          Absent,      \* "not in the cache"
          WriteVals,   \* the `vals` passed to write(), functions on columns
          CreateVals,  \* the `vals` passed to create(), defaults filled in
          Reads,       \* the fields user code reads by itself
          Unlinks,     \* whether unlink() is called
          OnDelete,    \* ondelete of Link
          MaxOps       \* bound: creates, writes and unlinks

ASSUME SessionAssumption ==
    /\ Absent \notin Vals \cup Recs \cup {None}
    /\ \A vals \in WriteVals \cup CreateVals :
         /\ DOMAIN vals \subseteq Base \cup {Link}
         /\ \A f \in DOMAIN vals :
              vals[f] \in IF f = Link THEN Recs \cup {None} ELSE Vals
    /\ Reads \subseteq Fields
    /\ Unlinks \in BOOLEAN /\ MaxOps \in Nat
    /\ OnDelete \in {"SET NULL", "CASCADE", "RESTRICT"}

VARIABLES
    alive,   \* the rows that exist
    row,     \* the columns of every row, None in rows that do not exist
    cache,   \* env.cache of every session: field values
    kids,    \* env.cache of every session: the One2many tuples
    queue,   \* notify_changed's queue, <<>> between operations
    seen,    \* notify_changed's seen
    ops      \* operations so far

vars == <<alive, row, cache, kids, queue, seen, ops>>

Fact(r, f, v) == <<r, f, v>>
Facts == {Fact(r, f, v) : r \in Recs, f \in Fields, v \in Vals \cup Recs \cup {None}}
IsValue(f, x) ==
    \/ x = None
    \/ f = Link /\ x \in Recs
    \/ f \in Base /\ x \in Vals
    \/ f \in Computes /\ x \subseteq Facts

TypeOK ==
    /\ alive \subseteq Recs
    /\ \A r \in Recs, f \in Columns :
         IsValue(f, row[r][f]) /\ (r \notin alive => row[r][f] = None)
    /\ \A s \in Sessions, r \in Recs :
         /\ \A f \in Fields : cache[s][r][f] = Absent \/ IsValue(f, cache[s][r][f])
         /\ kids[s][r] = Absent \/ kids[s][r] \subseteq Recs
    /\ \A s \in Sessions :
         /\ seen[s] \in [Computes -> SUBSET Recs]
         /\ queue[s] \in Seq([field : Computes, ids : SUBSET Recs])
    /\ ops \in 0 .. MaxOps

NoRow == [f \in Columns |-> None]
NoCache == [r \in Recs |-> [f \in Fields |-> Absent]]
NoKids == [r \in Recs |-> Absent]
NothingSeen == [f \in Computes |-> {}]

Idle(s) == queue[s] = <<>>
Links(rows) == [r \in Recs |-> rows[r][Link]]
ChildrenOf(rows, r) == {c \in Recs : rows[c][Link] = r}
-----------------------------------------------------------------------------
(* Reading through a cache. A view is the database and one session's cache *)
(* of it; reading fills the cache, and only where it is empty.             *)

ViewOf(s) == [row |-> row, cache |-> cache[s], kids |-> kids[s]]

LinkIn(v, r) == IF v.cache[r][Link] = Absent THEN v.row[r][Link] ELSE v.cache[r][Link]
KidsIn(v, r) == IF v.kids[r] = Absent THEN ChildrenOf(v.row, r) ELSE v.kids[r]

(* The records reached after each hop of a path from r.                    *)
Walk(v, p, r) ==
    LET at[i \in 0 .. Len(p.hops)] ==
          IF i = 0 THEN {r}
          ELSE IF p.hops[i] = "m2o" THEN {LinkIn(v, x) : x \in at[i - 1]} \ {None}
          ELSE UNION {KidsIn(v, x) : x \in at[i - 1]}
    IN  at
Reach(v, p, r) == Walk(v, p, r)[Len(p.hops)]

(* The facts a reader gets from a field: a plain cell is itself a fact.    *)
AsFacts(r, f, x) == IF f \in Computes /\ x /= None THEN x ELSE {Fact(r, f, x)}

Gather(v, f, r, val) ==
    UNION {UNION {val[p.leaf][x] : x \in Reach(v, p, r)} : p \in PathsOf(f)}

Value(v) ==
    LET val[f \in Fields] ==
          [r \in Recs |->
             IF v.cache[r][f] /= Absent THEN AsFacts(r, f, v.cache[r][f])
             ELSE IF f \in Columns THEN AsFacts(r, f, v.row[r][f])
             ELSE Gather(v, f, r, val)]
    IN  val

(* What the compute method of f returns for r.                             *)
Result(v, f, r) == Gather(v, f, r, Value(v))

(* The cells that reading field f of r loads: <<r, f>> for a field, and    *)
(* <<r>> for the One2many tuple of r.                                      *)
HopCells(v, p, r) ==
    UNION {{IF p.hops[i] = "m2o" THEN <<x, Link>> ELSE <<x>> : x \in Walk(v, p, r)[i - 1]}
             : i \in DOMAIN p.hops}
Loads(v) ==
    LET load[f \in Fields] ==
          [r \in Recs |->
             IF v.cache[r][f] /= Absent THEN {}
             ELSE {<<r, f>>} \cup
                  IF f \in Columns THEN {}
                  ELSE UNION {HopCells(v, p, r) \cup UNION {load[p.leaf][x] : x \in Reach(v, p, r)}
                                : p \in PathsOf(f)}]
    IN  load
MethodLoads(v, f, r) ==
    UNION {HopCells(v, p, r) \cup UNION {Loads(v)[p.leaf][x] : x \in Reach(v, p, r)}
             : p \in PathsOf(f)}

Load(v, cells) ==
    LET val == Value(v)
    IN  [v EXCEPT
           !.cache = [r \in Recs |-> [f \in Fields |->
              IF <<r, f>> \in cells /\ v.cache[r][f] = Absent
              THEN IF f \in Columns THEN v.row[r][f] ELSE val[f][r]
              ELSE v.cache[r][f]]],
           !.kids = [r \in Recs |-> IF <<r>> \in cells THEN KidsIn(v, r) ELSE v.kids[r]]]

(* What a field would be if every compute method ran on `rows` as they are.*)
Truth(rows) ==
    LET cold == [row |-> rows, cache |-> NoCache, kids |-> NoKids]
        val[f \in Fields] ==
          [r \in Recs |-> IF f \in Computes THEN Gather(cold, f, r, val)
                                            ELSE AsFacts(r, f, rows[r][f])]
    IN  val

(* A database that earlier requests left in order, no request under way.   *)
Init ==
    /\ alive \in SUBSET Recs
    /\ \E name \in [alive -> [Base -> Vals]], up \in [alive -> alive \cup {None}] :
         LET plain == [r \in Recs |->
                         IF r \notin alive THEN NoRow
                         ELSE [f \in Columns |-> IF f = Link THEN up[r]
                                                 ELSE IF f \in Base THEN name[r][f] ELSE None]]
         IN  row = [r \in Recs |->
                      [f \in Columns |-> IF r \in alive /\ f \in Stored
                                         THEN Truth(plain)[f][r] ELSE plain[r][f]]]
    /\ cache = [s \in Sessions |-> NoCache]
    /\ kids = [s \in Sessions |-> NoKids]
    /\ queue = [s \in Sessions |-> <<>>]
    /\ seen = [s \in Sessions |-> NothingSeen]
    /\ ops = 0

(* compute_field on a stored field: the method sees all of ids, then the   *)
(* values it left in the cache are flushed to the columns.                 *)
ComputeField(v, f, ids) ==
    LET w == Load(v, UNION {MethodLoads(v, f, r) : r \in ids})
        new == [r \in ids |-> Result(v, f, r)]
    IN  [w EXCEPT
           !.cache = [r \in Recs |-> IF r \in ids THEN [w.cache[r] EXCEPT ![f] = new[r]]
                                                   ELSE w.cache[r]],
           !.row = [r \in Recs |-> IF r \in ids THEN [w.row[r] EXCEPT ![f] = new[r]]
                                                 ELSE w.row[r]]]

(* Mutant: a field to be recomputed keeps its cached value.                *)
ForgetNothing(v, ids, fs) == v

(* cache.invalidate: of one field, of the One2many tuples, of whole rows.  *)
Forget(v, ids, fs) ==
    [v EXCEPT !.cache = [r \in Recs |-> [f \in Fields |->
        IF r \in ids /\ f \in fs THEN Absent ELSE v.cache[r][f]]]]
ForgetKids(v, ids) ==
    [v EXCEPT !.kids = [r \in Recs |-> IF r \in ids THEN Absent ELSE v.kids[r]]]
ForgetRows(v, ids) == ForgetKids(Forget(v, ids, Fields), ids)

Assign(v, ids, vals) ==
    LET put(x) == [f \in DOMAIN x |-> IF f \in DOMAIN vals THEN vals[f] ELSE x[f]]
    IN  [v EXCEPT !.row = [r \in Recs |-> IF r \in ids THEN put(v.row[r]) ELSE v.row[r]],
                  !.cache = [r \in Recs |-> IF r \in ids THEN put(v.cache[r]) ELSE v.cache[r]]]

Becomes(s, v) ==
    /\ row' = v.row
    /\ cache' = [cache EXCEPT ![s] = v.cache]
    /\ kids' = [kids EXCEPT ![s] = v.kids]

Notify(s, v, fs, ids) ==
    /\ queue' = [queue EXCEPT ![s] = FanOut(Links(v.row), fs, ids)]
    /\ seen' = [seen EXCEPT ![s] = NothingSeen]
-----------------------------------------------------------------------------
Quiet == UNCHANGED <<queue, seen>>
Counted == ops < MaxOps /\ ops' = ops + 1

(* `rec.field`, or `rec.kids`, in user code between two operations.        *)
ReadField(s, r, f) ==
    /\ Idle(s) /\ r \in alive /\ cache[s][r][f] = Absent
    /\ LET v == ViewOf(s) IN Becomes(s, Load(v, Loads(v)[f][r]))
    /\ UNCHANGED <<alive, ops>> /\ Quiet

ReadKids(s, r) ==
    /\ Idle(s) /\ r \in alive /\ kids[s][r] = Absent
    /\ Becomes(s, Load(ViewOf(s), {<<r>>}))
    /\ UNCHANGED <<alive, ops>> /\ Quiet

(* The request ends and the next one starts: a new Environment.            *)
NewRequest(s) ==
    /\ Idle(s)
    /\ cache' = [cache EXCEPT ![s] = NoCache]
    /\ kids' = [kids EXCEPT ![s] = NoKids]
    /\ UNCHANGED <<alive, row, ops>> /\ Quiet

Parent(vals) == IF Link \in DOMAIN vals THEN {vals[Link]} \ {None} ELSE {}

Write(s, ids, vals) ==
    /\ Idle(s) /\ Counted
    /\ ids /= {} /\ ids \subseteq alive /\ Parent(vals) \subseteq alive
    /\ LET v == ViewOf(s)
           old == IF Link \in DOMAIN vals THEN {LinkIn(v, r) : r \in ids} \ {None} ELSE {}
           w == ForgetKids(Assign(v, ids, vals), old \cup Parent(vals))
       IN  /\ Becomes(s, w)
           /\ \E changed \in SetToSeqs(DOMAIN vals) : Notify(s, w, changed, ids)
    /\ UNCHANGED alive

(* The stored fields are computed in StoredOrder, then everything is       *)
(* notified once more.                                                     *)
Create(s, r, vals) ==
    /\ Idle(s) /\ Counted
    /\ r \notin alive /\ Parent(vals) \subseteq alive
    /\ alive' = alive \cup {r}
    /\ LET v == ForgetKids(Assign(ViewOf(s), {r}, vals), Parent(vals))
           w == FoldLeft(LAMBDA acc, f : ComputeField(acc, f, {r}), v, StoredOrder)
       IN  /\ Becomes(s, w)
           /\ \E changed \in SetToSeqs(DOMAIN vals) :
                Notify(s, w, changed \o StoredOrder, {r})

(* Mutant: the parent keeps the tuple with the removed child.              *)
ForgetFromNothing(v, ids) == v

(* _invalidate_before_unlink.                                              *)
ForgetFrom(v, ids) == ForgetKids(v, {LinkIn(v, r) : r \in ids} \ {None})

Referrers(ids) == {r \in Recs : row[r][Link] \in ids}

(* The rows a DELETE removes.                                              *)
Doomed(ids) ==
    LET more[n \in 0 .. Cardinality(Recs)] ==
          IF n = 0 THEN ids ELSE more[n - 1] \cup Referrers(more[n - 1])
    IN  IF OnDelete = "CASCADE" THEN more[Cardinality(Recs)] ELSE ids

(* The caches of the rows pointing at ids follow ondelete, one level deep; *)
(* there is no notify_changed.                                             *)
Unlink(s, ids) ==
    /\ Idle(s) /\ Counted /\ Unlinks
    /\ ids /= {} /\ ids \subseteq alive
    /\ OnDelete = "RESTRICT" => Referrers(ids) \subseteq ids
    /\ LET gone == Doomed(ids)
           v == ForgetFrom(ViewOf(s), ids)
           w == IF OnDelete = "RESTRICT" THEN v ELSE ForgetFrom(v, Referrers(ids))
           x == CASE OnDelete = "SET NULL" -> Assign(w, Referrers(ids), [f \in {Link} |-> None])
                  [] OnDelete = "CASCADE" -> ForgetRows(w, Referrers(ids))
                  [] OTHER -> w
           rows == [r \in Recs |->
                      IF r \in gone THEN NoRow
                      ELSE IF row[r][Link] \in gone THEN [row[r] EXCEPT ![Link] = None]
                      ELSE row[r]]
       IN  /\ alive' = alive \ gone
           /\ Becomes(s, [ForgetRows(x, ids) EXCEPT !.row = rows])
    /\ Quiet

(* Mutant: one recomputation does not lead to the next.                    *)
PropagateOnce(s) ==
    /\ ~Idle(s)
    /\ LET e == Head(queue[s])
           v == Forget(ViewOf(s), e.ids, {e.field})
       IN  /\ Becomes(s, IF e.field \in Stored THEN ComputeField(v, e.field, e.ids) ELSE v)
           /\ queue' = [queue EXCEPT ![s] = Tail(@)]
    /\ UNCHANGED <<alive, ops, seen>>

(* Mutant: a record is visited once, whatever the field.                   *)
PropagateSeenById(s) ==
    /\ ~Idle(s)
    /\ LET e == Head(queue[s])
           fresh == e.ids \ UNION {seen[s][g] : g \in Computes}
           v == Forget(ViewOf(s), fresh, {e.field})
           w == IF e.field \in Stored THEN ComputeField(v, e.field, fresh) ELSE v
           rest == Tail(queue[s]) \o FanOut(Links(row), <<e.field>>, fresh)
           visited == [seen[s] EXCEPT ![e.field] = @ \cup fresh]
       IN  /\ Becomes(s, w)
           /\ queue' = [queue EXCEPT ![s] = rest]
           /\ seen' = [seen EXCEPT ![s] = IF rest = <<>> THEN NothingSeen ELSE visited]
    /\ UNCHANGED <<alive, ops>>

(* One turn of notify_changed's loop.                                      *)
Propagate(s) ==
    /\ ~Idle(s)
    /\ LET e == Head(queue[s])
           fresh == e.ids \ seen[s][e.field]
           v == Forget(ViewOf(s), fresh, {e.field})
           w == IF e.field \in Stored THEN ComputeField(v, e.field, fresh) ELSE v
           rest == Tail(queue[s]) \o FanOut(Links(row), <<e.field>>, fresh)
           visited == [seen[s] EXCEPT ![e.field] = @ \cup fresh]
       IN  /\ Becomes(s, w)
           /\ queue' = [queue EXCEPT ![s] = rest]
           /\ seen' = [seen EXCEPT ![s] = IF rest = <<>> THEN NothingSeen ELSE visited]
    /\ UNCHANGED <<alive, ops>>

Next == \E s \in Sessions :
    \/ \E r \in Recs : ReadKids(s, r) \/ \E f \in Reads : ReadField(s, r, f)
    \/ NewRequest(s)
    \/ \E ids \in SUBSET Recs :
         Unlink(s, ids) \/ \E vals \in WriteVals : Write(s, ids, vals)
    \/ \E r \in Recs, vals \in CreateVals : Create(s, r, vals)
    \/ Propagate(s)

Spec == Init /\ [][Next]_vars
-----------------------------------------------------------------------------
(* Properties.                                                             *)

(* Between operations every stored computed column holds what its method   *)
(* would return now ("a stored field's SQL column is queried by other      *)
(* sessions, so it must be up-to-date", docs/architecture.md:361).         *)
StoredUpToDate ==
    (\A s \in Sessions : Idle(s)) =>
        \A r \in alive, f \in Stored : row[r][f] = Truth(row)[f][r]

(* Whatever a request has read, written and recomputed so far, the cells   *)
(* its cache holds for columns and One2many tuples are what the database   *)
(* holds, also half way through a propagation.                             *)
CacheMirrorsRows ==
    \A s \in Sessions, r \in alive :
        /\ \A f \in Columns : cache[s][r][f] \in {Absent, row[r][f]}
        /\ kids[s][r] \in {Absent, ChildrenOf(row, r)}

(* A non-stored computed field left in the cache is still right when the   *)
(* propagation is over: "the next read in this session will recompute it   *)
(* on miss" (docs/architecture.md:363), so what must go has to be missing. *)
LazyUpToDate ==
    \A s \in Sessions : Idle(s) =>
        \A r \in alive, f \in Lazy : cache[s][r][f] \in {Absent, Truth(row)[f][r]}

(* A change of field c[1] of row c[2] leads fan_out to recompute d[1] of   *)
(* row d[2]; the cells the queue holds.                                    *)
Leads(link, c, d) ==
    \E i \in DOMAIN EdgeIndex :
        /\ EdgeIndex[i].edge.on = c[1] /\ EdgeIndex[i].field = d[1]
        /\ d[2] \in FindSourceIds(link, EdgeIndex[i].edge, {c[2]})
Queued(q) ==
    {d \in Computes \X Recs : \E i \in DOMAIN q : q[i].field = d[1] /\ d[2] \in q[i].ids}

(* The cells that the queue will still get to, however indirectly.         *)
Pending(s) ==
    LET step(cells) ==
          cells \cup {d \in Computes \X Recs : \E c \in cells : Leads(Links(row), c, d)}
        reach[n \in 0 .. Cardinality(Computes)] ==
          IF n = 0 THEN Queued(queue[s]) ELSE step(reach[n - 1])
    IN  reach[Cardinality(Computes)]

(* Half way through a propagation, a stored column that is out of date is  *)
(* one the queue still leads to, and it has not been visited yet, so the   *)
(* visited set will not make the loop skip it.                             *)
StaleIsPending ==
    \A s \in Sessions, r \in alive, f \in Stored :
        row[r][f] /= Truth(row)[f][r] => <<f, r>> \in Pending(s) /\ r \notin seen[s][f]
-----------------------------------------------------------------------------
(* Which classes and calls the propagation serves. The queue is a plain    *)
(* list and a record is visited once per field, so a stored field must not *)
(* come up before the stored fields it reads: its tier is how many of them *)
(* it sits on.                                                             *)
UpOnly == \A f \in Computes : \A p \in PathsOf(f) : \A i \in DOMAIN p.hops : p.hops[i] = "m2o"

(* Writing column c recomputes f at once.                                  *)
ListensTo(f, c) == \E p \in PathsOf(f) : p.leaf = c \/ (c = Link /\ p.hops /= <<>>)

(* A stored field reads stored fields of the tier below, and no lazy ones; *)
(* one that reads a plain column or walks a relation is of tier 1 or 2.    *)
Tiered(tier) ==
    \A f \in Stored : \A p \in PathsOf(f) :
        /\ p.leaf \in Columns
        /\ p.leaf \in Stored => tier[f] = tier[p.leaf] + 1
        /\ p.leaf \notin Stored \/ p.hops /= <<>> => tier[f] <= 2

(* The fields of tier 1 are declared before those of tier 2.               *)
Declared(tier) ==
    \A i, j \in DOMAIN Decl :
        i < j /\ Decl[i] \in Stored /\ Decl[j] \in Stored /\ tier[Decl[i]] = 2 => tier[Decl[j]] /= 1

(* A write() does not notify for tier 2 first; a create() with a parent    *)
(* does so for the rows that reach the new one by One2many paths.          *)
WritesInOrder(tier) ==
    \A vals \in WriteVals : \A c, d \in DOMAIN vals : \A f, g \in Stored :
        c /= d /\ ListensTo(f, c) /\ tier[f] = 2 /\ ListensTo(g, d) => tier[g] /= 1
CreatesInOrder(tier) ==
    \/ UpOnly
    \/ /\ \A f \in Stored : tier[f] <= 2
       /\ \A vals \in CreateVals : Link \in DOMAIN vals =>
            \A c \in DOMAIN vals \ {Link} : \A f \in Stored : ListensTo(f, c) => tier[f] /= 2

(* Rows move, and are deleted, only where no One2many path is declared     *)
(* (fan_out walks the links as they are now), and none of a row's fields   *)
(* is computed anew when the row it points at is deleted.                  *)
LinksStay ==
    /\ UpOnly \/ (~Unlinks /\ \A vals \in WriteVals : Link \notin DOMAIN vals)
    /\ Unlinks => OnDelete = "RESTRICT"

Orderly ==
    /\ LinksStay
    /\ \E tier \in [Stored -> 1 .. Len(Decl)] :
         Tiered(tier) /\ Declared(tier) /\ WritesInOrder(tier) /\ CreatesInOrder(tier)
=============================================================================
