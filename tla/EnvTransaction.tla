--------------------------- MODULE EnvTransaction ---------------------------
(***************************************************************************)
(* `Environment.transaction()` (pyvelm/env.py) over one connection.        *)
(*                                                                         *)
(* Several environments share a connection: `sudo`, `with_context` and     *)
(* `with_company` derive siblings that keep the connection and the value   *)
(* cache but start with a nesting depth of their own, zero. TxEnvs are the *)
(* environments whose code opens blocks. While only one of them does, the  *)
(* blocks implement AtomicBlocks; a second one breaks the promise.         *)
(*                                                                         *)
(* The server side (savepoints found by their latest name, a transaction   *)
(* aborted by a failed statement) is external: PostgreSQL, as the code     *)
(* uses it. Python runs the blocks of one connection as a stack.           *)
(***************************************************************************)
EXTENDS Naturals, Sequences

CONSTANTS Keys, Vals,
          Envs,         \* the environments that share the connection
          TxEnvs,       \* the ones that open transaction() blocks
          Absent,       \* "no cache entry"
          MaxNest,      \* bound: open blocks
          MaxSaves      \* bound: savepoints left on the server

ASSUME EnvAssumption ==
    /\ TxEnvs \subseteq Envs
    /\ Absent \notin Vals
    /\ MaxNest \in Nat /\ MaxSaves \in Nat

VARIABLES
    committed,   \* the database as other connections read it
    view,        \* the database as this connection reads it
    saves,       \* savepoints on the server, oldest first
    aborted,     \* a statement failed: the server refuses all but rollback
    autocommit,  \* conn.autocommit
    frames,      \* the open `with` blocks, outermost first
    depth,       \* env._tx_depth, of every environment
    cache,       \* env.cache, one for all environments of the connection
    exc          \* an exception is propagating

server == <<committed, view, saves, aborted>>
vars == <<committed, view, saves, aborted, autocommit, frames, depth, cache, exc>>

Store == [Keys -> Vals]
(* `kind` and `sp` are what the context manager keeps; `snap` is history,  *)
(* the view at the time of entry, for the refinement only.                 *)
Frame == [env : Envs, kind : {"tx", "sp"}, sp : Nat, snap : Store]
Save  == [name : Nat, snap : Store]

Top == frames[Len(frames)]
Popped == SubSeq(frames, 1, Len(frames) - 1)
Open(e) == {i \in DOMAIN frames : frames[i].env = e}
(* The server resolves a savepoint name to the latest savepoint so named.  *)
Named(n) == {i \in DOMAIN saves : saves[i].name = n}
IsLatest(i, n) == i \in Named(n) /\ \A j \in Named(n) : j <= i

TypeOK ==
    /\ committed \in Store /\ view \in Store
    /\ saves \in Seq(Save)
    /\ aborted \in BOOLEAN /\ autocommit \in BOOLEAN /\ exc \in BOOLEAN
    /\ frames \in Seq(Frame)
    /\ depth \in [Envs -> Nat]
    /\ cache \in [Keys -> Vals \cup {Absent}]

Init ==
    /\ committed \in Store
    /\ view = committed
    /\ saves = <<>> /\ aborted = FALSE /\ autocommit = TRUE
    /\ frames = <<>>
    /\ depth = [e \in Envs |-> 0]
    /\ cache = [k \in Keys |-> Absent]
    /\ exc = FALSE
-----------------------------------------------------------------------------
(* Entering a block.                                                       *)

Push(e, kind, sp) ==
    /\ frames' = Append(frames, [env |-> e, kind |-> kind, sp |-> sp, snap |-> view])
    /\ depth' = [depth EXCEPT ![e] = @ + 1]

EnterTx(e) ==
    /\ ~exc /\ Len(frames) < MaxNest
    /\ depth[e] = 0
    /\ autocommit' = FALSE
    /\ Push(e, "tx", 0)
    /\ UNCHANGED <<server, cache, exc>>

(* Mutant: every savepoint is given the same name.                         *)
EnterSavepointOneName(e) ==
    /\ ~exc /\ Len(frames) < MaxNest /\ Len(saves) < MaxSaves
    /\ depth[e] > 0
    /\ ~autocommit /\ ~aborted
    /\ saves' = <<[name |-> 1, snap |-> view]>> \o saves
    /\ Push(e, "sp", 1)
    /\ UNCHANGED <<committed, view, aborted, autocommit, cache, exc>>

EnterSavepoint(e) ==
    /\ ~exc /\ Len(frames) < MaxNest /\ Len(saves) < MaxSaves
    /\ depth[e] > 0
    /\ ~autocommit /\ ~aborted
    /\ saves' = Append(saves, [name |-> depth[e], snap |-> view])
    /\ Push(e, "sp", depth[e])
    /\ UNCHANGED <<committed, view, aborted, autocommit, cache, exc>>

(* Mutant: the failed __enter__ gives back a level it never took.          *)
EnterRefusedUnbalanced(e) ==
    /\ ~exc /\ depth[e] > 0
    /\ autocommit \/ aborted
    /\ exc' = TRUE
    /\ depth' = [depth EXCEPT ![e] = @ - 1]
    /\ UNCHANGED <<server, autocommit, frames, cache>>

(* SAVEPOINT itself fails: outside a transaction, or in an aborted one.    *)
EnterRefused(e) ==
    /\ ~exc /\ depth[e] > 0
    /\ autocommit \/ aborted
    /\ exc' = TRUE
    /\ UNCHANGED <<server, autocommit, frames, depth, cache>>
-----------------------------------------------------------------------------
(* Statements of the block's body.                                         *)

(* Mutant: a write leaves the cached value behind.                         *)
WritePastCache(k, v) ==
    /\ ~exc /\ ~aborted
    /\ view' = [view EXCEPT ![k] = v]
    /\ committed' = IF autocommit THEN view' ELSE committed
    /\ UNCHANGED <<saves, aborted, autocommit, frames, depth, cache, exc>>

Write(k, v) ==
    /\ ~exc /\ ~aborted
    /\ view' = [view EXCEPT ![k] = v]
    /\ committed' = IF autocommit THEN view' ELSE committed
    /\ cache' = [cache EXCEPT ![k] = v]
    /\ UNCHANGED <<saves, aborted, autocommit, frames, depth, exc>>

Read(k) ==
    /\ ~exc /\ ~aborted
    /\ cache[k] = Absent
    /\ cache' = [cache EXCEPT ![k] = view[k]]
    /\ UNCHANGED <<server, autocommit, frames, depth, exc>>

StatementFails ==
    /\ ~exc
    /\ aborted' = ~autocommit
    /\ exc' = TRUE
    /\ UNCHANGED <<committed, view, saves, autocommit, frames, depth, cache>>

Raise ==
    /\ ~exc /\ exc' = TRUE
    /\ UNCHANGED <<server, autocommit, frames, depth, cache>>

(* The body catches it (AutomationEngine.fire, maybe_auto_start_workflow,  *)
(* message_post), or the request is over.                                  *)
Catch ==
    /\ exc /\ exc' = FALSE
    /\ UNCHANGED <<server, autocommit, frames, depth, cache>>
-----------------------------------------------------------------------------
(* Leaving a block: __exit__ and its finally clause.                       *)

(* Mutant: the finally clause forgets conn.autocommit.                     *)
PopKeepsTransaction ==
    /\ frames' = Popped
    /\ depth' = [depth EXCEPT ![Top.env] = @ - 1]
    /\ UNCHANGED <<autocommit, cache>>

Pop ==
    /\ frames' = Popped
    /\ depth' = [depth EXCEPT ![Top.env] = @ - 1]
    /\ autocommit' = (autocommit \/ depth[Top.env] = 1)
    /\ UNCHANGED cache

Commit ==
    /\ frames /= <<>> /\ Top.kind = "tx" /\ ~exc /\ ~aborted
    /\ committed' = view /\ saves' = <<>>
    /\ Pop
    /\ UNCHANGED <<view, aborted, exc>>

Undo(raised) ==
    /\ view' = committed /\ saves' = <<>> /\ aborted' = FALSE
    /\ exc' = raised
    /\ Pop
    /\ UNCHANGED committed

(* COMMIT of an aborted transaction undoes it. The driver may report that  *)
(* as an error (env.py then rolls back and re-raises) or say nothing.      *)
CommitAborted ==
    /\ frames /= <<>> /\ Top.kind = "tx" /\ ~exc /\ aborted
    /\ \E raised \in BOOLEAN : Undo(raised)

Rollback ==
    /\ frames /= <<>> /\ Top.kind = "tx" /\ exc
    /\ Undo(TRUE)

Release ==
    /\ frames /= <<>> /\ Top.kind = "sp" /\ ~exc /\ ~aborted
    /\ \E i \in DOMAIN saves : IsLatest(i, Top.sp) /\ saves' = SubSeq(saves, 1, i - 1)
    /\ Pop
    /\ UNCHANGED <<committed, view, aborted, exc>>

(* ROLLBACK TO SAVEPOINT keeps the savepoint. An aborted transaction       *)
(* refuses RELEASE, so the block is undone then as well, and re-raises.    *)
RollbackTo ==
    /\ frames /= <<>> /\ Top.kind = "sp" /\ (exc \/ aborted)
    /\ \E i \in DOMAIN saves :
         IsLatest(i, Top.sp) /\ view' = saves[i].snap /\ saves' = SubSeq(saves, 1, i)
    /\ aborted' = FALSE
    /\ exc' = TRUE
    /\ Pop
    /\ UNCHANGED committed

(* The savepoint is gone: both statements fail and the error is raised.    *)
SavepointGone ==
    /\ frames /= <<>> /\ Top.kind = "sp"
    /\ Named(Top.sp) = {}
    /\ exc' = TRUE
    /\ aborted' = ~autocommit
    /\ Pop
    /\ UNCHANGED <<committed, view, saves>>

Next ==
    \/ \E e \in TxEnvs : EnterTx(e) \/ EnterSavepoint(e) \/ EnterRefused(e)
    \/ \E k \in Keys : Read(k) \/ (\E v \in Vals : Write(k, v))
    \/ StatementFails \/ Raise \/ Catch
    \/ Commit \/ CommitAborted \/ Rollback
    \/ Release \/ RollbackTo \/ SavepointGone

Spec == Init /\ [][Next]_vars
-----------------------------------------------------------------------------
(* Properties.                                                             *)

Blocks == INSTANCE AtomicBlocks
            WITH durable <- committed, view <- view, failing <- exc,
                 entry <- [i \in DOMAIN frames |-> frames[i].snap]

(* All open blocks were opened through one environment, and the connection *)
(* is in a transaction if there are any.                                   *)
Regular ==
    /\ \A i, j \in DOMAIN frames : frames[i].env = frames[j].env
    /\ frames /= <<>> => ~autocommit

(* As long as one environment opens the blocks, they nest as `transaction` *)
(* (env.py) promises: a block left by an exception undoes its own work and *)
(* nothing else, the rest is kept, the outermost makes it durable.         *)
AtomicWhileRegular == [][Regular => [Blocks!NextBlocks]_(Blocks!avars)]_vars

(* When every block has been left, however it was left, the connection is  *)
(* back in autocommit with nothing of the transaction on the server, so    *)
(* the next ad-hoc statements (env.py:545) do not sit in an open one.      *)
CleanHandover ==
    frames = <<>> => autocommit /\ saves = <<>> /\ ~aborted /\ view = committed

(* The cache follows every statement: only undoing a block can make it     *)
(* disagree with what the connection reads (docs/modules.md:526, "does not *)
(* undo writes on rollback").                                              *)
Coherent == \A k \in Keys : cache[k] \in {Absent, view[k]}
CacheLostOnlyByUndo ==
    [][Coherent => Coherent' \/ (Len(frames') < Len(frames) /\ view' /= view)]_vars

(* "Nested calls become savepoints" (docs/modules.md:509): leaving an inner*)
(* block by an exception undoes at most what that block did.               *)
InnerFailureKeepsOuterWork ==
    [][Len(frames) > 1 /\ Len(frames') < Len(frames) => view' \in {view, Top.snap}]_vars
=============================================================================
