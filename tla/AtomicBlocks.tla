---------------------------- MODULE AtomicBlocks ----------------------------
(***************************************************************************)
(* What `Environment.transaction()` promises its callers, without saying   *)
(* how: nested `with` blocks over one store, each of which takes effect as *)
(* a whole or not at all.                                                  *)
(*                                                                         *)
(* The promise is the docstring of pyvelm/env.py (`transaction`): the      *)
(* outer block is a real transaction, an inner block can be undone on its  *)
(* own, a block left by an exception is undone, any other block is kept,   *)
(* and only the end of the outer block makes anything durable.             *)
(***************************************************************************)
EXTENDS Sequences, Naturals

CONSTANTS Keys,     \* the cells (columns of rows) the blocks write
          Vals      \* the values a cell can hold

VARIABLES durable,  \* what another connection reads
          view,     \* what this connection reads
          entry,    \* for each open block, the view when it was entered
          failing   \* an exception is on its way out of the open blocks

avars == <<durable, view, entry, failing>>

InBlock == entry /= <<>>
Outermost == Len(entry) = 1

InitBlocks ==
    /\ durable \in [Keys -> Vals]
    /\ view = durable
    /\ entry = <<>>
    /\ failing = FALSE

EnterBlock ==
    /\ ~failing
    /\ entry' = Append(entry, view)
    /\ UNCHANGED <<durable, view, failing>>

(* A write in a block is private to it; outside any block it is durable.  *)
WriteCell(k, v) ==
    /\ ~failing
    /\ view' = [view EXCEPT ![k] = v]
    /\ durable' = IF InBlock THEN durable ELSE view'
    /\ UNCHANGED <<entry, failing>>

KeepBlock ==
    /\ ~failing /\ InBlock
    /\ durable' = IF Outermost THEN view ELSE durable
    /\ entry' = SubSeq(entry, 1, Len(entry) - 1)
    /\ UNCHANGED <<view, failing>>

(* The block is undone: it was left by an exception, or ending it failed  *)
(* (`raised`), which the caller sees as one. The server may also end an   *)
(* aborted transaction by undoing it without reporting an error.          *)
UndoBlock(raised) ==
    /\ InBlock
    /\ failing => raised
    /\ view' = entry[Len(entry)]
    /\ entry' = SubSeq(entry, 1, Len(entry) - 1)
    /\ failing' = raised
    /\ UNCHANGED durable

RaiseIn == ~failing /\ failing' = TRUE /\ UNCHANGED <<durable, view, entry>>
CatchIn == failing /\ failing' = FALSE /\ UNCHANGED <<durable, view, entry>>

NextBlocks ==
    \/ EnterBlock
    \/ \E k \in Keys, v \in Vals : WriteCell(k, v)
    \/ KeepBlock
    \/ \E raised \in BOOLEAN : UndoBlock(raised)
    \/ RaiseIn
    \/ CatchIn

SpecBlocks == InitBlocks /\ [][NextBlocks]_avars
=============================================================================
