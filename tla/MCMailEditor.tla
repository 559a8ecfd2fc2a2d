---------------------------- MODULE MCMailEditor ----------------------------
(***************************************************************************)
(* An instance of MailEditor for TLC: a word, which both editors hold, and *)
(* a table, which TipTap drops; two models.                                *)
(***************************************************************************)
EXTENDS MailEditor

CONSTANTS word, table, partner, order

MCTokens == {word, table}
MCRich == {word}
MCModels == {partner, order}
MCBodies == {[toks |-> {}, flat |-> FALSE], [toks |-> {table}, flat |-> TRUE]}
=============================================================================
