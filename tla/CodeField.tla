----------------------------- MODULE CodeField ------------------------------
(***************************************************************************)
(* The text of a code field and what static/src/codemirror_field.js does   *)
(* to it. A text is the set of pieces (Tokens) somebody wrote into it and  *)
(* whether it is laid out on one line (`flat`). A rich text editor         *)
(* understands the pieces in Rich and drops the others when it parses.     *)
(*                                                                         *)
(* Colours, key maps, folding and completion do not touch the text and are *)
(* left out; reconfigureTheme and reconfigureLanguage dispatch effects     *)
(* only, so the listener does not run.                                     *)
(***************************************************************************)
CONSTANTS Tokens,   \* pieces of text
          Rich,     \* those the schema of the rich text editor can hold
          None      \* no editor, no text, no model, no record

Doc == [toks : SUBSET Tokens, flat : BOOLEAN]

ASSUME FieldAssumption == Rich \subseteq Tokens /\ None \notin Doc

BlankDoc(doc) == doc.toks = {}

(* Texts with content count as longer than 80 characters.                  *)
htmlLooksMinified(doc) == doc.flat /\ ~BlankDoc(doc)

FORMATTABLE == {"html", "xml", "css", "javascript", "typescript", "json"}
canFormatLanguage(lang) == lang \in FORMATTABLE

Tidy(doc) == [doc EXCEPT !.flat = FALSE]

(* What formatSource may return: the tidy text, None when the formatter    *)
(* throws, the text itself when it is blank or of no formattable language. *)
formatSource(doc, lang) ==
    IF BlankDoc(doc) \/ ~canFormatLanguage(lang) THEN {doc} ELSE {Tidy(doc), None}

(* The text after formatting `doc` where a failure leaves it as it was.    *)
FormattedOrKept(doc, lang) == {IF f = None THEN doc ELSE f : f \in formatSource(doc, lang)}

(* The text of the view after applyFormatToView: a failure changes nothing. *)
applyFormatToView(view, lang) == FormattedOrKept(view, lang)

Insert(doc, t) == [doc EXCEPT !.toks = @ \union {t}]
=============================================================================
