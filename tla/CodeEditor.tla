----------------------------- MODULE CodeEditor -----------------------------
(***************************************************************************)
(* A code field (static/src/code_editor.js, the Alpine component           *)
(* pvCodeEditor): a CodeMirror view over `code`, which a hidden input      *)
(* posts. Themes, the flashes of Copy and the text of errors are left out. *)
(***************************************************************************)
EXTENDS CodeField

CONSTANT Language   \* of the field, in lower case

VARIABLES code, view

codeVars == <<code, view>>

(* The component starts with the text of its config; a former one's view   *)
(* is destroyed with it.                                                   *)
initCode(text) == code' = text /\ view' = None

mountEditor == view = None /\ view' = code /\ UNCHANGED code

(* The view's listener keeps `code` up to date.                            *)
typeCode(t) == view # None /\ view' = Insert(view, t) /\ code' = view'

(* Mutant: the text is left to the next request.                           *)
formatDocumentInView ==
    /\ view # None /\ canFormatLanguage(Language)
    /\ view' \in applyFormatToView(view, Language)
    /\ UNCHANGED code

formatDocument ==
    /\ view # None /\ canFormatLanguage(Language)
    /\ view' \in applyFormatToView(view, Language)
    /\ code' = view'

(* Before each request, after htmx has read the inputs.                    *)
sync == code' = (IF view = None THEN code ELSE view) /\ UNCHANGED view

CodeStep == (\E t \in Tokens : typeCode(t)) \/ formatDocument

-----------------------------------------------------------------------------
CodeTypeOK == code \in Doc /\ view \in Doc \union {None}
=============================================================================
