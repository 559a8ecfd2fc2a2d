--------------------------- MODULE DatetimePicker ---------------------------
(***************************************************************************)
(* A datetime field (static/pv_datetime_picker.js, wirePicker): a hidden   *)
(* input that is posted, a label that shows it, and a panel with a         *)
(* calendar and a clock over a draft. An open panel floats in the body of  *)
(* the page, outside the form, and one listener on the document closes it  *)
(* at a click elsewhere. A swap of the form takes the field away and       *)
(* leaves an open panel behind. The Flowbite calendar is external.         *)
(*                                                                         *)
(* Where the panel floats is left out, and the plain date fields, which    *)
(* are the Flowbite picker itself.                                         *)
(***************************************************************************)
CONSTANTS Dates, Times, Midnight, Empty   \* Empty: no date, no time, no value

ASSUME PickerAssumption == Midnight \in Times /\ Empty \notin Dates \union Times

VARIABLES hidden, label, draft,
          calendar, clock,      \* what the two controls of the panel show
          open, outsideListener,
          orphan                \* the panel of a field that is gone is open

pickerVars == <<hidden, label, draft, calendar, clock, open, outsideListener, orphan>>

Stamp == [date : Dates, time : Times]
Draft == [date : Dates \union {Empty}, time : Times]

parseHidden(stamp) == IF stamp = Empty THEN [date |-> Empty, time |-> Midnight] ELSE stamp

refreshDisplay == label' = hidden'

(* A field drawn with a value, and wired. The calendar is made at the      *)
(* first opening, from a date the draft has too.                           *)
wirePicker(stamp) ==
    /\ hidden' = stamp /\ refreshDisplay
    /\ draft' = parseHidden(stamp)
    /\ calendar' = Empty /\ clock' = draft'.time
    /\ open' = FALSE /\ outsideListener' = FALSE
    /\ orphan' = (orphan \/ open)

closePanel == open' = FALSE /\ outsideListener' = FALSE

(* The listener of an orphan sees the click on the trigger first.          *)
openPanel ==
    /\ ~open /\ open' = TRUE /\ outsideListener' = TRUE
    /\ calendar' = IF draft.date = Empty THEN calendar ELSE draft.date
    /\ clock' = draft.time
    /\ orphan' = FALSE
    /\ UNCHANGED <<hidden, label, draft>>

(* The trigger, Escape on it, or a click elsewhere: the draft stays.       *)
Dismiss ==
    /\ open /\ closePanel
    /\ UNCHANGED <<hidden, label, draft, calendar, clock, orphan>>

(* A click outside, or Apply and Clear of the orphan, which change a field *)
(* no form has any more.                                                   *)
DismissOrphan ==
    /\ orphan /\ orphan' = FALSE
    /\ UNCHANGED <<hidden, label, draft, calendar, clock, open, outsideListener>>

changeDate(d) ==
    /\ open /\ calendar' = d /\ draft' = [draft EXCEPT !.date = d]
    /\ UNCHANGED <<hidden, label, clock, open, outsideListener, orphan>>

changeTime(t) ==
    /\ open /\ clock' = t
    /\ draft' = [draft EXCEPT !.time = IF t = Empty THEN Midnight ELSE t]
    /\ UNCHANGED <<hidden, label, calendar, open, outsideListener, orphan>>

syncDraftFromControls ==
    draft' = [date |-> IF calendar = Empty THEN draft.date ELSE calendar,
              time |-> IF clock = Empty THEN draft.time ELSE clock]

(* Mutant: a time without a date is a value.                               *)
applyAnyway ==
    /\ open /\ syncDraftFromControls
    /\ hidden' = draft'
    /\ closePanel /\ refreshDisplay
    /\ UNCHANGED <<calendar, clock, orphan>>

apply ==
    /\ open /\ syncDraftFromControls
    /\ hidden' = IF draft'.date = Empty THEN Empty ELSE draft'
    /\ closePanel /\ refreshDisplay
    /\ UNCHANGED <<calendar, clock, orphan>>

(* Mutant: the calendar keeps its date.                                    *)
clearAllButCalendar ==
    /\ open
    /\ draft' = parseHidden(Empty) /\ hidden' = Empty
    /\ clock' = Empty
    /\ closePanel /\ refreshDisplay
    /\ UNCHANGED <<calendar, orphan>>

clearAll ==
    /\ open
    /\ draft' = parseHidden(Empty) /\ hidden' = Empty
    /\ calendar' = Empty /\ clock' = Empty
    /\ closePanel /\ refreshDisplay
    /\ UNCHANGED orphan

PickerStep ==
    \/ openPanel \/ Dismiss \/ DismissOrphan \/ apply \/ clearAll
    \/ \E d \in Dates : changeDate(d)
    \/ \E t \in Times \union {Empty} : changeTime(t)

-----------------------------------------------------------------------------
PickerTypeOK ==
    /\ hidden \in Stamp \union {Empty} /\ label \in Stamp \union {Empty}
    /\ draft \in Draft
    /\ calendar \in Dates \union {Empty} /\ clock \in Times \union {Empty}
    /\ open \in BOOLEAN /\ outsideListener \in BOOLEAN /\ orphan \in BOOLEAN
=============================================================================
