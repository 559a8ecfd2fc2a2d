---------------------------- MODULE MCFormPage ------------------------------
(***************************************************************************)
(* An instance of FormPage for TLC: a record with two lines, never put in  *)
(* order or stored the other way round; a value the server accepts and one *)
(* it does not; two cells to a row.                                        *)
(***************************************************************************)
EXTENDS FormPage

CONSTANTS empty, good, bad, day, night, noon, braces, word

MCVals == {empty, good, bad}
MCRejected == {bad}
MCDates == {day, night}
MCTimes == {noon, Midnight}
MCTokens == {braces, word}
MCRich == {}

Line(i, s) == [id |-> i, seq |-> s, val |-> good, line |-> i]
MCRecords ==
    {[children |-> lines_, stamp |-> [date |-> day, time |-> noon],
      code |-> [toks |-> {braces}, flat |-> TRUE]]
       : lines_ \in {{Line(1, 0), Line(2, 0)}, {Line(1, 2), Line(2, 1), Line(3, 3)}}}
=============================================================================
