---------------------------- MODULE MCCalendar ----------------------------
(* Two days of two ticks, in one time zone or two; windows that take in     *)
(* both days, one of them, or clip the first.                               *)
EXTENDS Calendar

CONSTANTS yolo

Asked(since, until, o, want) ==
    [since |-> since, until |-> until, off |-> o, want |-> want]
TwoDays == {Asked(0, 3, 0, Analyzers), Asked(1, 3, 0, Analyzers), Asked(1, 3, 1, {})}
(* A frame, or two and what is between them, and the whole axis.            *)
SomeRanges == {<<1, 1>>, <<2, 2>>, <<1, 3>>, <<0, MaxRowId>>}
=============================================================================
