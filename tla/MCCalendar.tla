----------------------------- MODULE MCCalendar -----------------------------
(* Constants for TLC.  Nine distinct times double the four buckets. *)
EXTENDS CalendarScheduler

TwoWidths == {1, 2}
=============================================================================
