------------------------ MODULE MCDOMTimerAlignment ------------------------
(* Fire times from 0 to four of the longer alignment intervals, no        *)
(* alignment, a 4 ms and a 10 ms interval, and randomNumber() in steps of  *)
(* 1/7 so that offsets of both intervals are truncated.                    *)
EXTENDS DOMTimerAlignment

MCFireTimes == 0..40
MCAlignmentIntervals == {0, 4, 10}
=============================================================================
