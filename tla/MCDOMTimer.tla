---------------------------- MODULE MCDOMTimer ----------------------------
(* DOMTimer with two timer slots and ids, WebKit's default 4 ms minimum   *)
(* and one DOM change per behaviour prefix.                                *)
EXTENDS DOMTimer

MCTimers == 1..2
\* A zero and a long interval: one forwarded gesture, one not.
MCIntervals == {0, 2000}

\* Only the zero interval (clamped to 1, 4 or 1000 ms), for the runs with
\* nested fires and liveness, whose questions do not turn on the gesture
\* limit.
MCZeroInterval == {0}
=============================================================================
