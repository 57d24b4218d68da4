------------------------------- MODULE MCTimers -------------------------------
(* Timers over a short stretch of time, with the delay zero and a delay longer*)
(* than a second.                                                            *)
EXTENDS TimerEvents

ShortDelays == {0, 3}
===============================================================================
