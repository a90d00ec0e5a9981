---------------------------- MODULE MCTimerQueue ----------------------------
(* A small instance of TimerQueue.  Six entries are the fewest for which    *)
(* the entry that fills a removed one's place may have to rise.             *)
EXTENDS TimerQueue

SixIndices == 0 .. 5
ThreeTimes == 0 .. 2
=============================================================================
