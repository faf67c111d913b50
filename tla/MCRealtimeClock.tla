--------------------------- MODULE MCRealtimeClock ---------------------------
(* Values for model checking RealtimeClock.  Times are milliseconds.  The two
   reads of the local clock are next to each other (0) or the thread loses the
   processor between them (25, 40), so that a measured rtt falls on both sides
   of the 20 ms limit.                                                      *)
EXTENDS RealtimeClock

MCDelays == {1, 30}
MCServices == {0}
MCSendTimes == {0, 25, 40}
=============================================================================
