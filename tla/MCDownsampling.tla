----------------------------- MODULE MCDownsampling -----------------------------
(***************************************************************************)
(* Downsampling on a small instance: days of two hours, hours of four      *)
(* units, and retentions that just cover the ranges.  As in the code, the  *)
(* raw checks are kept for less than a day.                                *)
(***************************************************************************)
EXTENDS Downsampling

MCKeep == [checks |-> 5, checkHour |-> 10, agent |-> 3, agent5 |-> 4, agent15 |-> 4, agentHour |-> 10]
MCZoom == [checks |-> 3, checkHour |-> 9, agent |-> 1, agent5 |-> 2, agent15 |-> 4, agentHour |-> 9]

\* From the first start to the first midnight, so that a restart gives the tickers
\* every phase.
MCFaultTimes == 3..8

ASSUME CodeRetentionFits == RetentionFits(CodeKeep, CodeZoom, 5, 15, 60, 24 * 60, 5)

=============================================================================
