-------------------------- MODULE MCSyscallTiming --------------------------
(***************************************************************************)
(* Two calls per average, a buffer of two digits and averages of one, two  *)
(* and three; four samples with a clock that may show nothing at all,      *)
(* differences below and above the samplers' thresholds, and an outlier.   *)
(***************************************************************************)
EXTENDS SyscallTiming

MCCallTimes == {0, 9, 240}
MCBatchTimes == {0, 800, 807, 816, 2400}

=============================================================================
