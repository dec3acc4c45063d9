---- MODULE MCEventLoop ----
(* Small instances of EventLoop for TLC.                                   *)
EXTENDS EventLoop

(* A negative delay is normalised, a zero delay is due in the batch after  *)
(* the one that created it; with MaxNow = 2 an interval of 1 can miss a   *)
(* period when Advance jumps.                                              *)
MCTimeoutDelays == {-1, 1}
MCIntervalDelays == {0, 1}
====
