-------------------------- MODULE MCCounterCache --------------------------
(***************************************************************************)
(* Instances of CounterCache for TLC. One tick is two and a half minutes:  *)
(* a failure is retried after Retry = 2 of them, "fast" refreshes more     *)
(* often than that and "slow" less often.                                  *)
(***************************************************************************)
EXTENDS CounterCache

\* Two modules that read the same URL file.
SharedCache == [m \in {"fast", "slow"} |-> "file"]

Intervals == [m \in {"fast", "slow"} |-> IF m = "fast" THEN 1 ELSE 4]
=============================================================================
