-------------------------- MODULE MCResultHistory --------------------------
(***************************************************************************)
(* An instance of ResultHistory for TLC. A window of three is the smallest *)
(* in which append leaves room behind the preserved failures (three of     *)
(* them in an array of four); six results are needed to get there, and the *)
(* seventh may write into that room. One host is probed with two modules   *)
(* and another one never, so that every filter of "/logs" can match, miss  *)
(* and have to skip a result before the one it is asked for.               *)
(***************************************************************************)
EXTENDS ResultHistory

TwoModules   == {"http_2xx", "icmp"}
TwoTargets   == {"a.example", "b.example"}
OneHostTwice == TwoModules \X {"a.example"}
=============================================================================
