--------------------------- MODULE LeasedResult ---------------------------
(***************************************************************************)
(* What the cache of a billing prober promises (JUSTMYSOCKS.md:38,         *)
(* docs/tencent-billing.md:37), told without goroutines, mutex and         *)
(* waiting: a result that is kept under a lease. While the lease runs a    *)
(* probe is answered with the result; a probe that started when it had run *)
(* out is answered with what it learnt itself. Each happens at one moment. *)
(* The lease is that of the module that learnt the result, shorter after a *)
(* failure.                                                                *)
(***************************************************************************)
EXTENDS Integers

CONSTANTS Modules, Caches, CacheOf, RefreshInterval, Retry, Counters, None

VARIABLES
  clock,
  snapshot,  \* snapshot[c]: the result
  lease,     \* lease[c]: when its lease runs out, None before the first
  served     \* served[c]: the last answer

vars == <<clock, snapshot, lease, served>>

Shorter(a, b) == IF a < b THEN a ELSE b

Init ==
  /\ clock = 0
  /\ snapshot = [c \in Caches |->
                   [counter |-> None, hasCounter |-> FALSE, lastAttemptSuccess |-> FALSE,
                    lastAttempt |-> None, lastSuccess |-> None, lastScrapeDuration |-> 0]]
  /\ lease = [c \in Caches |-> None]
  /\ served = [c \in Caches |-> None]

RunsAt(c, t) == lease[c] # None /\ t < lease[c]

Answer(c, result, m, t) ==
  served' = [served EXCEPT ![c] = [snapshot |-> result, now |-> t, module |-> m]]

\* A probe of module m that started at t finds the lease running.
Read(c, m, t) ==
  /\ RunsAt(c, t)
  /\ Answer(c, snapshot[c], m, t)
  /\ UNCHANGED <<clock, snapshot, lease>>

\* It found that the lease had run out, and comes back with this result.
Learn(c, m, t, result, term) ==
  /\ ~RunsAt(c, t)
  /\ snapshot' = [snapshot EXCEPT ![c] = result]
  /\ lease' = [lease EXCEPT ![c] = clock + term]
  /\ Answer(c, result, m, t)
  /\ UNCHANGED clock

Succeed(c, m, t, counter) ==
  Learn(c, m, t,
        [counter |-> counter, hasCounter |-> TRUE, lastAttemptSuccess |-> TRUE,
         lastAttempt |-> clock, lastSuccess |-> clock, lastScrapeDuration |-> clock - t],
        RefreshInterval[m])

\* A failure keeps what is known.
Fail(c, m, t) ==
  Learn(c, m, t,
        [snapshot[c] EXCEPT !.lastAttemptSuccess = FALSE, !.lastAttempt = clock,
                            !.lastScrapeDuration = clock - t],
        Shorter(RefreshInterval[m], Retry))

Tick ==
  /\ clock' = clock + 1
  /\ UNCHANGED <<snapshot, lease, served>>

Next ==
  \/ Tick
  \/ \E m \in Modules, t \in 0 .. clock :
       \/ Read(CacheOf[m], m, t)
       \/ \E counter \in Counters : Succeed(CacheOf[m], m, t, counter)
       \/ Fail(CacheOf[m], m, t)

Spec == Init /\ [][Next]_vars
=============================================================================
