------------------------ MODULE SharedStateProofs ------------------------
(***************************************************************************)
(* Proofs about the two things that probes share besides the history, each *)
(* guarded by a mutex that does not cover all that is done with it: the    *)
(* caches of the billing probers (CounterCache) and the configuration in   *)
(* force (ConfigReload). They hold for any number of probes, modules and   *)
(* caches, any intervals and any timeouts; for any versions of the file    *)
(* and any number of requests to reload it.                                *)
(***************************************************************************)
EXTENDS CounterCache, ConfigReload, TLAPS

-----------------------------------------------------------------------------
(* The caches.                                                             *)

USE CacheAssumption

\* A mutex is held by exactly the probe that fetches for its cache.
HolderFetches ==
  /\ \A p \in Probes : pc[p] = "fetch" => mu[cache(p)] = p
  /\ \A c \in Caches : mu[c] # None => pc[mu[c]] = "fetch" /\ cache(mu[c]) = c

\* Who fetches did not wait, and who may take the mutex has either just
\* started or will find the cache fresh.
NoWaitBeforeFetch ==
  \A p \in Probes :
    /\ pc[p] # "idle" => now[p] <= clock
    /\ pc[p] = "fetch" => startedAt[p] = now[p]
    /\ pc[p] = "lock" /\ mu[cache(p)] = None => now[p] = clock \/ Fresh(p)

\* How long the snapshot of c stays in force when module m has fetched it.
Term(c, m) ==
  IF snapshot[c].lastAttemptSuccess THEN RefreshInterval[m]
  ELSE Smaller(RefreshInterval[m], Retry)

\* The books of a cache: nextRefresh is one term after the true end of the
\* last fetch.
BooksTrue ==
  \A c \in Caches :
    /\ snapshot[c].lastAttempt = endedAt[c]
    /\ nextRefresh[c] = None <=> endedAt[c] = None
    /\ endedAt[c] # None =>
         /\ endedAt[c] <= clock
         /\ \E m \in Sharing(c) : nextRefresh[c] = endedAt[c] + Term(c, m)

IInv == TypeOK /\ HolderFetches /\ NoWaitBeforeFetch /\ BooksTrue /\ AnswersInForce

-----------------------------------------------------------------------------
LEMMA SmallerNat ==
  ASSUME NEW a \in Nat \ {0}, NEW b \in Nat \ {0}
  PROVE  Smaller(a, b) \in Nat \ {0} /\ Smaller(a, b) <= a /\ Smaller(a, b) <= b
  BY DEF Smaller

LEMMA StartInvariant ==
  ASSUME IInv, NEW p \in Probes, NEW m \in Modules, NEW t \in Timeouts, Start(p, m, t)
  PROVE  IInv'
<1> USE DEF IInv
<1>1. t \in Nat
  OBVIOUS
<1>2. TypeOK'
  BY <1>1 DEF TypeOK, Start
<1>3. HolderFetches'
  BY DEF TypeOK, Start, HolderFetches, cache
<1>4. NoWaitBeforeFetch'
  BY DEF TypeOK, Start, NoWaitBeforeFetch, cache, Fresh
<1>5. BooksTrue'
  BY DEF Start, BooksTrue, Term, Sharing
<1>6. AnswersInForce'
  BY DEF Start, AnswersInForce, Sharing, InForce
<1> QED
  BY <1>2, <1>3, <1>4, <1>5, <1>6

LEMMA BeginFetchInvariant ==
  ASSUME IInv, NEW p \in Probes, BeginFetch(p)
  PROVE  IInv'
<1> USE DEF IInv
<1>1. cache(p) \in Caches
  BY DEF TypeOK, BeginFetch, cache
<1>2. TypeOK'
  BY <1>1 DEF TypeOK, BeginFetch
<1>3. HolderFetches'
  BY <1>1 DEF TypeOK, BeginFetch, HolderFetches, cache
<1>4. now[p] = clock
  BY DEF NoWaitBeforeFetch, BeginFetch
<1>5. NoWaitBeforeFetch'
  BY <1>1, <1>4 DEF TypeOK, BeginFetch, NoWaitBeforeFetch, cache, Fresh
<1>6. BooksTrue'
  BY DEF BeginFetch, BooksTrue, Term, Sharing
<1>7. AnswersInForce'
  BY DEF BeginFetch, AnswersInForce, Sharing, InForce
<1> QED
  BY <1>2, <1>3, <1>5, <1>6, <1>7

LEMMA TickInvariant ==
  ASSUME IInv, Tick
  PROVE  IInv'
<1> USE DEF IInv
<1>1. TypeOK'
  BY DEF TypeOK, Tick, probeVars
<1>2. HolderFetches'
  BY DEF Tick, probeVars, HolderFetches, cache
<1>3. NoWaitBeforeFetch'
  BY DEF TypeOK, Tick, probeVars, NoWaitBeforeFetch, cache, Fresh
<1>4. BooksTrue'
  <2>1. /\ UNCHANGED <<snapshot, nextRefresh, endedAt>>
        /\ clock \in Nat /\ clock' = clock + 1
        /\ endedAt \in [Caches -> Nat \cup {None}]
    BY DEF TypeOK, Tick, Time
  <2>2. \A c \in Caches, m \in Modules : Term(c, m)' = Term(c, m)
    BY <2>1 DEF Term
  <2>3. \A c \in Caches : endedAt[c] # None => endedAt[c] <= clock'
    BY <2>1 DEF BooksTrue
  <2> QED
    BY <2>1, <2>2, <2>3 DEF BooksTrue, Sharing
<1>5. AnswersInForce'
  BY DEF Tick, AnswersInForce, Sharing, InForce
<1> QED
  BY <1>1, <1>2, <1>3, <1>4, <1>5

LEMMA ServeCachedInvariant ==
  ASSUME IInv, NEW p \in Probes, ServeCached(p)
  PROVE  IInv'
<1> USE DEF IInv
<1> DEFINE c == cache(p)
<1>1. c \in Caches /\ module[p] \in Modules /\ now[p] \in Nat /\ CacheOf[module[p]] = c
  BY DEF TypeOK, ServeCached, cache
<1>2. UNCHANGED <<clock, mu, snapshot, nextRefresh, endedAt>>
  BY DEF ServeCached
<1>3. served' = [served EXCEPT ![c] =
                   [snapshot |-> snapshot[c], now |-> now[p], module |-> module[p]]]
  BY DEF ServeCached, Return
<1>4. TypeOK'
  <2>1. [snapshot |-> snapshot[c], now |-> now[p], module |-> module[p]] \in Answer
    BY <1>1 DEF TypeOK, Answer
  <2>2. served' \in [Caches -> Answer \cup {None}]
    BY <1>3, <2>1 DEF TypeOK
  <2> QED
    BY <1>2, <2>2 DEF TypeOK, ServeCached, Return
<1>5. HolderFetches'
  BY DEF TypeOK, ServeCached, Return, HolderFetches, cache
<1>6. NoWaitBeforeFetch'
  BY DEF TypeOK, ServeCached, Return, NoWaitBeforeFetch, cache, Fresh
<1>7. BooksTrue'
  BY <1>2 DEF BooksTrue, Term, Sharing
<1>8. AnswersInForce'
  <2> SUFFICES ASSUME NEW d \in Caches, served'[d] # None
               PROVE  \E m \in Sharing(d) : InForce(served'[d], RefreshInterval[m])
    BY DEF AnswersInForce, Sharing, InForce
  <2>1. CASE d # c
    BY <2>1, <1>3 DEF TypeOK, AnswersInForce
  <2>2. CASE d = c
    <3>1. nextRefresh[c] # None /\ now[p] < nextRefresh[c]
      BY DEF ServeCached, Fresh
    <3>2. PICK m \in Sharing(c) : nextRefresh[c] = endedAt[c] + Term(c, m)
      BY <3>1, <1>1 DEF BooksTrue
    <3>3. endedAt[c] \in Nat /\ endedAt[c] = snapshot[c].lastAttempt
      BY <3>1, <1>1 DEF BooksTrue, TypeOK, Time
    <3>4. Term(c, m) \in Nat
      BY SmallerNat DEF Term, Sharing
    <3>5. now[p] - endedAt[c] < Term(c, m)
      BY <3>1, <3>2, <3>3, <3>4, <1>1
    <3>6. /\ served'[d].snapshot = snapshot[c]
          /\ served'[d].now = now[p]
      BY <2>2, <1>1, <1>3 DEF TypeOK
    <3>7. InForce(served'[d], RefreshInterval[m])
      BY <3>3, <3>5, <3>6 DEF InForce, Term
    <3> QED
      BY <2>2, <3>7
  <2> QED
    BY <2>1, <2>2
<1> QED
  BY <1>4, <1>5, <1>6, <1>7, <1>8

\* The end of a fetch, whatever its outcome: s is the new snapshot, dated by
\* finishedAt, and next lies one term after that.
LEMMA EndFetchInvariant ==
  ASSUME IInv, NEW p \in Probes, pc[p] = "fetch", NEW s \in Snapshot, NEW next \in Nat,
         EndFetch(p, s, next),
         s.lastAttempt = finishedAt(p),
         next = finishedAt(p) +
                  IF s.lastAttemptSuccess THEN RefreshInterval[module[p]]
                  ELSE Smaller(RefreshInterval[module[p]], Retry)
  PROVE  IInv'
<1> USE DEF IInv
<1> DEFINE c == cache(p)
<1>1. /\ c \in Caches /\ module[p] \in Modules /\ CacheOf[module[p]] = c
      /\ now[p] \in Nat /\ clock \in Nat
  BY DEF TypeOK, cache
<1>2. /\ snapshot' = [snapshot EXCEPT ![c] = s]
      /\ nextRefresh' = [nextRefresh EXCEPT ![c] = next]
      /\ mu' = [mu EXCEPT ![c] = None]
      /\ endedAt' = [endedAt EXCEPT ![c] = clock]
      /\ clock' = clock
      /\ served' = [served EXCEPT ![c] = [snapshot |-> s, now |-> now[p], module |-> module[p]]]
      /\ pc' = [pc EXCEPT ![p] = "idle"]
      /\ module' = [module EXCEPT ![p] = None]
      /\ now' = [now EXCEPT ![p] = 0]
      /\ deadline' = [deadline EXCEPT ![p] = 0]
      /\ startedAt' = [startedAt EXCEPT ![p] = 0]
  BY DEF EndFetch, Return
<1>3. TypeOK'
  <2>1. [snapshot |-> s, now |-> now[p], module |-> module[p]] \in Answer
    BY <1>1 DEF Answer
  <2> QED
    BY <1>1, <1>2, <2>1 DEF TypeOK, Time
\* The books agree with the clock because p fetched without having waited.
<1>4. finishedAt(p) = clock
  <2>1. startedAt[p] = now[p]
    BY DEF NoWaitBeforeFetch
  <2> QED
    BY <2>1, <1>1 DEF finishedAt, duration
<1>5. \A d \in Caches : d # c =>
         /\ snapshot'[d] = snapshot[d] /\ nextRefresh'[d] = nextRefresh[d]
         /\ mu'[d] = mu[d] /\ endedAt'[d] = endedAt[d] /\ served'[d] = served[d]
  BY <1>2 DEF TypeOK
<1>6. /\ snapshot'[c] = s /\ nextRefresh'[c] = next /\ mu'[c] = None /\ endedAt'[c] = clock
      /\ served'[c] = [snapshot |-> s, now |-> now[p], module |-> module[p]]
  BY <1>1, <1>2 DEF TypeOK
<1>7. mu[c] = p
  BY DEF HolderFetches
<1>8. \A q \in Probes : q # p => /\ pc'[q] = pc[q] /\ module'[q] = module[q]
                                 /\ now'[q] = now[q] /\ startedAt'[q] = startedAt[q]
                                 /\ cache(q)' = cache(q)
  BY <1>2 DEF TypeOK, cache
<1>9. pc'[p] = "idle"
  BY <1>2 DEF TypeOK
<1>10. HolderFetches'
  <2>1. ASSUME NEW q \in Probes, pc'[q] = "fetch" PROVE mu'[cache(q)'] = q
    <3>1. q # p /\ pc[q] = "fetch" /\ mu[cache(q)] = q /\ cache(q)' = cache(q)
      BY <2>1, <1>8, <1>9 DEF HolderFetches
    <3>2. cache(q) # c
      BY <3>1, <1>7
    <3>3. cache(q) \in Caches
      BY <3>1 DEF TypeOK, cache
    <3> QED
      BY <3>1, <3>2, <3>3, <1>5
  <2>2. ASSUME NEW d \in Caches, mu'[d] # None
        PROVE  pc'[mu'[d]] = "fetch" /\ cache(mu[d])' = d /\ mu'[d] = mu[d]
    <3>1. d # c /\ mu'[d] = mu[d]
      BY <2>2, <1>5, <1>6
    <3>2. mu[d] \in Probes /\ pc[mu[d]] = "fetch" /\ cache(mu[d]) = d
      BY <2>2, <3>1 DEF HolderFetches, TypeOK
    <3>3. mu[d] # p
      BY <3>1, <3>2
    <3> QED
      BY <3>1, <3>2, <3>3, <1>8
  <2> QED
    BY <2>1, <2>2 DEF HolderFetches, cache
<1>11. NoWaitBeforeFetch'
  <2> SUFFICES ASSUME NEW q \in Probes, q # p
               PROVE  /\ pc'[q] # "idle" => now'[q] <= clock'
                      /\ pc'[q] = "fetch" => startedAt'[q] = now'[q]
                      /\ pc'[q] = "lock" /\ mu'[cache(q)'] = None
                           => now'[q] = clock' \/ Fresh(q)'
    BY <1>9 DEF NoWaitBeforeFetch, cache
  <2>1. CASE pc[q] = "lock" /\ cache(q) = c
    <3>1. now[q] \in Nat /\ now[q] <= clock
      BY <2>1 DEF NoWaitBeforeFetch, TypeOK
    <3>2. next > clock
      <4>1. next \in Nat /\ clock \in Nat /\ RefreshInterval[module[p]] \in Nat \ {0}
            /\ Smaller(RefreshInterval[module[p]], Retry) \in Nat \ {0}
        BY <1>1, SmallerNat
      <4> QED
        BY <4>1, <1>4
    <3>3. Fresh(q)'
      <4>1. cache(q)' = c /\ now'[q] = now[q]
        BY <2>1, <1>8
      <4>2. nextRefresh'[c] = next /\ next # None /\ now[q] < next
        BY <3>1, <3>2, <1>1, <1>6
      <4> QED
        BY <4>1, <4>2 DEF Fresh, cache
    <3> QED
      BY <2>1, <3>1, <3>3, <1>2, <1>8
  <2>2. CASE ~(pc[q] = "lock" /\ cache(q) = c)
    <3>1. pc[q] = "lock" => cache(q) \in Caches /\ cache(q) # c
      BY <2>2 DEF TypeOK, cache
    <3>2. pc[q] = "lock" => mu'[cache(q)] = mu[cache(q)] /\ (Fresh(q)' <=> Fresh(q))
      <4>1. cache(q)' = cache(q) /\ now'[q] = now[q]
        BY <1>8
      <4>2. pc[q] = "lock" => /\ mu'[cache(q)] = mu[cache(q)]
                              /\ nextRefresh'[cache(q)] = nextRefresh[cache(q)]
        BY <3>1, <1>5
      <4> QED
        BY <4>1, <4>2 DEF Fresh, cache
    <3> QED
      BY <3>1, <3>2, <1>2, <1>8 DEF NoWaitBeforeFetch
  <2> QED
    BY <2>1, <2>2
<1>12. BooksTrue'
  <2> SUFFICES ASSUME NEW d \in Caches
               PROVE  /\ snapshot'[d].lastAttempt = endedAt'[d]
                      /\ nextRefresh'[d] = None <=> endedAt'[d] = None
                      /\ endedAt'[d] # None =>
                           /\ endedAt'[d] <= clock'
                           /\ \E m \in Sharing(d) :
                                nextRefresh'[d] = endedAt'[d] + Term(d, m)'
    BY DEF BooksTrue, Sharing
  <2>1. CASE d # c
    <3>1. \A m \in Modules : Term(d, m)' = Term(d, m)
      BY <2>1, <1>5 DEF Term
    <3> QED
      BY <2>1, <3>1, <1>2, <1>5 DEF BooksTrue, Sharing
  <2>2. CASE d = c
    <3> PICK m \in Modules : m = module[p]
      BY <1>1
    <3>1. next = clock + Term(d, m)'
      <4>1. snapshot'[d] = s
        BY <2>2, <1>6
      <4> QED
        BY <4>1, <1>4 DEF Term
    <3>2. m \in Sharing(d)
      BY <2>2, <1>1 DEF Sharing
    <3>3. next # None /\ clock # None
      BY <1>1
    <3>4. nextRefresh'[d] = endedAt'[d] + Term(d, m)'
      BY <2>2, <3>1, <1>6
    <3>5. snapshot'[d].lastAttempt = endedAt'[d] /\ endedAt'[d] <= clock'
      BY <2>2, <1>1, <1>2, <1>4, <1>6
    <3> QED
      BY <2>2, <3>2, <3>3, <3>4, <3>5, <1>6
  <2> QED
    BY <2>1, <2>2
<1>13. AnswersInForce'
  <2> SUFFICES ASSUME NEW d \in Caches, served'[d] # None
               PROVE  \E m \in Sharing(d) : InForce(served'[d], RefreshInterval[m])
    BY DEF AnswersInForce, Sharing, InForce
  <2>1. CASE d # c
    BY <2>1, <1>5 DEF AnswersInForce
  <2>2. CASE d = c
    <3>1. s.lastAttempt >= now[p]
      BY <1>1, <1>4 DEF NoWaitBeforeFetch
    <3>2. InForce(served'[d], RefreshInterval[module[p]])
      BY <2>2, <3>1, <1>6 DEF InForce
    <3>3. module[p] \in Sharing(d)
      BY <2>2, <1>1 DEF Sharing
    <3> QED
      BY <3>2, <3>3
  <2> QED
    BY <2>1, <2>2
<1> QED
  BY <1>3, <1>10, <1>11, <1>12, <1>13

LEMMA FetchSucceedsInvariant ==
  ASSUME IInv, NEW p \in Probes, NEW k \in Counters, FetchSucceeds(p, k)
  PROVE  IInv'
<1> DEFINE s == [counter |-> k, hasCounter |-> TRUE, lastAttemptSuccess |-> TRUE,
                 lastAttempt |-> finishedAt(p), lastSuccess |-> finishedAt(p),
                 lastScrapeDuration |-> duration(p)]
           next == finishedAt(p) + RefreshInterval[module[p]]
<1>1. pc[p] = "fetch" /\ EndFetch(p, s, next)
  BY DEF FetchSucceeds
<1>2. finishedAt(p) \in Nat /\ duration(p) \in Nat /\ RefreshInterval[module[p]] \in Nat
  BY <1>1 DEF IInv, TypeOK, NoWaitBeforeFetch, finishedAt, duration
<1>3. s \in Snapshot /\ next \in Nat
  BY <1>2 DEF Snapshot, Time
<1> HIDE DEF finishedAt
<1> QED
  BY <1>1, <1>3, EndFetchInvariant

LEMMA FetchFailsInvariant ==
  ASSUME IInv, NEW p \in Probes, FetchFails(p)
  PROVE  IInv'
<1> DEFINE old == snapshot[cache(p)]
           s == [counter |-> old.counter, hasCounter |-> old.hasCounter,
                 lastAttemptSuccess |-> FALSE, lastAttempt |-> finishedAt(p),
                 lastSuccess |-> old.lastSuccess, lastScrapeDuration |-> duration(p)]
           next == finishedAt(p) + Smaller(RefreshInterval[module[p]], Retry)
<1>1. pc[p] = "fetch" /\ EndFetch(p, s, next)
  BY DEF FetchFails
<1>2. /\ finishedAt(p) \in Nat /\ duration(p) \in Nat
      /\ Smaller(RefreshInterval[module[p]], Retry) \in Nat
      /\ old \in Snapshot
  BY <1>1, SmallerNat DEF IInv, TypeOK, NoWaitBeforeFetch, finishedAt, duration, cache
<1>3. s \in Snapshot /\ next \in Nat
  BY <1>2 DEF Snapshot, Time
<1> HIDE DEF finishedAt
<1> QED
  BY <1>1, <1>3, EndFetchInvariant

LEMMA InitInvariant == Init => IInv
  BY DEF Init, IInv, TypeOK, Snapshot, Time, HolderFetches, NoWaitBeforeFetch,
         BooksTrue, AnswersInForce

LEMMA NextInvariant == IInv /\ [Next]_vars => IInv'
<1> SUFFICES ASSUME IInv, [Next]_vars PROVE IInv'
  OBVIOUS
<1>1. CASE \E p \in Probes, m \in Modules, t \in Timeouts : Start(p, m, t)
  BY <1>1, StartInvariant
<1>2. CASE \E p \in Probes : ServeCached(p)
  BY <1>2, ServeCachedInvariant
<1>3. CASE \E p \in Probes : BeginFetch(p)
  BY <1>3, BeginFetchInvariant
<1>4. CASE \E p \in Probes, c \in Counters : FetchSucceeds(p, c)
  BY <1>4, FetchSucceedsInvariant
<1>5. CASE \E p \in Probes : FetchFails(p)
  BY <1>5, FetchFailsInvariant
<1>6. CASE Tick
  BY <1>6, TickInvariant
<1>7. CASE UNCHANGED vars
  BY <1>7
  DEF vars, IInv, TypeOK, HolderFetches, NoWaitBeforeFetch, BooksTrue, AnswersInForce,
      cache, Fresh, Term, Sharing, InForce
<1> QED
  BY <1>1, <1>2, <1>3, <1>4, <1>5, <1>6, <1>7 DEF Next

\* The invariant the other theorems follow from.
THEOREM Invariant == Spec => []IInv
  BY InitInvariant, NextInvariant, PTL DEF Spec

-----------------------------------------------------------------------------
(* The results.                                                            *)

\* Every variable of the caches and of the probes keeps its type.
THEOREM TypeCorrect == Spec => []TypeOK
<1>1. IInv => TypeOK
  BY DEF IInv
<1> QED
  BY <1>1, Invariant, PTL

\* The recorded time of the last attempt is the time it ended, although the
\* code computes it from the start of the probe: whoever fetches did not wait.
THEOREM TimestampsAreTrue == Spec => []TimestampsTrue
<1>1. IInv => TimestampsTrue
  BY DEF IInv, BooksTrue, TimestampsTrue
<1> QED
  BY <1>1, Invariant, PTL

\* No probe is answered with a result that has outlived the longest interval
\* of the modules on its cache, or five minutes after a failure.
THEOREM AnswersAreInForce == Spec => []AnswersInForce
<1>1. IInv => AnswersInForce
  BY DEF IInv
<1> QED
  BY <1>1, Invariant, PTL

\* Between the end of a fetch and the beginning of the next one for the same
\* cache lies an interval of one of its modules, or the retry interval.
THEOREM FetchesAreSpaced == Spec => FetchesSpaced
<1> DEFINE Spaced ==
      \A c \in Caches :
        mu'[c] # mu[c] /\ mu'[c] # None /\ endedAt[c] # None
          => \E m \in Sharing(c) :
               clock >= endedAt[c] + Smaller(RefreshInterval[m], Retry)
<1>1. IInv /\ [Next]_vars => [Spaced]_vars
  <2> SUFFICES ASSUME IInv, Next, NEW c \in Caches,
                      mu'[c] # mu[c], mu'[c] # None, endedAt[c] # None
               PROVE  \E m \in Sharing(c) :
                        clock >= endedAt[c] + Smaller(RefreshInterval[m], Retry)
    OBVIOUS
  <2>1. PICK p \in Probes : BeginFetch(p)
    BY DEF Next, Start, ServeCached, FetchSucceeds, FetchFails, EndFetch, Tick, IInv, TypeOK
  <2>2. cache(p) = c
    BY <2>1 DEF BeginFetch, IInv, TypeOK
  <2>3. now[p] = clock /\ ~Fresh(p) /\ nextRefresh[c] # None
    BY <2>1, <2>2 DEF BeginFetch, IInv, NoWaitBeforeFetch, BooksTrue
  <2>4. /\ clock \in Nat /\ nextRefresh[c] \in Nat /\ endedAt[c] \in Nat
        /\ clock >= nextRefresh[c]
    BY <2>2, <2>3 DEF Fresh, IInv, TypeOK, Time
  <2>5. PICK m \in Sharing(c) : nextRefresh[c] = endedAt[c] + Term(c, m)
    BY DEF IInv, BooksTrue
  <2>6. /\ Term(c, m) \in Nat /\ Smaller(RefreshInterval[m], Retry) \in Nat
        /\ Smaller(RefreshInterval[m], Retry) <= Term(c, m)
    BY SmallerNat DEF Term, Sharing
  <2> QED
    BY <2>4, <2>5, <2>6
<1> QED
  BY <1>1, Invariant, PTL DEF Spec, FetchesSpaced

-----------------------------------------------------------------------------
(* Answers never go back.                                                  *)

\* What was served last is what the cache holds: no snapshot gets into it
\* that is not returned in the same breath.
ServedIsCurrent ==
  \A c \in Caches :
    served[c] # None => served[c].snapshot = snapshot[c] /\ endedAt[c] # None

\* The last success does not lie ahead.
SuccessDated ==
  \A c \in Caches :
    snapshot[c].hasCounter => snapshot[c].lastSuccess \in Nat /\ snapshot[c].lastSuccess <= clock

AInv == IInv /\ ServedIsCurrent /\ SuccessDated

\* The second of two snapshots is no step back behind the first.
NotBehind(old, new) ==
  /\ new.lastAttempt >= old.lastAttempt
  /\ old.hasCounter => new.hasCounter /\ new.lastSuccess >= old.lastSuccess
  /\ new.hasCounter /\ ~new.lastAttemptSuccess => old.hasCounter /\ new.counter = old.counter

\* A snapshot is not behind itself.
LEMMA SnapshotStays ==
  ASSUME AInv, NEW c \in Caches, served[c] # None
  PROVE  NotBehind(snapshot[c], snapshot[c])
<1>1. snapshot[c].lastAttempt \in Nat
  BY DEF AInv, IInv, ServedIsCurrent, BooksTrue, TypeOK, Time
<1>2. snapshot[c].hasCounter => snapshot[c].lastSuccess \in Nat
  BY DEF AInv, SuccessDated
<1>3. QED
  BY <1>1, <1>2 DEF NotBehind

\* What the end of a fetch puts into the cache, it serves.
LEMMA FetchAdvances ==
  ASSUME AInv, IInv', NEW p \in Probes, pc[p] = "fetch", NEW s \in Snapshot, NEW next \in Nat,
         EndFetch(p, s, next),
         s.hasCounter => \/ s.lastSuccess = s.lastAttempt /\ s.lastAttemptSuccess
                         \/ /\ snapshot[cache(p)].hasCounter
                            /\ s.lastSuccess = snapshot[cache(p)].lastSuccess
                            /\ s.counter = snapshot[cache(p)].counter,
         snapshot[cache(p)].hasCounter => s.hasCounter
  PROVE  /\ ServedIsCurrent' /\ SuccessDated'
         /\ \A d \in Caches : served[d] # None =>
              NotBehind(served[d].snapshot, served'[d].snapshot)
<1> DEFINE c == cache(p)
<1>1. c \in Caches
  BY DEF AInv, IInv, TypeOK, cache
<1>2. /\ snapshot' = [snapshot EXCEPT ![c] = s] /\ endedAt' = [endedAt EXCEPT ![c] = clock]
      /\ served' = [served EXCEPT ![c] = [snapshot |-> s, now |-> now[p], module |-> module[p]]]
      /\ clock' = clock
  BY DEF EndFetch, Return
<1>3. /\ snapshot \in [Caches -> Snapshot] /\ endedAt \in [Caches -> Time]
      /\ served \in [Caches -> Answer \cup {None}] /\ clock \in Nat
  BY DEF AInv, IInv, TypeOK
<1> HIDE DEF c
<1>4. snapshot'[c] = s /\ endedAt'[c] = clock /\ served'[c].snapshot = s
  BY <1>1, <1>2, <1>3
<1>5. \A d \in Caches : d # c =>
        snapshot'[d] = snapshot[d] /\ endedAt'[d] = endedAt[d] /\ served'[d] = served[d]
  BY <1>2, <1>3
<1>6. s.lastAttempt = clock
  BY <1>1, <1>4 DEF IInv, BooksTrue
<1>7. ServedIsCurrent'
  <2>1. clock # None
    BY <1>3
  <2>2. QED
    BY <1>4, <1>5, <2>1 DEF AInv, ServedIsCurrent
<1>8. /\ s.hasCounter => \/ s.lastSuccess = s.lastAttempt /\ s.lastAttemptSuccess
                         \/ /\ snapshot[c].hasCounter
                            /\ s.lastSuccess = snapshot[c].lastSuccess
                            /\ s.counter = snapshot[c].counter
      /\ snapshot[c].hasCounter => s.hasCounter
  BY DEF c
<1>9. snapshot[c].hasCounter => snapshot[c].lastSuccess \in Nat /\ snapshot[c].lastSuccess <= clock
  BY <1>1 DEF AInv, SuccessDated
<1>10. SuccessDated'
  <2>1. s.hasCounter => s.lastSuccess \in Nat /\ s.lastSuccess <= clock
    BY <1>3, <1>6, <1>8, <1>9
  <2>2. QED
    BY <1>2, <1>4, <1>5, <2>1 DEF AInv, SuccessDated
<1>11. ASSUME NEW d \in Caches, served[d] # None
       PROVE  NotBehind(served[d].snapshot, served'[d].snapshot)
  <2>1. served[d].snapshot = snapshot[d]
    BY <1>11 DEF AInv, ServedIsCurrent
  <2>2. CASE d # c
    BY <1>5, <1>11, <2>1, <2>2, SnapshotStays
  <2>3. CASE d = c
    <3>1. snapshot[c].lastAttempt \in Nat /\ snapshot[c].lastAttempt <= clock
      BY <1>1, <1>11, <2>3 DEF AInv, IInv, ServedIsCurrent, BooksTrue, TypeOK, Time
    <3>2. s.lastAttempt >= snapshot[c].lastAttempt
      BY <1>3, <1>6, <3>1
    <3>3. snapshot[c].hasCounter => s.lastSuccess >= snapshot[c].lastSuccess
      BY <1>3, <1>6, <1>8, <1>9
    <3>4. s.hasCounter /\ ~s.lastAttemptSuccess =>
            snapshot[c].hasCounter /\ s.counter = snapshot[c].counter
      BY <1>8
    <3>5. QED
      BY <1>4, <1>8, <2>1, <2>3, <3>2, <3>3, <3>4 DEF NotBehind
  <2>4. QED
    BY <2>2, <2>3
<1>12. QED
  BY <1>7, <1>10, <1>11

\* No step serves an answer that is behind the last one of its cache.
LEMMA NextAdvances ==
  ASSUME AInv, IInv', [Next]_vars
  PROVE  /\ ServedIsCurrent' /\ SuccessDated'
         /\ \A c \in Caches : served[c] # None =>
              NotBehind(served[c].snapshot, served'[c].snapshot)
<1>1. CASE UNCHANGED <<snapshot, served, endedAt>> /\ clock' >= clock
  <2>1. ServedIsCurrent'
    BY <1>1 DEF AInv, ServedIsCurrent
  <2>2. SuccessDated'
    <3>1. clock \in Nat /\ clock' \in Nat
      BY DEF AInv, IInv, TypeOK
    <3>2. QED
      BY <1>1, <3>1 DEF AInv, SuccessDated
  <2>3. ASSUME NEW c \in Caches, served[c] # None
        PROVE  NotBehind(served[c].snapshot, served'[c].snapshot)
    BY <1>1, <2>3, SnapshotStays DEF AInv, ServedIsCurrent
  <2>4. QED
    BY <2>1, <2>2, <2>3
<1>2. ASSUME NEW p \in Probes, ServeCached(p)
      PROVE  /\ ServedIsCurrent' /\ SuccessDated'
             /\ \A c \in Caches : served[c] # None =>
                  NotBehind(served[c].snapshot, served'[c].snapshot)
  <2>1. UNCHANGED <<clock, snapshot, nextRefresh, endedAt>>
        /\ served' = [served EXCEPT ![cache(p)] =
                        [snapshot |-> snapshot[cache(p)], now |-> now[p], module |-> module[p]]]
        /\ nextRefresh[cache(p)] # None
    BY <1>2 DEF ServeCached, Return, Fresh
  <2>2. served \in [Caches -> Answer \cup {None}] /\ cache(p) \in Caches
    BY <1>2 DEF AInv, IInv, TypeOK, ServeCached, cache
  <2>3. endedAt[cache(p)] # None
    BY <2>1, <2>2 DEF AInv, IInv, BooksTrue
  <2>4. \A c \in Caches : served'[c] = served[c] \/
          (c = cache(p) /\ served'[c].snapshot = snapshot[c])
    BY <2>1, <2>2
  <2>5. ServedIsCurrent'
    BY <2>1, <2>3, <2>4 DEF AInv, ServedIsCurrent
  <2>6. SuccessDated'
    BY <2>1 DEF AInv, SuccessDated
  <2>7. ASSUME NEW c \in Caches, served[c] # None
        PROVE  NotBehind(served[c].snapshot, served'[c].snapshot)
    BY <2>4, <2>7, SnapshotStays DEF AInv, ServedIsCurrent
  <2>8. QED
    BY <2>5, <2>6, <2>7
<1>3. ASSUME NEW p \in Probes, NEW k \in Counters, FetchSucceeds(p, k)
      PROVE  /\ ServedIsCurrent' /\ SuccessDated'
             /\ \A c \in Caches : served[c] # None =>
                  NotBehind(served[c].snapshot, served'[c].snapshot)
  <2> DEFINE s == [counter |-> k, hasCounter |-> TRUE, lastAttemptSuccess |-> TRUE,
                   lastAttempt |-> finishedAt(p), lastSuccess |-> finishedAt(p),
                   lastScrapeDuration |-> duration(p)]
             next == finishedAt(p) + RefreshInterval[module[p]]
  <2>1. pc[p] = "fetch" /\ EndFetch(p, s, next)
    BY <1>3 DEF FetchSucceeds
  <2>2. finishedAt(p) \in Nat /\ duration(p) \in Nat /\ RefreshInterval[module[p]] \in Nat
    BY <2>1 DEF AInv, IInv, TypeOK, NoWaitBeforeFetch, finishedAt, duration
  <2>3. s \in Snapshot /\ next \in Nat
    BY <2>2 DEF Snapshot, Time
  <2>4. s.hasCounter /\ s.lastSuccess = s.lastAttempt /\ s.lastAttemptSuccess
    OBVIOUS
  <2> HIDE DEF s, next
  <2>5. QED
    BY <2>1, <2>3, <2>4, FetchAdvances
<1>4. ASSUME NEW p \in Probes, FetchFails(p)
      PROVE  /\ ServedIsCurrent' /\ SuccessDated'
             /\ \A c \in Caches : served[c] # None =>
                  NotBehind(served[c].snapshot, served'[c].snapshot)
  <2> DEFINE old == snapshot[cache(p)]
             s == [counter |-> old.counter, hasCounter |-> old.hasCounter,
                   lastAttemptSuccess |-> FALSE, lastAttempt |-> finishedAt(p),
                   lastSuccess |-> old.lastSuccess, lastScrapeDuration |-> duration(p)]
             next == finishedAt(p) + Smaller(RefreshInterval[module[p]], Retry)
  <2>1. pc[p] = "fetch" /\ EndFetch(p, s, next)
    BY <1>4 DEF FetchFails
  <2>2. /\ finishedAt(p) \in Nat /\ duration(p) \in Nat
        /\ Smaller(RefreshInterval[module[p]], Retry) \in Nat
        /\ old \in Snapshot
    BY <2>1, SmallerNat DEF AInv, IInv, TypeOK, NoWaitBeforeFetch, finishedAt, duration, cache
  <2>3. s \in Snapshot /\ next \in Nat
    BY <2>2 DEF Snapshot, Time
  <2>4. s.hasCounter = snapshot[cache(p)].hasCounter /\ s.counter = snapshot[cache(p)].counter
        /\ s.lastSuccess = snapshot[cache(p)].lastSuccess
    OBVIOUS
  <2> HIDE DEF s, next, old
  <2>5. QED
    BY <2>1, <2>3, <2>4, FetchAdvances
<1>5. ASSUME \/ UNCHANGED vars \/ Tick
             \/ \E p \in Probes, m \in Modules, t \in Timeouts : Start(p, m, t)
             \/ \E p \in Probes : BeginFetch(p)
      PROVE  UNCHANGED <<snapshot, served, endedAt>> /\ clock' >= clock
  <2>1. clock \in Nat
    BY DEF AInv, IInv, TypeOK
  <2>2. QED
    BY <1>5, <2>1 DEF vars, Tick, Start, BeginFetch
<1>6. QED
  BY <1>1, <1>2, <1>3, <1>4, <1>5 DEF Next

\* Answers from one cache never go back, whatever fails and whoever waits.
THEOREM AnswersDoNotGoBack == Spec => AnswersNeverGoBack
<1>1. Init => ServedIsCurrent /\ SuccessDated
  BY DEF Init, ServedIsCurrent, SuccessDated
<1>2. IInv /\ IInv' /\ ServedIsCurrent /\ SuccessDated /\ [Next]_vars
        => ServedIsCurrent' /\ SuccessDated'
  BY NextAdvances DEF AInv
<1> DEFINE Advances ==
      \A c \in Caches :
        served[c] # None =>
          LET old == served[c].snapshot
              new == served'[c].snapshot
          IN  /\ new.lastAttempt >= old.lastAttempt
              /\ old.hasCounter => new.hasCounter /\ new.lastSuccess >= old.lastSuccess
              /\ new.hasCounter /\ ~new.lastAttemptSuccess
                   => old.hasCounter /\ new.counter = old.counter
<1>3. IInv /\ IInv' /\ ServedIsCurrent /\ SuccessDated /\ [Next]_vars => [Advances]_vars
  BY NextAdvances DEF AInv, NotBehind
<1>4. AnswersNeverGoBack <=> [][Advances]_vars
  BY DEF AnswersNeverGoBack
<1>5. QED
  BY <1>1, <1>2, <1>3, <1>4, Invariant, PTL DEF Spec
-----------------------------------------------------------------------------
(* The caches implement the result under a lease.                          *)

\* While a probe fetches nobody else can renew the lease it found run out.
FetchNeeded == \A p \in Probes : pc[p] = "fetch" => ~Fresh(p)

LEMMA SameShorter ==
  ASSUME NEW a, NEW b
  PROVE  Leased!Shorter(a, b) = Smaller(a, b)
  BY DEF Leased!Shorter, Smaller

\* The end of a fetch is a fetch's only effect on a lease, and the mutex keeps
\* every other fetch for the same cache away.
LEMMA EndFetchKeepsNeeded ==
  ASSUME IInv, FetchNeeded, NEW p \in Probes, NEW s, NEW next, pc[p] = "fetch",
         EndFetch(p, s, next)
  PROVE  FetchNeeded'
<1> SUFFICES ASSUME NEW q \in Probes, pc'[q] = "fetch" PROVE ~Fresh(q)'
  BY DEF FetchNeeded
<1>1. q # p /\ pc[q] = "fetch"
  BY DEF EndFetch, Return, IInv, TypeOK
<1>2. cache(q) # cache(p)
  BY <1>1 DEF IInv, HolderFetches
<1>3. module'[q] = module[q] /\ now'[q] = now[q]
  BY <1>1 DEF EndFetch, Return, IInv, TypeOK
<1>4. nextRefresh'[cache(q)] = nextRefresh[cache(q)]
  BY <1>1, <1>2 DEF EndFetch, IInv, TypeOK, cache
<1>5. ~Fresh(q)
  BY <1>1 DEF FetchNeeded
<1>6. QED
  BY <1>3, <1>4, <1>5 DEF Fresh, cache

LEMMA FetchStaysNeeded == IInv /\ FetchNeeded /\ [Next]_vars => FetchNeeded'
<1> SUFFICES ASSUME IInv, FetchNeeded, [Next]_vars PROVE FetchNeeded'
  OBVIOUS
<1>1. CASE \E p \in Probes, m \in Modules, t \in Timeouts : Start(p, m, t)
  BY <1>1 DEF Start, FetchNeeded, Fresh, cache, IInv, TypeOK
<1>2. CASE \E p \in Probes : ServeCached(p)
  BY <1>2 DEF ServeCached, Return, FetchNeeded, Fresh, cache, IInv, TypeOK
<1>3. CASE \E p \in Probes : BeginFetch(p)
  BY <1>3 DEF BeginFetch, FetchNeeded, Fresh, cache, IInv, TypeOK
<1>4. CASE \E p \in Probes, c \in Counters : FetchSucceeds(p, c)
  BY <1>4, EndFetchKeepsNeeded DEF FetchSucceeds
<1>5. CASE \E p \in Probes : FetchFails(p)
  BY <1>5, EndFetchKeepsNeeded DEF FetchFails
<1>6. CASE Tick \/ UNCHANGED vars
  BY <1>6 DEF Tick, vars, probeVars, FetchNeeded, Fresh, cache
<1>7. QED
  BY <1>1, <1>2, <1>3, <1>4, <1>5, <1>6 DEF Next

\* Answering from the cache is reading the result while its lease runs.
LEMMA ServeCachedIsRead ==
  ASSUME IInv, NEW p \in Probes, ServeCached(p)
  PROVE  Leased!Next
<1>1. module[p] \in Modules /\ now[p] \in 0 .. clock
  BY DEF ServeCached, IInv, TypeOK, NoWaitBeforeFetch
<1>2. Leased!Read(CacheOf[module[p]], module[p], now[p])
  BY DEF ServeCached, Return, Fresh, cache, Leased!Read, Leased!RunsAt, Leased!Answer
<1>3. QED
  BY <1>1, <1>2 DEF Leased!Next

\* Who ends a fetch started at the moment the books count from, and found the
\* lease run out.
LEMMA FetcherFacts ==
  ASSUME IInv, FetchNeeded, NEW p \in Probes, pc[p] = "fetch"
  PROVE  /\ module[p] \in Modules /\ cache(p) = CacheOf[module[p]] /\ cache(p) \in Caches
         /\ now[p] \in 0 .. clock
         /\ finishedAt(p) = clock /\ duration(p) = clock - now[p]
         /\ ~Leased!RunsAt(cache(p), now[p])
<1>1. module[p] \in Modules /\ now[p] \in Nat /\ clock \in Nat /\ now[p] <= clock
  BY DEF IInv, TypeOK, NoWaitBeforeFetch
<1>2. startedAt[p] = now[p]
  BY DEF IInv, NoWaitBeforeFetch
<1>3. duration(p) = clock - now[p]
  BY <1>2 DEF duration
<1>4. finishedAt(p) = clock
  BY <1>1, <1>3 DEF finishedAt
<1>5. cache(p) = CacheOf[module[p]] /\ cache(p) \in Caches
  BY <1>1 DEF cache
<1>6. ~Leased!RunsAt(cache(p), now[p])
  BY DEF FetchNeeded, Fresh, Leased!RunsAt
<1>7. QED
  BY <1>1, <1>3, <1>4, <1>5, <1>6

\* The end of a fetch is the moment its result is learnt.
LEMMA EndFetchIsLearn ==
  ASSUME IInv, FetchNeeded, NEW p \in Probes, pc[p] = "fetch", NEW s, NEW term,
         EndFetch(p, s, clock + term)
  PROVE  Leased!Learn(CacheOf[module[p]], module[p], now[p], s, term)
<1>1. cache(p) = CacheOf[module[p]] /\ ~Leased!RunsAt(cache(p), now[p])
  BY FetcherFacts
<1>2. /\ snapshot' = [snapshot EXCEPT ![cache(p)] = s]
      /\ nextRefresh' = [nextRefresh EXCEPT ![cache(p)] = clock + term]
      /\ UNCHANGED clock
  BY DEF EndFetch
<1>3. Leased!Answer(cache(p), s, module[p], now[p])
  BY DEF EndFetch, Return, Leased!Answer
<1>4. QED
  BY <1>1, <1>2, <1>3 DEF Leased!Learn

LEMMA FetchSucceedsIsSucceed ==
  ASSUME IInv, FetchNeeded, NEW p \in Probes, NEW k \in Counters, FetchSucceeds(p, k)
  PROVE  Leased!Next
<1>1. pc[p] = "fetch"
  BY DEF FetchSucceeds
<1>2. /\ module[p] \in Modules /\ now[p] \in 0 .. clock
      /\ finishedAt(p) = clock /\ duration(p) = clock - now[p]
  BY <1>1, FetcherFacts
<1> DEFINE s == [counter |-> k, hasCounter |-> TRUE, lastAttemptSuccess |-> TRUE,
                 lastAttempt |-> clock, lastSuccess |-> clock,
                 lastScrapeDuration |-> clock - now[p]]
<1>3. EndFetch(p, s, clock + RefreshInterval[module[p]])
  BY <1>2 DEF FetchSucceeds
<1>4. Leased!Learn(CacheOf[module[p]], module[p], now[p], s, RefreshInterval[module[p]])
  BY <1>1, <1>3, EndFetchIsLearn
<1>5. Leased!Succeed(CacheOf[module[p]], module[p], now[p], k)
  BY <1>4 DEF Leased!Succeed
<1>6. QED
  BY <1>2, <1>5 DEF Leased!Next

\* A failed fetch changes three fields and copies the other three.
Rewritten(old, end, length) ==
  [counter |-> old.counter, hasCounter |-> old.hasCounter, lastAttemptSuccess |-> FALSE,
   lastAttempt |-> end, lastSuccess |-> old.lastSuccess, lastScrapeDuration |-> length]

Amended(old, end, length) ==
  [old EXCEPT !.lastAttemptSuccess = FALSE, !.lastAttempt = end,
              !.lastScrapeDuration = length]

LEMMA OldKept ==
  ASSUME NEW old \in Snapshot, NEW end, NEW length
  PROVE  Rewritten(old, end, length) = Amended(old, end, length)
<1> DEFINE fields == {"counter", "hasCounter", "lastAttemptSuccess", "lastAttempt",
                      "lastSuccess", "lastScrapeDuration"}
           new == Amended(old, end, length)
           literal == Rewritten(old, end, length)
<1>1. DOMAIN old = fields
  BY DEF Snapshot
<1>2. /\ new.counter = old.counter /\ new.hasCounter = old.hasCounter
      /\ new.lastAttemptSuccess = FALSE /\ new.lastAttempt = end
      /\ new.lastSuccess = old.lastSuccess /\ new.lastScrapeDuration = length
  BY <1>1 DEF Amended
<1>3. new = [f \in fields |-> new[f]]
  BY <1>1 DEF Amended
<1>4. literal = [f \in fields |-> literal[f]]
  BY DEF Rewritten
<1>5. /\ literal.counter = old.counter /\ literal.hasCounter = old.hasCounter
      /\ literal.lastAttemptSuccess = FALSE /\ literal.lastAttempt = end
      /\ literal.lastSuccess = old.lastSuccess /\ literal.lastScrapeDuration = length
  BY DEF Rewritten
<1> HIDE DEF new, literal
<1>6. literal = new
  BY <1>2, <1>3, <1>4, <1>5
<1>7. QED
  BY <1>6 DEF new, literal

LEMMA FetchFailsIsFail ==
  ASSUME IInv, FetchNeeded, NEW p \in Probes, FetchFails(p)
  PROVE  Leased!Next
<1>1. pc[p] = "fetch"
  BY DEF FetchFails
<1>2. /\ module[p] \in Modules /\ now[p] \in 0 .. clock
      /\ cache(p) = CacheOf[module[p]] /\ cache(p) \in Caches
      /\ finishedAt(p) = clock /\ duration(p) = clock - now[p]
  BY <1>1, FetcherFacts
<1> DEFINE old == snapshot[cache(p)]
           term == Smaller(RefreshInterval[module[p]], Retry)
<1>3. EndFetch(p, Rewritten(old, clock, clock - now[p]), clock + term)
  BY <1>2 DEF FetchFails, Rewritten
<1>4. old \in Snapshot
  BY <1>2 DEF IInv, TypeOK
<1> HIDE DEF old
<1>5. EndFetch(p, Amended(old, clock, clock - now[p]), clock + term)
  BY <1>3, <1>4, OldKept
<1>6. Leased!Learn(CacheOf[module[p]], module[p], now[p],
                   Amended(old, clock, clock - now[p]), term)
  BY <1>1, <1>5, EndFetchIsLearn
<1>7. Leased!Fail(CacheOf[module[p]], module[p], now[p])
  BY <1>2, <1>6, SameShorter DEF Leased!Fail, Amended, old
<1>8. QED
  BY <1>2, <1>7 DEF Leased!Next

\* Every step of the caches is a step of the result under a lease, or leaves it
\* as it is.
LEMMA StepKeepsLease ==
  IInv /\ FetchNeeded /\ [Next]_vars => [Leased!Next]_(Leased!vars)
<1> SUFFICES ASSUME IInv, FetchNeeded, [Next]_vars PROVE Leased!Next \/ UNCHANGED Leased!vars
  OBVIOUS
<1>1. CASE \/ \E p \in Probes, m \in Modules, t \in Timeouts : Start(p, m, t)
           \/ \E p \in Probes : BeginFetch(p)
           \/ UNCHANGED vars
  BY <1>1 DEF Start, BeginFetch, vars, Leased!vars
<1>2. CASE \E p \in Probes : ServeCached(p)
  BY <1>2, ServeCachedIsRead
<1>3. CASE \E p \in Probes, c \in Counters : FetchSucceeds(p, c)
  BY <1>3, FetchSucceedsIsSucceed
<1>4. CASE \E p \in Probes : FetchFails(p)
  BY <1>4, FetchFailsIsFail
<1>5. CASE Tick
  BY <1>5 DEF Tick, Leased!Next, Leased!Tick
<1>6. QED
  BY <1>1, <1>2, <1>3, <1>4, <1>5 DEF Next

\* The caches with their probes, mutexes and waiting implement the result under
\* a lease: every answer has a moment at which it was right, and who fetched
\* had found the lease run out.
THEOREM LeaseIsKept == Spec => KeepsLease
<1>1. Init => Leased!Init /\ FetchNeeded
  BY DEF Init, Leased!Init, FetchNeeded
<1>2. QED
  BY <1>1, FetchStaysNeeded, StepKeepsLease, Invariant, PTL DEF Spec, KeepsLease, Leased!Spec

-----------------------------------------------------------------------------
(***************************************************************************)
(* Reloading, with and without the timer, whatever the operator writes and *)
(* puts back.                                                              *)
(***************************************************************************)

HIDE CacheAssumption
USE ReloadAssumption

\* What was read is what the file has been since the reload began; the
\* remembered checksum is that of the running configuration, unless the file
\* was changed between the two readings.
ReadingsKnown ==
  /\ configChecksum = Nothing <=> loaded = Nothing
  /\ ~raced => configChecksum = loaded
  /\ loop \in {"hash", "decode", "return"} => file \in since
  /\ decoded # Nothing => decoded \in since /\ decoded \notin Bad

\* What a reload that is about to return has found out since it began.
OutcomeTrue ==
  /\ outcome = "ok" /\ decoded = Nothing => LoadedSince(since)
  /\ outcome = "error" => since \cap Bad # {}

\* A reload begins after it was asked for, so that the file has been nothing
\* since then that it has not been since the request was sent.
SentBefore ==
  \A r \in Requests :
    /\ request[r] = "offer" => file \in sinceSent[r]
    /\ request[r] = "wait" => since \subseteq sinceSent[r]

ReloadInv == ReloadTypeOK /\ ReadingsKnown /\ OutcomeTrue /\ SentBefore /\ OnlyWellFormed

-----------------------------------------------------------------------------
LEMMA NoneIsNoVersion == Nothing \notin Versions /\ Nothing \notin Bad
  BY DEF Bad

LEMMA WriteInvariant ==
  ASSUME ReloadInv, NEW v \in Versions, Write(v)
  PROVE  ReloadInv'
<1> USE DEF ReloadInv
<1>1. since \subseteq since' \/ loop = "select"
  BY DEF Write
<1>2. ReloadTypeOK'
  <2>1. writes' \in 0 .. MaxWrites
    BY DEF ReloadTypeOK, Write
  <2>2. since' \in SUBSET Versions /\ sinceSent' \in [Requests -> SUBSET Versions]
    BY DEF ReloadTypeOK, Write
  <2>3. /\ file' \in Versions /\ signalled' = FALSE
        /\ UNCHANGED <<enableAutoReload, hup, loaded, configChecksum, reloadSuccess, raced, loop,
                       cause, hashed, decoded, outcome, request, reply>>
    BY DEF Write, configVars, localVars
  <2> HIDE DEF ReloadInv
  <2>4. ReloadTypeOK
    BY DEF ReloadInv
  <2>5. /\ loop = "decode" => hashed # Nothing
        /\ loop = "return" <=> outcome # Nothing
        /\ decoded # Nothing => outcome = "ok" /\ hashed # Nothing
        /\ loop = "select" <=> cause = Nothing
        /\ \A r \in Requests : request[r] = "wait" <=> cause = r
    BY <2>4 DEF ReloadTypeOK
  <2>6. /\ enableAutoReload \in BOOLEAN /\ hup \in BOOLEAN /\ reloadSuccess \in BOOLEAN
        /\ loaded \in Versions \cup {Nothing} /\ configChecksum \in Versions \cup {Nothing}
        /\ hashed \in Versions \cup {Nothing} /\ decoded \in Versions \cup {Nothing}
        /\ outcome \in {"ok", "error", Nothing} /\ raced \in BOOLEAN /\ loop \in Phases
        /\ cause \in {"start", "hup", "tick", Nothing} \cup Requests
        /\ request \in [Requests -> {"idle", "offer", "wait"}]
        /\ reply \in [Requests -> {"ok", "error", Nothing}]
    BY <2>4 DEF ReloadTypeOK
  <2>7. /\ loop' = "decode" => hashed' # Nothing
        /\ loop' = "return" <=> outcome' # Nothing
        /\ decoded' # Nothing => outcome' = "ok" /\ hashed' # Nothing
        /\ loop' = "select" <=> cause' = Nothing
        /\ \A r \in Requests : request'[r] = "wait" <=> cause' = r
    BY <2>3, <2>5
  <2>8. file' \in Versions /\ signalled' \in BOOLEAN
    BY <2>3
  <2>9. /\ enableAutoReload' \in BOOLEAN /\ hup' \in BOOLEAN /\ reloadSuccess' \in BOOLEAN
        /\ loaded' \in Versions \cup {Nothing} /\ configChecksum' \in Versions \cup {Nothing}
        /\ hashed' \in Versions \cup {Nothing} /\ decoded' \in Versions \cup {Nothing}
        /\ outcome' \in {"ok", "error", Nothing} /\ raced' \in BOOLEAN /\ loop' \in Phases
        /\ cause' \in {"start", "hup", "tick", Nothing} \cup Requests
        /\ request' \in [Requests -> {"idle", "offer", "wait"}]
        /\ reply' \in [Requests -> {"ok", "error", Nothing}]
    <3> HIDE ReloadAssumption
    <3> QED
      BY <2>3, <2>6, Zenon
  <2> HIDE ReloadAssumption
  <2> QED
    BY <2>1, <2>2, <2>7, <2>8, <2>9, Zenon DEF ReloadTypeOK
<1>3. ReadingsKnown'
  BY DEF ReloadTypeOK, Write, configVars, localVars, ReadingsKnown
<1>4. OutcomeTrue'
  BY <1>1 DEF ReloadTypeOK, Write, configVars, localVars, OutcomeTrue, LoadedSince
<1>5. SentBefore'
  <2> SUFFICES ASSUME NEW r \in Requests
               PROVE  /\ request[r] = "offer" => file' \in sinceSent'[r]
                      /\ request[r] = "wait" => since' \subseteq sinceSent'[r]
    BY DEF Write, SentBefore
  <2>1. request[r] # "idle" => sinceSent'[r] = sinceSent[r] \cup {v}
    BY DEF Write
  <2>2. since' \subseteq since \cup {v} /\ file' = v
    BY DEF Write
  <2> QED
    BY <2>1, <2>2 DEF SentBefore
<1>6. OnlyWellFormed'
  BY DEF Write, configVars, OnlyWellFormed
<1> QED
  BY <1>2, <1>3, <1>4, <1>5, <1>6

\* Signals and POSTs, and the three ways in which a reload begins.
LEMMA EventInvariant ==
  ASSUME ReloadInv,
         \/ Signal
         \/ \E r \in Requests : Post(r)
         \/ SelectHup
         \/ \E r \in Requests : SelectRequest(r)
         \/ SelectTick
  PROVE  ReloadInv'
<1> USE DEF ReloadInv, BeginReload, configVars, localVars, requestVars, operatorVars
<1>0. OutcomeTrue'
  <2>1. loop = "select" => outcome = Nothing
    BY DEF ReloadTypeOK
  <2>2. since' = since \/ loop = "select"
    BY DEF Signal, Post, SelectHup, SelectRequest, SelectTick
  <2>3. UNCHANGED <<outcome, decoded, loaded, configChecksum, raced>>
    BY DEF Signal, Post, SelectHup, SelectRequest, SelectTick
  <2>4. Nothing # "ok" /\ Nothing # "error"
    OBVIOUS
  <2>5. CASE loop = "select"
    BY <2>1, <2>3, <2>4, <2>5 DEF OutcomeTrue
  <2>6. CASE since' = since
    BY <2>3, <2>6 DEF OutcomeTrue, LoadedSince
  <2> QED
    BY <2>2, <2>5, <2>6
<1>1. CASE Signal
  BY <1>0, <1>1 DEF Signal, ReloadTypeOK, ReadingsKnown, SentBefore, OnlyWellFormed
<1>2. ASSUME NEW r \in Requests, Post(r)
      PROVE  ReloadInv'
  <2>1. ReloadTypeOK'
    BY <1>2 DEF Post, ReloadTypeOK
  <2>2. SentBefore'
    BY <1>2 DEF Post, ReloadTypeOK, SentBefore
  <2> QED
    BY <1>0, <1>2, <2>1, <2>2 DEF Post, ReadingsKnown, OnlyWellFormed
<1>3. CASE SelectHup
  <2>0. /\ since' = {file} /\ loop' = "hash" /\ loop = "select" /\ cause' = "hup"
        /\ hup' = FALSE
        /\ UNCHANGED <<enableAutoReload, file, writes, signalled, loaded, configChecksum,
                       reloadSuccess, raced, hashed, decoded, outcome, request, reply, sinceSent>>
    BY <1>3 DEF SelectHup
  <2>r. /\ cause = Nothing /\ outcome = Nothing /\ decoded = Nothing
        /\ \A r \in Requests : request[r] # "wait" /\ r # "hup"
    BY <2>0 DEF ReloadTypeOK
  <2>1. ReloadTypeOK'
    BY <2>0, <2>r DEF ReloadTypeOK, Phases
  <2>2. SentBefore'
    BY <1>3 DEF SelectHup, ReloadTypeOK, SentBefore
  <2> QED
    BY <1>0, <1>3, <2>1, <2>2 DEF SelectHup, ReloadTypeOK, ReadingsKnown, OnlyWellFormed
<1>4. ASSUME NEW r \in Requests, SelectRequest(r)
      PROVE  ReloadInv'
  <2>1. /\ request[r] = "offer" /\ cause = Nothing /\ cause' = r /\ r # Nothing
        /\ request' = [request EXCEPT ![r] = "wait"]
        /\ request \in [Requests -> {"idle", "offer", "wait"}]
    BY <1>4 DEF SelectRequest, ReloadTypeOK
  <2>2. request' \in [Requests -> {"idle", "offer", "wait"}]
    BY <2>1
  <2>3. \A q \in Requests : request'[q] = "wait" <=> cause' = q
    BY <2>1 DEF ReloadTypeOK
  <2>4. /\ since' = {file} /\ loop' = "hash" /\ loop = "select"
        /\ UNCHANGED <<enableAutoReload, file, writes, hup, signalled, loaded, configChecksum,
                       reloadSuccess, raced, hashed, decoded, outcome, reply, sinceSent>>
    BY <1>4 DEF SelectRequest
  <2>5. ReloadTypeOK'
    BY <2>1, <2>2, <2>3, <2>4 DEF ReloadTypeOK, Phases
  <2>6. SentBefore'
    BY <2>1, <2>2, <2>3, <2>4 DEF ReloadTypeOK, SentBefore
  <2> QED
    BY <1>0, <2>4, <2>5, <2>6 DEF ReloadTypeOK, ReadingsKnown, OnlyWellFormed
<1>5. CASE SelectTick
  <2>0. /\ since' = {file} /\ loop' = "hash" /\ loop = "select" /\ cause' = "tick"
        /\ hup' = hup
        /\ UNCHANGED <<enableAutoReload, file, writes, signalled, loaded, configChecksum,
                       reloadSuccess, raced, hashed, decoded, outcome, request, reply, sinceSent>>
    BY <1>5 DEF SelectTick
  <2>r. /\ cause = Nothing /\ outcome = Nothing /\ decoded = Nothing
        /\ \A r \in Requests : request[r] # "wait" /\ r # "tick"
    BY <2>0 DEF ReloadTypeOK
  <2>1. ReloadTypeOK'
    BY <2>0, <2>r DEF ReloadTypeOK, Phases
  <2>2. SentBefore'
    BY <1>5 DEF SelectTick, ReloadTypeOK, SentBefore
  <2> QED
    BY <1>0, <1>5, <2>1, <2>2 DEF SelectTick, ReloadTypeOK, ReadingsKnown, OnlyWellFormed
<1> QED
  BY <1>1, <1>2, <1>3, <1>4, <1>5

\* A reload that reads the file.
LEMMA ReadInvariant ==
  ASSUME ReloadInv, HashFails \/ NoChange \/ HashDiffers \/ DecodeFails \/ DecodeSucceeds
  PROVE  ReloadInv'
<1> USE DEF ReloadInv, operatorVars, configVars, requestVars,
            HashFails, NoChange, HashDiffers, DecodeFails, DecodeSucceeds
<1>0. Nothing \notin Versions /\ Unreadable \subseteq Bad /\ file \in since
  BY NoneIsNoVersion DEF ReadingsKnown, Bad
<1>1. ReloadTypeOK'
  BY <1>0 DEF ReloadTypeOK, Phases
<1>2. ReadingsKnown'
  BY <1>0 DEF ReloadTypeOK, ReadingsKnown
<1>3. OutcomeTrue'
  <2>1. loop # "return" => outcome = Nothing /\ decoded = Nothing
    BY DEF ReloadTypeOK
  <2>2. Nothing # "ok" /\ Nothing # "error"
    OBVIOUS
  <2>3. UNCHANGED <<loaded, configChecksum, raced, since>>
    OBVIOUS
  <2>4. CASE NoChange
    <3>1. file \in Versions /\ configChecksum \in since
      BY <1>0, <2>4 DEF ReloadTypeOK
    <3>2. loaded # Nothing /\ (loaded = configChecksum \/ raced)
      BY <1>0, <2>4, <3>1 DEF ReloadTypeOK, ReadingsKnown
    <3>3. LoadedSince(since)
      BY <3>1, <3>2 DEF LoadedSince
    <3> QED
      BY <2>3, <2>4, <3>3 DEF OutcomeTrue, LoadedSince
  <2>5. CASE HashFails \/ DecodeFails
    BY <1>0, <2>1, <2>2, <2>3, <2>5 DEF OutcomeTrue
  <2>6. CASE HashDiffers
    <3>1. outcome' = Nothing
      BY <2>1, <2>6
    <3> QED
      BY <2>2, <3>1 DEF OutcomeTrue
  <2>7. CASE DecodeSucceeds
    <3>1. outcome' = "ok" /\ decoded' # Nothing
      BY <1>0, <2>7 DEF ReloadTypeOK
    <3> QED
      BY <3>1 DEF OutcomeTrue
  <2> QED
    BY <2>4, <2>5, <2>6, <2>7
<1>4. SentBefore'
  BY DEF SentBefore
<1>5. OnlyWellFormed'
  BY DEF OnlyWellFormed
<1> QED
  BY <1>1, <1>2, <1>3, <1>4, <1>5

\* What a reload that returns leaves in force.
LEMMA ReloadLeaves ==
  ASSUME ReloadInv, Finish
  PROVE  /\ outcome \in {"ok", "error"}
         /\ loaded' \in Versions \cup {Nothing} /\ loaded' \notin Bad
         /\ configChecksum' \in Versions \cup {Nothing} /\ raced' \in BOOLEAN
         /\ configChecksum' = Nothing <=> loaded' = Nothing
         /\ ~raced' => configChecksum' = loaded'
         /\ outcome = "ok" => \A W : since \subseteq W => LoadedSince(W)'
<1> USE DEF ReloadInv
<1>0. Nothing \notin Bad /\ Nothing \notin Versions
  BY NoneIsNoVersion
<1>1. outcome \in {"ok", "error"}
  BY DEF Finish, ReloadTypeOK
<1>2. CASE decoded = Nothing
  <2>1. UNCHANGED <<loaded, configChecksum, raced>>
    BY <1>2 DEF Finish, Install
  <2>2. outcome = "ok" => LoadedSince(since)
    BY <1>2 DEF OutcomeTrue
  <2>3. outcome = "ok" => \A W : since \subseteq W => LoadedSince(W)'
    BY <2>1, <2>2 DEF LoadedSince
  <2> QED
    BY <1>0, <1>1, <2>1, <2>3 DEF ReloadTypeOK, ReadingsKnown, OnlyWellFormed
<1>3. CASE decoded # Nothing
  <2>1. loaded' = decoded /\ configChecksum' = hashed /\ raced' = (decoded # hashed)
    BY <1>3 DEF Finish, Install
  <2>2. decoded \in since /\ decoded \notin Bad /\ decoded \in Versions /\ hashed \in Versions
    BY <1>0, <1>3 DEF ReloadTypeOK, ReadingsKnown
  <2>3. \A W : since \subseteq W => LoadedSince(W)'
    BY <1>0, <2>1, <2>2 DEF LoadedSince
  <2> QED
    BY <1>0, <1>1, <2>1, <2>2, <2>3
<1> QED
  BY <1>2, <1>3

LEMMA FinishInvariant ==
  ASSUME ReloadInv, Finish
  PROVE  ReloadInv'
<1> USE DEF ReloadInv, operatorVars
<1>0. /\ outcome \in {"ok", "error"}
      /\ loaded' \in Versions \cup {Nothing} /\ loaded' \notin Bad
      /\ configChecksum' \in Versions \cup {Nothing} /\ raced' \in BOOLEAN
      /\ configChecksum' = Nothing <=> loaded' = Nothing
      /\ ~raced' => configChecksum' = loaded'
  BY ReloadLeaves
<1>1. /\ since' = {} /\ loop' \in {"select", "exit"}
      /\ hashed' = Nothing /\ decoded' = Nothing /\ outcome' = Nothing
  BY <1>0 DEF Finish
<1>2. ReloadTypeOK'
  <2>1. /\ request' \in [Requests -> {"idle", "offer", "wait"}]
        /\ reply' \in [Requests -> {"ok", "error", Nothing}]
        /\ sinceSent' \in [Requests -> SUBSET Versions]
    BY <1>0 DEF Finish, Answered, requestVars, ReloadTypeOK
  <2>2. \A r \in Requests : request'[r] = "wait" <=> cause' = r
    BY <1>0 DEF Finish, Answered, requestVars, ReloadTypeOK
  <2>3. /\ loop' = "select" <=> cause' = Nothing
        /\ cause' \in {"start", Nothing}
    BY <1>0 DEF Finish, ReloadTypeOK
  <2>4. /\ reloadSuccess' \in BOOLEAN /\ file' = file /\ writes' = writes /\ hup' = hup
        /\ signalled' = signalled /\ enableAutoReload' = enableAutoReload
    BY DEF Finish
  <2> QED
    BY <1>0, <1>1, <2>1, <2>2, <2>3, <2>4 DEF ReloadTypeOK, Phases
<1>3. ReadingsKnown' /\ OutcomeTrue'
  BY <1>0, <1>1 DEF ReadingsKnown, OutcomeTrue
<1>4. SentBefore'
  <2> SUFFICES ASSUME NEW r \in Requests
               PROVE  /\ request'[r] = "offer" => file' \in sinceSent'[r]
                      /\ request'[r] = "wait" => since' \subseteq sinceSent'[r]
    BY DEF SentBefore
  <2>1. CASE cause = r
    BY <1>1, <2>1 DEF Finish, Answered, requestVars, ReloadTypeOK
  <2>2. CASE cause # r
    <3>1. request'[r] = request[r] /\ sinceSent'[r] = sinceSent[r] /\ file' = file
      BY <2>2 DEF Finish, Answered, requestVars, ReloadTypeOK
    <3> QED
      BY <1>1, <3>1 DEF SentBefore
  <2> QED
    BY <2>1, <2>2
<1>5. OnlyWellFormed'
  BY <1>0 DEF OnlyWellFormed
<1> QED
  BY <1>2, <1>3, <1>4, <1>5

LEMMA ReloadStepInvariant ==
  ASSUME ReloadInv, [ReloadNext]_reloadVars
  PROVE  ReloadInv'
<1>1. CASE UNCHANGED reloadVars
  BY <1>1 DEF reloadVars, operatorVars, localVars, configVars, requestVars, ReloadInv, ReloadTypeOK,
              ReadingsKnown, OutcomeTrue, LoadedSince, SentBefore, OnlyWellFormed
<1>2. CASE Reload
  BY <1>2, ReadInvariant, FinishInvariant DEF Reload
<1>3. ASSUME NEW v \in Versions, Write(v)
      PROVE  ReloadInv'
  BY <1>3, WriteInvariant
<1>4. CASE \/ Signal
           \/ \E r \in Requests : Post(r)
           \/ SelectHup
           \/ \E r \in Requests : SelectRequest(r)
           \/ SelectTick
  BY <1>4, EventInvariant
<1> QED
  BY <1>1, <1>2, <1>3, <1>4 DEF ReloadNext

THEOREM ReloadInvariant == ReloadSpec => []ReloadInv
<1>1. ReloadInit => ReloadInv
  <2> SUFFICES ASSUME ReloadInit
               PROVE  ReloadInv
    OBVIOUS
  <2>1. Nothing \notin Bad
    BY NoneIsNoVersion
  <2>2. writes \in 0 .. MaxWrites
    BY DEF ReloadInit
  <2>3. ReloadTypeOK
    BY <2>2 DEF ReloadInit, ReloadTypeOK, Phases
  <2> QED
    BY <2>1, <2>3 DEF ReloadInit, ReloadInv, ReadingsKnown, OutcomeTrue, SentBefore, OnlyWellFormed
<1>2. ReloadInv /\ [ReloadNext]_reloadVars => ReloadInv'
  BY ReloadStepInvariant
<1> QED
  BY <1>1, <1>2, PTL DEF ReloadSpec

\* Only the end of a reload answers a request or ends the return.
LEMMA OnlyFinishEnds ==
  ASSUME ReloadInv, [ReloadNext]_reloadVars, ~Finish
  PROVE  /\ loop = "return" => loop' = "return"
         /\ \A r \in Requests : request[r] = "wait" => request'[r] = "wait"
<1> USE DEF ReloadInv, reloadVars, operatorVars, localVars, configVars, requestVars, BeginReload
<1>1. CASE UNCHANGED reloadVars
  BY <1>1
<1>2. CASE Reload
  BY <1>2 DEF Reload, HashFails, NoChange, HashDiffers, DecodeFails, DecodeSucceeds
<1>3. CASE (\E v \in Versions : Write(v)) \/ Signal \/ SelectHup \/ SelectTick
  BY <1>3 DEF Write, Signal, SelectHup, SelectTick
<1>4. ASSUME NEW q \in Requests, Post(q) \/ SelectRequest(q)
      PROVE  /\ loop = "return" => loop' = "return"
             /\ \A r \in Requests : request[r] = "wait" => request'[r] = "wait"
  BY <1>4 DEF Post, SelectRequest, ReloadTypeOK
<1> QED
  BY <1>1, <1>2, <1>3, <1>4 DEF ReloadNext

\* What a reload that returns reports is true of the time since it began, and
\* so of every longer time.
LEMMA ReturnTruthful ==
  ASSUME ReloadInv, Finish, NEW W, since \subseteq W
  PROVE  /\ reloadSuccess' = (outcome = "ok")
         /\ IF outcome = "ok" THEN LoadedSince(W)' ELSE W \cap Bad # {}
<1>1. outcome = "ok" => LoadedSince(W)'
  BY ReloadLeaves
<1>2. outcome = "error" => W \cap Bad # {}
  BY DEF ReloadInv, OutcomeTrue
<1>3. outcome \in {"ok", "error"}
  BY ReloadLeaves
<1> QED
  BY <1>1, <1>2, <1>3 DEF Finish

-----------------------------------------------------------------------------
(* The results.                                                            *)

\* Every variable keeps its type, and a request waits exactly while its
\* reload is running.
THEOREM ReloadTypeCorrect == ReloadSpec => []ReloadTypeOK
<1>1. ReloadInv => ReloadTypeOK
  BY DEF ReloadInv
<1> QED
  BY <1>1, ReloadInvariant, PTL

\* A file that is not well-formed is never put into force.
THEOREM OnlyWellFormedLoaded == ReloadSpec => []OnlyWellFormed
<1>1. ReloadInv => OnlyWellFormed
  BY DEF ReloadInv
<1> QED
  BY <1>1, ReloadInvariant, PTL

\* What /-/reload answers holds, for any number of requests at one time and
\* whatever is written into the file and put back: a success means a
\* configuration that the file has been since, or, if the file was changed
\* between the two readings of the configuration in force, one whose checksum
\* the file has had since.
THEOREM AnswersAreTruthful == ReloadSpec => AnswersTruthful
<1>1. ReloadInv /\ [ReloadNext]_reloadVars => [TruthfulAnswer]_reloadVars
  <2> SUFFICES ASSUME ReloadInv, [ReloadNext]_reloadVars,
                      NEW r \in Requests, NEW W \in SUBSET Versions,
                      request[r] = "wait", request'[r] = "idle", W = sinceSent[r]
               PROVE  IF reply'[r] = "ok" THEN LoadedSince(W)' ELSE W \cap Bad # {}
    BY DEF TruthfulAnswer
  <2>1. Finish
    BY OnlyFinishEnds
  <2>2. since \subseteq W
    BY DEF ReloadInv, SentBefore
  <2>3. reply'[r] = outcome
    BY <2>1 DEF ReloadInv, ReloadTypeOK, Finish, Answered
  <2> QED
    BY <2>1, <2>2, <2>3, ReturnTruthful
<1> QED
  BY <1>1, ReloadInvariant, PTL DEF ReloadSpec, AnswersTruthful

\* The gauge tells how the last reload ended, in the same sense, also when the
\* reload was skipped.
THEOREM GaugeIsTruthful == ReloadSpec => GaugeTruthful
<1>1. ReloadInv /\ [ReloadNext]_reloadVars => [TruthfulGauge]_reloadVars
  <2> SUFFICES ASSUME ReloadInv, [ReloadNext]_reloadVars, NEW W \in SUBSET Versions,
                      loop = "return", loop' # "return", W = since
               PROVE  IF reloadSuccess' THEN LoadedSince(W)' ELSE W \cap Bad # {}
    BY DEF TruthfulGauge
  <2>1. Finish
    BY OnlyFinishEnds
  <2> QED
    BY <2>1, ReturnTruthful
<1> QED
  BY <1>1, ReloadInvariant, PTL DEF ReloadSpec, GaugeTruthful
=============================================================================
