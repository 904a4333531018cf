--------------------------- MODULE CounterCache ---------------------------
(***************************************************************************)
(* The caches of the two billing probers: justMySocksCache, one per URL    *)
(* file (prober/justmysocks.go), and tencentBillingCache, one for the      *)
(* process (prober/tencent_billing.go). Their refresh methods are the same *)
(* program: a probe notes the time, takes the cache's mutex, and either    *)
(* returns the cached snapshot or calls the API while it holds the mutex.  *)
(*                                                                         *)
(* Time is discrete. A goroutine that can run does so before the clock     *)
(* moves, and a request ends no later than the deadline of its context;    *)
(* both are guards of Tick. A fetch may fail at any moment: the API, the   *)
(* URL file or the credentials are bad, the scraper hung up, or the probe  *)
(* ran out of time.                                                        *)
(***************************************************************************)
EXTENDS Integers

CONSTANTS
  Probes,         \* requests for /probe that can be in progress at one time
  Modules,        \* configured modules with one of the two probers
  Caches,         \* URL files of justMySocksCaches, or the one global cache
  CacheOf,        \* the cache a module uses
  RefreshInterval,\* refresh_interval of a module
  Retry,          \* ..FailureRetryInterval, five minutes
  Timeouts,       \* the timeouts a probe may be given
  Counters,       \* what the API can return
  None,           \* no counter, no holder, no answer, the zero time.Time
  MaxTime         \* bound: the clock stops here

ASSUME CacheAssumption ==
  /\ CacheOf \in [Modules -> Caches]
  /\ RefreshInterval \in [Modules -> Nat \ {0}]   \* config.go rejects <= 0
  /\ Retry \in Nat \ {0}
  /\ Timeouts \subseteq Nat
  /\ MaxTime \in Nat
  /\ None \notin Nat /\ None \notin Probes /\ None \notin Modules

VARIABLES
  clock,
  pc,            \* pc[p]: "idle", "lock" (waits for c.mu) or "fetch"
  module,        \* module[p]: the module p probes
  now,           \* now[p]: the argument of refresh, taken before the lock
  deadline,      \* deadline[p]: when the context of p expires
  startedAt,     \* startedAt[p]: when the fetch of p began
  mu,            \* mu[c]: the probe that holds c.mu
  snapshot,      \* snapshot[c]: c.snapshot
  nextRefresh,   \* nextRefresh[c]: c.nextRefresh
  served,        \* history: served[c], the last answer given from c
  endedAt        \* history: endedAt[c], when the last fetch for c ended

vars == <<clock, pc, module, now, deadline, startedAt, mu, snapshot,
          nextRefresh, served, endedAt>>

probeVars == <<module, now, deadline, startedAt>>

Time == Nat \cup {None}

Snapshot == [counter: Counters \cup {None}, hasCounter: BOOLEAN,
             lastAttemptSuccess: BOOLEAN, lastAttempt: Time, lastSuccess: Time,
             lastScrapeDuration: Nat]

\* An answer: the snapshot returned, when and for whom its probe had started.
Answer == [snapshot: Snapshot, now: Nat, module: Modules]

Smaller(a, b) == IF a < b THEN a ELSE b

-----------------------------------------------------------------------------
Init ==
  /\ clock = 0
  /\ pc = [p \in Probes |-> "idle"]
  /\ module = [p \in Probes |-> None]
  /\ now = [p \in Probes |-> 0]
  /\ deadline = [p \in Probes |-> 0]
  /\ startedAt = [p \in Probes |-> 0]
  /\ mu = [c \in Caches |-> None]
  /\ snapshot = [c \in Caches |->
                   [counter |-> None, hasCounter |-> FALSE,
                    lastAttemptSuccess |-> FALSE, lastAttempt |-> None,
                    lastSuccess |-> None, lastScrapeDuration |-> 0]]
  /\ nextRefresh = [c \in Caches |-> None]
  /\ served = [c \in Caches |-> None]
  /\ endedAt = [c \in Caches |-> None]

cache(p) == CacheOf[module[p]]

\* ProbeJustMySocks / ProbeTencentBilling: time.Now() is taken here, before
\* refresh waits for the mutex.
Start(p, m, t) ==
  /\ pc[p] = "idle"
  /\ clock < MaxTime
  /\ pc' = [pc EXCEPT ![p] = "lock"]
  /\ module' = [module EXCEPT ![p] = m]
  /\ now' = [now EXCEPT ![p] = clock]
  /\ deadline' = [deadline EXCEPT ![p] = clock + t]
  /\ UNCHANGED <<clock, startedAt, mu, snapshot, nextRefresh, served, endedAt>>

\* Faulty variant: a cached snapshot is good for ever.
FreshForEver(p) == nextRefresh[cache(p)] # None

\* The condition under which refresh returns the cached snapshot.
Fresh(p) == nextRefresh[cache(p)] # None /\ now[p] < nextRefresh[cache(p)]

\* The answer of p and its return: the local variables of p are gone.
Return(p, s) ==
  /\ served' = [served EXCEPT ![cache(p)] =
                  [snapshot |-> s, now |-> now[p], module |-> module[p]]]
  /\ pc' = [pc EXCEPT ![p] = "idle"]
  /\ module' = [module EXCEPT ![p] = None]
  /\ now' = [now EXCEPT ![p] = 0]
  /\ deadline' = [deadline EXCEPT ![p] = 0]
  /\ startedAt' = [startedAt EXCEPT ![p] = 0]

\* refresh takes the free mutex, finds the cache fresh and returns.
ServeCached(p) ==
  /\ pc[p] = "lock"
  /\ mu[cache(p)] = None
  /\ Fresh(p)
  /\ Return(p, snapshot[cache(p)])
  /\ UNCHANGED <<clock, mu, snapshot, nextRefresh, endedAt>>

\* refresh takes the free mutex and calls the API with the mutex held.
BeginFetch(p) ==
  /\ pc[p] = "lock"
  /\ mu[cache(p)] = None
  /\ ~Fresh(p)
  /\ mu' = [mu EXCEPT ![cache(p)] = p]
  /\ startedAt' = [startedAt EXCEPT ![p] = clock]
  /\ pc' = [pc EXCEPT ![p] = "fetch"]
  /\ UNCHANGED <<clock, module, now, deadline, snapshot, nextRefresh, served, endedAt>>

\* Faulty variant: the operands the wrong way round.
durationSwapped(p) == startedAt[p] - clock

duration(p) == clock - startedAt[p]

\* Faulty variant: the attempt is dated by its start.
finishedAtStart(p) == now[p]

\* now.Add(duration): the time in the books, not the time on the clock.
finishedAt(p) == now[p] + duration(p)

EndFetch(p, s, next) ==
  /\ snapshot' = [snapshot EXCEPT ![cache(p)] = s]
  /\ nextRefresh' = [nextRefresh EXCEPT ![cache(p)] = next]
  /\ mu' = [mu EXCEPT ![cache(p)] = None]
  /\ endedAt' = [endedAt EXCEPT ![cache(p)] = clock]
  /\ Return(p, s)
  /\ UNCHANGED clock

FetchSucceeds(p, counter) ==
  /\ pc[p] = "fetch"
  /\ clock <= deadline[p]
  /\ EndFetch(p,
       [counter |-> counter, hasCounter |-> TRUE, lastAttemptSuccess |-> TRUE,
        lastAttempt |-> finishedAt(p), lastSuccess |-> finishedAt(p),
        lastScrapeDuration |-> duration(p)],
       finishedAt(p) + RefreshInterval[module[p]])

\* Faulty variant: the next probe tries again at once.
FetchFailsRetryNow(p) ==
  /\ pc[p] = "fetch"
  /\ EndFetch(p,
       [snapshot[cache(p)] EXCEPT
          !.lastAttemptSuccess = FALSE, !.lastAttempt = finishedAt(p),
          !.lastScrapeDuration = duration(p)],
       finishedAt(p))

\* Faulty variant: a failure forgets the last successful values.
FetchFailsForgetting(p) ==
  /\ pc[p] = "fetch"
  /\ EndFetch(p,
       [counter |-> None, hasCounter |-> FALSE, lastAttemptSuccess |-> FALSE,
        lastAttempt |-> finishedAt(p), lastSuccess |-> None,
        lastScrapeDuration |-> duration(p)],
       finishedAt(p) + Smaller(RefreshInterval[module[p]], Retry))

\* Faulty variant: the error path returns without unlocking.
FetchFailsLocked(p) ==
  /\ pc[p] = "fetch"
  /\ snapshot' = [snapshot EXCEPT ![cache(p)].lastAttemptSuccess = FALSE]
  /\ Return(p, snapshot'[cache(p)])
  /\ UNCHANGED <<clock, mu, nextRefresh, endedAt>>

FetchFails(p) ==
  /\ pc[p] = "fetch"
  /\ EndFetch(p,
       LET old == snapshot[cache(p)] IN
         [counter |-> old.counter, hasCounter |-> old.hasCounter,
          lastAttemptSuccess |-> FALSE, lastAttempt |-> finishedAt(p),
          lastSuccess |-> old.lastSuccess, lastScrapeDuration |-> duration(p)],
       finishedAt(p) + Smaller(RefreshInterval[module[p]], Retry))

\* Time passes when no probe can take a free mutex and no request is overdue.
Tick ==
  /\ clock < MaxTime
  /\ \A p \in Probes : pc[p] = "lock" => mu[cache(p)] # None
  /\ \A p \in Probes : pc[p] = "fetch" => clock < deadline[p]
  /\ clock' = clock + 1
  /\ UNCHANGED <<pc, probeVars, mu, snapshot, nextRefresh, served, endedAt>>

Next ==
  \/ \E p \in Probes, m \in Modules, t \in Timeouts : Start(p, m, t)
  \/ \E p \in Probes : ServeCached(p)
  \/ \E p \in Probes : BeginFetch(p)
  \/ \E p \in Probes, c \in Counters : FetchSucceeds(p, c)
  \/ \E p \in Probes : FetchFails(p)
  \/ Tick

Spec == Init /\ [][Next]_vars

\* A request ends (net/http, under the context's deadline), and a goroutine
\* that waits for a sync.Mutex which is released again and again gets it (the
\* mutex hands over in order after a millisecond).
Fairness ==
  /\ \A p \in Probes : WF_vars(FetchFails(p) \/ \E c \in Counters : FetchSucceeds(p, c))
  /\ \A p \in Probes : SF_vars(ServeCached(p) \/ BeginFetch(p))

FairSpec == Spec /\ Fairness

-----------------------------------------------------------------------------
(* Properties.                                                             *)

\* The types of the variables.
TypeOK ==
  /\ clock \in Nat
  /\ pc \in [Probes -> {"idle", "lock", "fetch"}]
  /\ module \in [Probes -> Modules \cup {None}]
  /\ now \in [Probes -> Nat]
  /\ deadline \in [Probes -> Nat]
  /\ startedAt \in [Probes -> Nat]
  /\ mu \in [Caches -> Probes \cup {None}]
  /\ snapshot \in [Caches -> Snapshot]
  /\ nextRefresh \in [Caches -> Time]
  /\ served \in [Caches -> Answer \cup {None}]
  /\ endedAt \in [Caches -> Time]
  /\ \A p \in Probes : pc[p] # "idle" => module[p] \in Modules

\* The modules that use cache c.
Sharing(c) == {m \in Modules : CacheOf[m] = c}

\* refresh dates a fetch by the start of its probe plus the duration of the
\* fetch, which leaves out the wait for the mutex. The date is right all the
\* same: a probe that had to wait for another's fetch never fetches itself
\* (justmysocks.go:79-99, tencent_billing.go:100-131).
TimestampsTrue == \A c \in Caches : snapshot[c].lastAttempt = endedAt[c]

\* The API is spared: however many probes and modules share a cache, a fetch
\* begins only when the shortest interval that may apply has passed since the
\* last fetch ended, on the clock and not only in the books.
FetchesSpaced ==
  [][\A c \in Caches :
       mu'[c] # mu[c] /\ mu'[c] # None /\ endedAt[c] # None
         => \E m \in Sharing(c) :
              clock >= endedAt[c] + Smaller(RefreshInterval[m], Retry)]_vars

\* Answers from one cache never go back: a later one has seen at least the
\* attempts and the successes of an earlier one, and a failed refresh retains
\* the last successful values (JUSTMYSOCKS.md:38-40).
AnswersNeverGoBack ==
  [][\A c \in Caches :
       served[c] # None =>
         LET old == served[c].snapshot
             new == served'[c].snapshot
         IN  /\ new.lastAttempt >= old.lastAttempt
             /\ old.hasCounter => new.hasCounter /\ new.lastSuccess >= old.lastSuccess
             /\ new.hasCounter /\ ~new.lastAttemptSuccess
                  => old.hasCounter /\ new.counter = old.counter]_vars

\* A result older than the probe it answers is still in force: within the
\* longest interval of the modules that share the cache, and after a failure
\* within five minutes.
InForce(answer, interval) ==
  \/ answer.snapshot.lastAttempt >= answer.now
  \/ answer.now - answer.snapshot.lastAttempt <
       IF answer.snapshot.lastAttemptSuccess THEN interval ELSE Smaller(interval, Retry)

AnswersInForce ==
  \A c \in Caches :
    served[c] # None => \E m \in Sharing(c) : InForce(served[c], RefreshInterval[m])

\* With all its waiting a cache behaves like a result under a lease: each probe
\* is answered at one moment, from a result whose lease had not run out when it
\* started, or from what it learnt itself after the lease had run out, however
\* long it and others waited for the mutex (justmysocks.go:87-118).
Leased == INSTANCE LeasedResult WITH lease <- nextRefresh

KeepsLease == Leased!Spec

\* Every probe is answered: the mutex held over a request starves nobody.
EveryProbeAnswered == \A p \in Probes : pc[p] = "lock" ~> pc[p] = "idle"

=============================================================================
