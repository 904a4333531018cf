------------------------ MODULE ResultHistoryProofs ------------------------
(***************************************************************************)
(* Proofs about the probe history, for every --history.limit, every set of *)
(* dashboards and any number of results.                                   *)
(***************************************************************************)
EXTENDS ResultHistory, TLAPS, SequenceTheorems, FiniteSetTheorems

USE HistoryAssumption

\* An element added at the end and one dropped at the front: every position
\* of the result is known.
LEMMA ShiftedWindow ==
  ASSUME NEW S, NEW s \in Seq(S), NEW x \in S
  PROVE  /\ Append(s, x) \in Seq(S)
         /\ Len(Append(s, x)) = Len(s) + 1
         /\ \A i \in 1 .. Len(s) : Append(s, x)[i] = s[i]
         /\ Append(s, x)[Len(s) + 1] = x
         /\ Tail(Append(s, x)) \in Seq(S)
         /\ Len(Tail(Append(s, x))) = Len(s)
         /\ \A i \in 1 .. Len(s) : Tail(Append(s, x))[i] = Append(s, x)[i + 1]
  OBVIOUS

-----------------------------------------------------------------------------
(* The inductive invariant.                                                *)

\* IDs number the results in the order of Add.
LogNumbered ==
  /\ Len(log) = nextID
  /\ \A i \in 1 .. Len(log) : log[i].ID = i - 1

\* The preserved slice holds failures that have left `results`, in order.
PreservedOrdered ==
  /\ Len(preservedFailedResults) <= MaxResults
  /\ \A i \in 1 .. Len(preservedFailedResults) :
       /\ preservedFailedResults[i].ID < Len(log) - Len(results)
       /\ preservedFailedResults[i] = log[preservedFailedResults[i].ID + 1]
  /\ \A i, j \in 1 .. Len(preservedFailedResults) :
       i < j => preservedFailedResults[i].ID < preservedFailedResults[j].ID

\* The reason why List never writes into a page: a slice that preserves
\* failures has less spare capacity than MaxResults, and once something has
\* expired `results` is that long.
SpareCapacity ==
  IF preservedFailedResults = <<>>
  THEN preservedCap = 0
  ELSE /\ Len(preservedFailedResults) <= preservedCap
       /\ preservedCap < Len(preservedFailedResults) + MaxResults

\* No page lives in the array of preservedFailedResults.
ViewsPrivate ==
  \A d \in Dashboards :
    /\ view[d].shared => view[d].cells = <<>>
    /\ view[d].cells = snapshot[d]
    /\ unread[d] <= Len(view[d].cells)

IInv ==
  /\ TypeOK
  /\ LogNumbered
  /\ RecentAreLatest
  /\ PreservedOrdered
  /\ NewestFailuresKept
  /\ SpareCapacity
  /\ ViewsPrivate

-----------------------------------------------------------------------------
(* Overwriting and detaching leave private pages alone.                    *)

LEMMA OverwrittenPrivate ==
  ASSUME TypeOK, ViewsPrivate, NEW from \in Nat, NEW s
  PROVE  Overwritten(from, s) = view
<1>1. ASSUME NEW d \in Dashboards
      PROVE  Overwritten(from, s)[d] = view[d]
  <2>1. view[d] \in View
    BY DEF TypeOK
  <2>2. CASE view[d].shared
    <3>1. view[d].cells = <<>>
      BY <2>2 DEF ViewsPrivate
    <3>2. view[d] = [shared |-> TRUE, cells |-> <<>>]
      BY <2>1, <2>2, <3>1 DEF View
    <3>3. Overwritten(from, s)[d].cells = [i \in 1 .. 0 |->
                  IF i \in from .. (from + Len(s) - 1)
                  THEN s[i - from + 1] ELSE view[d].cells[i]]
      BY <2>2, <3>1 DEF Overwritten
    <3>4. Overwritten(from, s)[d].cells = <<>>
      BY <3>3
    <3> QED
      BY <2>2, <3>2, <3>4 DEF Overwritten
  <2> QED
    BY <2>2 DEF Overwritten
<1>2. view = [d \in Dashboards |-> view[d]]
  BY DEF TypeOK
<1> QED
  BY <1>1, <1>2 DEF Overwritten

LEMMA DetachedPrivate ==
  ASSUME TypeOK, ViewsPrivate
  PROVE  /\ Detached(view) \in [Dashboards -> View]
         /\ \A d \in Dashboards : /\ Detached(view)[d].cells = view[d].cells
                                  /\ ~Detached(view)[d].shared
  BY DEF TypeOK, View, Detached

-----------------------------------------------------------------------------
(* Add.                                                                    *)

\* What Add does to the log and to the window, whatever becomes of the result
\* that leaves it: the new window is aligned again, and the result that left,
\* if one did, is the one at the end of the expired part of the log.
LEMMA AddWindow ==
  ASSUME IInv, NEW m \in Modules, NEW t \in Targets, NEW s \in BOOLEAN, Add(m, t, s),
         NEW added, added = Append(results, NewResult(m, t, s))
  PROVE  /\ log' \in Seq(Result) /\ results' \in Seq(Result) /\ nextID' \in Nat
         /\ Len(log') = Len(log) + 1
         /\ \A i \in 1 .. Len(log) : log'[i] = log[i]
         /\ LogNumbered'
         /\ RecentAreLatest'
         /\ Len(added) > MaxResults =>
              /\ Len(results) = MaxResults /\ Len(results') = MaxResults
              /\ added[1] \in Result
              /\ added[1].ID = Len(log) - Len(results)
              /\ added[1] = log'[Len(log) - Len(results) + 1]
         /\ Len(added) <= MaxResults =>
              /\ Len(results') = Len(results) + 1 /\ Len(log) = Len(results)
<1> DEFINE r == NewResult(m, t, s)
<1> USE DEF IInv
<1>1. r \in Result /\ r.ID = nextID /\ nextID \in Nat /\ nextID' = nextID + 1
  BY DEF NewResult, Result, TypeOK, Add
<1>2. log \in Seq(Result) /\ results \in Seq(Result) /\ Len(log) \in Nat /\ Len(results) \in Nat
  BY DEF TypeOK
<1>3. log' = Append(log, r)
  BY DEF Add
<1>4. /\ log' \in Seq(Result) /\ Len(log') = Len(log) + 1
      /\ \A i \in 1 .. Len(log) : log'[i] = log[i]
      /\ log'[Len(log) + 1] = r
  BY <1>1, <1>2, <1>3, ShiftedWindow
<1>5. LogNumbered'
  <2>1. Len(log) = nextID /\ \A i \in 1 .. Len(log) : log[i].ID = i - 1
    BY DEF LogNumbered
  <2>2. ASSUME NEW i \in 1 .. Len(log') PROVE log'[i].ID = i - 1
    <3>1. CASE i \in 1 .. Len(log)
      BY <3>1, <2>1, <1>4
    <3>2. CASE i = Len(log) + 1
      BY <3>2, <2>1, <1>1, <1>2, <1>4
    <3> QED
      BY <3>1, <3>2, <1>2, <1>4
  <2>3. Len(log') = nextID'
    BY <2>1, <1>1, <1>2, <1>4
  <2> QED
    BY <2>2, <2>3 DEF LogNumbered
<1>6. /\ added \in Seq(Result) /\ Len(added) = Len(results) + 1
      /\ \A i \in 1 .. Len(results) : added[i] = results[i]
      /\ added[Len(results) + 1] = r
      /\ Tail(added) \in Seq(Result) /\ Len(Tail(added)) = Len(results)
      /\ \A i \in 1 .. Len(results) : Tail(added)[i] = added[i + 1]
  BY <1>1, <1>2, ShiftedWindow
<1>7. \A i \in 1 .. Len(added) : /\ Len(log) - Len(results) + i \in 1 .. Len(log')
                                 /\ added[i] = log'[Len(log) - Len(results) + i]
  <2> SUFFICES ASSUME NEW i \in 1 .. Len(added)
               PROVE  /\ Len(log) - Len(results) + i \in 1 .. Len(log')
                      /\ added[i] = log'[Len(log) - Len(results) + i]
    OBVIOUS
  <2>1. CASE i \in 1 .. Len(results)
    <3>1. results[i] = log[Len(log) - Len(results) + i]
      BY <2>1 DEF RecentAreLatest
    <3>2. Len(log) - Len(results) + i \in 1 .. Len(log)
      BY <2>1, <1>2 DEF RecentAreLatest
    <3> QED
      BY <3>1, <3>2, <2>1, <1>4, <1>6
  <2>2. CASE i = Len(results) + 1
    BY <2>2, <1>2, <1>4, <1>6
  <2> QED
    BY <2>1, <2>2, <1>2, <1>6
<1>8. CASE Len(added) > MaxResults
  <2>1. results' = Tail(added) /\ Len(results) = MaxResults
    BY <1>8, <1>2, <1>6 DEF Add, RecentAreLatest
  <2>2. RecentAreLatest'
    <3>1. Len(results') = MaxResults /\ Len(log') >= MaxResults
      BY <2>1, <1>2, <1>4, <1>6 DEF RecentAreLatest
    <3>2. ASSUME NEW i \in 1 .. Len(results')
          PROVE  results'[i] = log'[Len(log') - Len(results') + i]
      <4>1. i \in 1 .. Len(results) /\ i + 1 \in 1 .. Len(added)
        BY <2>1, <1>2, <1>6
      <4>2. results'[i] = added[i + 1]
        BY <4>1, <2>1, <1>6
      <4>3. added[i + 1] = log'[Len(log) - Len(results) + (i + 1)]
        BY <4>1, <1>7
      <4>4. Len(log) - Len(results) + (i + 1) = Len(log') - Len(results') + i
        <5>1. Len(results') = Len(results) /\ Len(log') = Len(log) + 1
          BY <2>1, <1>4, <1>6
        <5>2. i \in Int
          BY <4>1
        <5> QED
          BY <5>1, <5>2, <1>2
      <4> QED
        BY <4>2, <4>3, <4>4
    <3> QED
      BY <3>1, <3>2, <1>2, <1>4 DEF RecentAreLatest
  <2>3. added[1] \in Result /\ added[1] = log'[Len(log) - Len(results) + 1]
    BY <1>2, <1>6, <1>7
  <2>4. added[1].ID = Len(log) - Len(results)
    BY <2>3, <1>2, <1>5, <1>7, <1>6 DEF LogNumbered
  <2> QED
    BY <1>8, <2>1, <2>2, <2>3, <2>4, <1>1, <1>2, <1>4, <1>5, <1>6
<1>9. CASE Len(added) <= MaxResults
  <2>1. results' = added
    BY <1>9, <1>2, <1>6 DEF Add
  <2>2. Len(log) = Len(results)
    BY <1>9, <1>2, <1>6 DEF RecentAreLatest
  <2>3. RecentAreLatest'
    <3>1. Len(results') = Len(log') /\ Len(log') <= MaxResults
      BY <2>1, <2>2, <1>2, <1>4, <1>6, <1>9
    <3>2. ASSUME NEW i \in 1 .. Len(results')
          PROVE  results'[i] = log'[Len(log') - Len(results') + i]
      <4>1. results'[i] = log'[Len(log) - Len(results) + i]
        BY <2>1, <1>7
      <4>2. Len(log) - Len(results) + i = Len(log') - Len(results') + i
        BY <2>1, <2>2, <1>2, <1>4, <1>6
      <4> QED
        BY <4>1, <4>2
    <3> QED
      BY <3>1, <3>2, <1>2, <1>4 DEF RecentAreLatest
  <2> QED
    BY <1>9, <2>1, <2>2, <2>3, <1>1, <1>2, <1>4, <1>5, <1>6
<1> QED
  BY <1>8, <1>9, <1>2, <1>6

\* What PreserveFailure does to the preserved slice: r is appended, and the
\* oldest element dropped if there are more than MaxResults now.
LEMMA PreserveFailureEffect ==
  ASSUME IInv, NEW r \in Result, ~r.Success, r.ID = Len(log) - Len(results),
         Len(results) = MaxResults, PreserveFailure(r)
  PROVE  /\ preservedFailedResults' \in Seq(Result) /\ preservedCap' \in Nat
         /\ Len(preservedFailedResults') <= MaxResults
         /\ preservedFailedResults' = <<>> => preservedCap' = 0
         /\ preservedFailedResults' # <<>> =>
              /\ Len(preservedFailedResults') <= preservedCap'
              /\ preservedCap' < Len(preservedFailedResults') + MaxResults
         /\ \E k \in {0, 1} :
              /\ Len(preservedFailedResults') = Len(preservedFailedResults) + 1 - k
              /\ k = 1 => Len(preservedFailedResults) = MaxResults
              /\ \A i \in 1 .. Len(preservedFailedResults') :
                   preservedFailedResults'[i] =
                     IF i + k <= Len(preservedFailedResults)
                     THEN preservedFailedResults[i + k] ELSE r
<1> DEFINE P == preservedFailedResults
           n == Len(P)
           grown == Append(P, r)
<1>1. P \in Seq(Result) /\ n \in Nat /\ preservedCap \in Nat /\ n <= MaxResults
  BY DEF IInv, TypeOK, PreservedOrdered
<1>2. /\ grown \in Seq(Result) /\ Len(grown) = n + 1
      /\ \A i \in 1 .. n : grown[i] = P[i]
      /\ grown[n + 1] = r
      /\ Tail(grown) \in Seq(Result) /\ Len(Tail(grown)) = n
      /\ \A i \in 1 .. n : Tail(grown)[i] = grown[i + 1]
  BY <1>1, ShiftedWindow
<1>3. PICK c \in IF n < preservedCap THEN {preservedCap} ELSE GrownCaps(n) :
        IF n + 1 > MaxResults
        THEN P' = Tail(grown) /\ preservedCap' = n
        ELSE P' = grown /\ preservedCap' = c
  BY DEF PreserveFailure
<1>4. /\ P = <<>> => preservedCap = 0
      /\ P # <<>> => n <= preservedCap /\ preservedCap < n + MaxResults
  BY DEF IInv, SpareCapacity
<1>5. P = <<>> <=> n = 0
  BY <1>1
<1>6. CASE n + 1 > MaxResults
  <2>1. P' = Tail(grown) /\ preservedCap' = n /\ n = MaxResults
    BY <1>1, <1>3, <1>6
  <2>2. \A i \in 1 .. Len(P') : P'[i] = IF i + 1 <= n THEN P[i + 1] ELSE r
    BY <2>1, <1>1, <1>2
  <2>3. P' # <<>> => n > 0
    BY <2>1, <1>1, <1>2
  <2>4. Len(P') = n + 1 - 1 /\ Len(P') = n /\ P' \in Seq(Result)
    BY <2>1, <1>1, <1>2
  <2>5. \E k \in {0, 1} :
          /\ Len(P') = n + 1 - k
          /\ k = 1 => n = MaxResults
          /\ \A i \in 1 .. Len(P') : P'[i] = IF i + k <= n THEN P[i + k] ELSE r
    <3> WITNESS 1 \in {0, 1}
    <3> QED
      BY <2>1, <2>2, <2>4
  <2>6. P' = <<>> => preservedCap' = 0
    BY <2>1, <2>4
  <2>7. /\ Len(P') <= MaxResults /\ preservedCap' \in Nat
        /\ P' # <<>> => Len(P') <= preservedCap' /\ preservedCap' < Len(P') + MaxResults
    BY <2>1, <2>3, <2>4, <1>1
  <2> QED
    BY <2>4, <2>5, <2>6, <2>7
<1>7. CASE n + 1 <= MaxResults
  <2>1. P' = grown /\ preservedCap' = c
    BY <1>1, <1>3, <1>7
  <2>2. \A i \in 1 .. Len(P') : P'[i] = IF i + 0 <= n THEN P[i + 0] ELSE r
    BY <2>1, <1>1, <1>2
  <2>3. c \in Nat /\ n + 1 <= c /\ c < n + 1 + MaxResults
    <3>1. CASE n < preservedCap
      BY <3>1, <1>1, <1>3, <1>4, <1>5
    <3>2. CASE n >= preservedCap
      BY <3>2, <1>1, <1>3, <1>7 DEF GrownCaps
    <3> QED
      BY <3>1, <3>2, <1>1
  <2>4. P' # <<>>
    BY <2>1, <1>1, <1>2
  <2> QED
    BY <2>1, <2>2, <2>3, <2>4, <1>1, <1>2, <1>7
<1> QED
  BY <1>6, <1>7, <1>1

\* The pages stay private and keep their cells when a failure is preserved.
LEMMA PreserveFailureViews ==
  ASSUME IInv, NEW r \in Result, PreserveFailure(r)
  PROVE  /\ view' \in [Dashboards -> View]
         /\ \A d \in Dashboards : /\ view'[d].cells = view[d].cells
                                  /\ view'[d].shared => view[d].shared
<1>1. TypeOK /\ ViewsPrivate
  BY DEF IInv
<1>2. Len(preservedFailedResults) + 1 \in Nat
  BY <1>1 DEF TypeOK
<1>3. Overwritten(Len(preservedFailedResults) + 1, <<r>>) = view
  BY <1>1, <1>2, OverwrittenPrivate
<1>4. \/ view' = view
      \/ view' = Detached(view)
      \/ view' = Detached(Detached(view))
  BY <1>3 DEF PreserveFailure
<1>5. Detached(Detached(view)) = Detached(view)
  BY DEF Detached
<1> QED
  BY <1>1, <1>4, <1>5, DetachedPrivate DEF TypeOK

\* The results a failure has behind it: an expired failure sits in the log at
\* its ID, inside the expired part.
LEMMA ExpiredInLog ==
  ASSUME IInv, NEW f \in ExpiredFailures
  PROVE  /\ f \in Result /\ ~f.Success /\ f.ID \in Nat
         /\ f.ID < Len(log) - Len(results)
<1>1. PICK j \in 1 .. Len(log) - Len(results) : f = log[j] /\ ~log[j].Success
  BY DEF ExpiredFailures
<1>2. log \in Seq(Result) /\ results \in Seq(Result) /\ LogNumbered
  BY DEF IInv, TypeOK
<1>3. j \in 1 .. Len(log)
  BY <1>1, <1>2
<1>4. log[j] \in Result /\ log[j].ID = j - 1
  BY <1>2, <1>3 DEF LogNumbered
<1> QED
  BY <1>1, <1>2, <1>3, <1>4

LEMMA AddInvariant ==
  ASSUME IInv, NEW m \in Modules, NEW t \in Targets, NEW s \in BOOLEAN, Add(m, t, s)
  PROVE  IInv'
<1> DEFINE P == preservedFailedResults
           added == Append(results, NewResult(m, t, s))
           e == Len(log) - Len(results)
<1>1. /\ log' \in Seq(Result) /\ results' \in Seq(Result) /\ nextID' \in Nat
      /\ Len(log') = Len(log) + 1
      /\ \A i \in 1 .. Len(log) : log'[i] = log[i]
      /\ LogNumbered'
      /\ RecentAreLatest'
      /\ Len(added) > MaxResults =>
           /\ Len(results) = MaxResults /\ Len(results') = MaxResults
           /\ added[1] \in Result
           /\ added[1].ID = e
           /\ added[1] = log'[e + 1]
      /\ Len(added) <= MaxResults =>
           /\ Len(results') = Len(results) + 1 /\ Len(log) = Len(results)
  BY AddWindow
<1>2. /\ log \in Seq(Result) /\ results \in Seq(Result) /\ P \in Seq(Result)
      /\ Len(log) \in Nat /\ Len(results) \in Nat /\ Len(P) \in Nat
      /\ Len(results) <= Len(log) /\ e \in Nat
  BY DEF IInv, TypeOK, RecentAreLatest
<1>3. UNCHANGED <<unread, snapshot, row>>
  BY DEF Add
<1>4. /\ Len(P) <= MaxResults
      /\ \A i \in 1 .. Len(P) : P[i].ID \in Nat /\ P[i].ID < e /\ P[i] = log[P[i].ID + 1]
      /\ \A i, j \in 1 .. Len(P) : i < j => P[i].ID < P[j].ID
  <2>1. \A i \in 1 .. Len(P) : P[i] \in Result
    BY <1>2
  <2>2. \A i \in 1 .. Len(P) : P[i].ID \in Nat
    BY <2>1 DEF Result
  <2> QED
    BY <2>2 DEF IInv, PreservedOrdered
<1>5. \A i \in 1 .. Len(P) : P[i] = log'[P[i].ID + 1]
  <2> SUFFICES ASSUME NEW i \in 1 .. Len(P) PROVE P[i] = log'[P[i].ID + 1]
    OBVIOUS
  <2>1. P[i].ID + 1 \in 1 .. Len(log)
    BY <1>2, <1>4
  <2> QED
    BY <2>1, <1>1, <1>4
<1>6. Len(added) = Len(results) + 1
  BY <1>2
<1>7. CASE Len(added) <= MaxResults
  <2>1. UNCHANGED <<preservedFailedResults, preservedCap, view>>
    BY <1>7, <1>2, <1>6 DEF Add
  <2>2. Len(log') - Len(results') = e
    <3>1. Len(log') = Len(log) + 1 /\ Len(results') = Len(results) + 1
      BY <1>1, <1>7
    <3> QED
      BY <3>1, <1>2
  <2>3. ExpiredFailures' = {}
    <3>1. 1 .. Len(log') - Len(results') = {}
      BY <2>2, <1>1, <1>2, <1>7
    <3> QED
      BY <3>1 DEF ExpiredFailures
  <2>4. PreservedOrdered'
    BY <2>1, <2>2, <1>4, <1>5 DEF PreservedOrdered
  <2>5. NewestFailuresKept'
    BY <2>3 DEF NewestFailuresKept
  <2>6. TypeOK' /\ SpareCapacity' /\ ViewsPrivate'
    BY <2>1, <1>1, <1>3 DEF IInv, TypeOK, SpareCapacity, ViewsPrivate
  <2> QED
    BY <2>4, <2>5, <2>6, <1>1 DEF IInv
<1>8. CASE Len(added) > MaxResults
  <2>1. /\ Len(log') - Len(results') = e + 1
        /\ added[1].ID = e /\ added[1] = log'[e + 1] /\ added[1] \in Result
        /\ Len(results) = MaxResults
    <3>1. /\ Len(log') = Len(log) + 1 /\ Len(results') = Len(results)
          /\ added[1].ID = e /\ added[1] = log'[e + 1] /\ added[1] \in Result
          /\ Len(results) = MaxResults
      BY <1>1, <1>8
    <3> QED
      BY <3>1, <1>2
  \* An expired failure was one before or is the result that leaves now.
  <2>2. \A f \in ExpiredFailures' :
           f \in ExpiredFailures \/ (f = added[1] /\ ~added[1].Success)
    <3> SUFFICES ASSUME NEW f \in ExpiredFailures'
                 PROVE  f \in ExpiredFailures \/ (f = added[1] /\ ~added[1].Success)
      OBVIOUS
    <3>1. PICK j \in 1 .. Len(log') - Len(results') : f = log'[j] /\ ~log'[j].Success
      BY DEF ExpiredFailures
    <3>2. CASE j = e + 1
      BY <3>1, <3>2, <2>1
    <3>3. CASE j # e + 1
      <4>1. j \in 1 .. e /\ j \in 1 .. Len(log)
        <5>1. j \in 1 .. (e + 1)
          BY <2>1
        <5> QED
          BY <5>1, <3>3, <1>2
      <4> QED
        BY <3>1, <4>1, <1>1 DEF ExpiredFailures
    <3> QED
      BY <3>2, <3>3
  <2>3. CASE added[1].Success
    <3>1. UNCHANGED <<preservedFailedResults, preservedCap, view>>
      BY <2>3, <1>2, <1>6, <1>8 DEF Add
    <3>2. PreservedOrdered'
      BY <3>1, <2>1, <1>2, <1>4, <1>5 DEF PreservedOrdered
    <3>3. NewestFailuresKept'
      BY <3>1, <2>2, <2>3 DEF IInv, NewestFailuresKept
    <3>4. TypeOK' /\ SpareCapacity' /\ ViewsPrivate'
      BY <3>1, <1>1, <1>3 DEF IInv, TypeOK, SpareCapacity, ViewsPrivate
    <3> QED
      BY <3>2, <3>3, <3>4, <1>1 DEF IInv
  <2>4. CASE ~added[1].Success
    <3>1. PreserveFailure(added[1])
      BY <2>4, <1>2, <1>6, <1>8 DEF Add
    <3>2. /\ P' \in Seq(Result) /\ preservedCap' \in Nat
          /\ Len(P') <= MaxResults
          /\ SpareCapacity'
      BY <3>1, <2>1, <2>4, PreserveFailureEffect DEF SpareCapacity
    <3>3. PICK k \in {0, 1} :
            /\ Len(P') = Len(P) + 1 - k
            /\ k = 1 => Len(P) = MaxResults
            /\ \A i \in 1 .. Len(P') :
                 P'[i] = IF i + k <= Len(P) THEN P[i + k] ELSE added[1]
      BY <3>1, <2>1, <2>4, PreserveFailureEffect
    <3>4. \A i \in 1 .. Len(P') :
            \/ i + k \in 1 .. Len(P) /\ P'[i] = P[i + k]
            \/ i = Len(P') /\ P'[i] = added[1]
      BY <3>3, <1>2
    <3>5. PreservedOrdered'
      <4>1. ASSUME NEW i \in 1 .. Len(P')
            PROVE  P'[i].ID < e + 1 /\ P'[i] = log'[P'[i].ID + 1]
        <5>1. CASE i + k \in 1 .. Len(P) /\ P'[i] = P[i + k]
          <6>1. P[i + k].ID \in Nat /\ P[i + k].ID < e /\ P[i + k] = log'[P[i + k].ID + 1]
            BY <5>1, <1>4, <1>5
          <6> QED
            BY <6>1, <5>1, <1>2
        <5>2. CASE P'[i] = added[1]
          BY <5>2, <2>1, <1>2
        <5> QED
          BY <5>1, <5>2, <3>4
      <4>2. \A i, j \in 1 .. Len(P') : i < j => P'[i].ID < P'[j].ID
        <5> SUFFICES ASSUME NEW i \in 1 .. Len(P'), NEW j \in 1 .. Len(P'), i < j
                     PROVE  P'[i].ID < P'[j].ID
          OBVIOUS
        <5>1. i + k \in 1 .. Len(P) /\ P'[i] = P[i + k]
          BY <3>2, <3>4
        <5>2. CASE j + k \in 1 .. Len(P) /\ P'[j] = P[j + k]
          BY <5>1, <5>2, <1>4, i + k < j + k
        <5>3. CASE P'[j] = added[1]
          BY <5>1, <5>3, <2>1, <1>4
        <5> QED
          BY <5>2, <5>3, <3>4
      <4> QED
        BY <4>1, <4>2, <3>2, <2>1 DEF PreservedOrdered
    <3>6. NewestFailuresKept'
      <4> SUFFICES ASSUME NEW f \in ExpiredFailures'
                   PROVE  \/ \E i \in 1 .. Len(P') : P'[i] = f
                          \/ /\ Len(P') = MaxResults
                             /\ \A i \in 1 .. Len(P') : f.ID < P'[i].ID
        BY DEF NewestFailuresKept
      <4>1. CASE f = added[1]
        <5>1. CASE Len(P') = 0
          BY <5>1, <3>3, <1>2
        <5>2. CASE Len(P') # 0
          <6>1. Len(P') \in 1 .. Len(P') /\ Len(P') + k > Len(P)
            BY <5>2, <3>2, <3>3, <1>2
          <6> QED
            BY <6>1, <4>1, <3>3
        <5> QED
          BY <5>1, <5>2
      <4>2. CASE f \in ExpiredFailures
        <5>1. f.ID \in Nat /\ f.ID < e
          BY <4>2, ExpiredInLog
        <5>2. CASE \E i \in 1 .. Len(P) : P[i] = f
          <6>1. PICK i \in 1 .. Len(P) : P[i] = f
            BY <5>2
          <6>2. CASE i - k \in 1 .. Len(P')
            <7>1. P'[i - k] = P[(i - k) + k] /\ (i - k) + k = i
              BY <6>2, <3>3, <1>2
            <7> QED
              BY <7>1, <6>1, <6>2
          <6>3. CASE i - k \notin 1 .. Len(P')
            <7>1. k = 1 /\ i = 1 /\ Len(P') = MaxResults
              BY <6>3, <3>3, <1>2
            <7>2. \A l \in 1 .. Len(P') : f.ID < P'[l].ID
              <8> SUFFICES ASSUME NEW l \in 1 .. Len(P') PROVE f.ID < P'[l].ID
                OBVIOUS
              <8>1. CASE l + k \in 1 .. Len(P) /\ P'[l] = P[l + k]
                <9>1. 1 \in 1 .. Len(P) /\ 1 < l + k
                  BY <8>1, <7>1, <1>2, <3>2
                <9> QED
                  BY <9>1, <8>1, <7>1, <6>1, <1>4
              <8>2. CASE P'[l] = added[1]
                BY <8>2, <5>1, <2>1
              <8> QED
                BY <8>1, <8>2, <3>4
            <7> QED
              BY <7>1, <7>2
          <6> QED
            BY <6>2, <6>3
        <5>3. CASE Len(P) = MaxResults /\ \A i \in 1 .. Len(P) : f.ID < P[i].ID
          <6>1. k = 1 /\ Len(P') = MaxResults
            BY <5>3, <3>2, <3>3, <1>2
          <6>2. \A l \in 1 .. Len(P') : f.ID < P'[l].ID
            BY <5>1, <5>3, <3>4, <2>1
          <6> QED
            BY <6>1, <6>2
        <5> QED
          BY <4>2, <5>2, <5>3 DEF IInv, NewestFailuresKept
      <4> QED
        BY <2>2, <4>1, <4>2
    <3>7. TypeOK' /\ ViewsPrivate'
      <4>1. /\ view' \in [Dashboards -> View]
            /\ \A d \in Dashboards : /\ view'[d].cells = view[d].cells
                                     /\ view'[d].shared => view[d].shared
        BY <3>1, <2>1, PreserveFailureViews
      <4> QED
        BY <4>1, <3>2, <1>1, <1>3 DEF IInv, TypeOK, ViewsPrivate
    <3> QED
      BY <3>2, <3>5, <3>6, <3>7, <1>1 DEF IInv
  <2> QED
    BY <2>3, <2>4
<1> QED
  BY <1>7, <1>8, <1>2, <1>6

-----------------------------------------------------------------------------
(* The dashboard.                                                          *)

\* What List returns: the two slices, each element at its place.
LEMMA RetainedElements ==
  ASSUME TypeOK
  PROVE  /\ Retained \in Seq(Result)
         /\ Len(Retained) = Len(preservedFailedResults) + Len(results)
         /\ \A i \in 1 .. Len(Retained) :
              Retained[i] = IF i <= Len(preservedFailedResults)
                            THEN preservedFailedResults[i]
                            ELSE results[i - Len(preservedFailedResults)]
  BY ConcatProperties DEF TypeOK, Retained

\* List's append stays inside the array of preservedFailedResults only when
\* there is nothing to append to and nothing to append.
LEMMA ListAllocates ==
  ASSUME IInv,
         Len(preservedFailedResults) + Len(results) <= preservedCap
  PROVE  Retained = <<>>
<1>1. /\ preservedFailedResults \in Seq(Result) /\ results \in Seq(Result)
      /\ Len(preservedFailedResults) \in Nat /\ Len(results) \in Nat
      /\ log \in Seq(Result) /\ Len(log) \in Nat /\ preservedCap \in Nat
  BY DEF IInv, TypeOK
<1>2. CASE preservedFailedResults = <<>>
  <2>1. preservedCap = 0
    BY <1>2 DEF IInv, SpareCapacity
  <2>2. Len(results) = 0
    BY <1>1, <1>2, <2>1
  <2>3. Retained \in Seq(Result) /\ Len(Retained) = 0 + Len(results)
    BY <1>2, RetainedElements DEF IInv
  <2> QED
    BY <2>2, <2>3
<1>3. CASE preservedFailedResults # <<>>
  <2>1. 1 \in 1 .. Len(preservedFailedResults)
    BY <1>1, <1>3
  <2>2. preservedFailedResults[1].ID < Len(log) - Len(results)
    BY <2>1 DEF IInv, PreservedOrdered
  <2>3. preservedFailedResults[1].ID \in Nat
    <3>1. preservedFailedResults[1] \in Result
      BY <2>1, <1>1
    <3> QED
      BY <3>1 DEF Result
  <2>4. Len(results) = MaxResults
    BY <2>2, <2>3, <1>1 DEF IInv, RecentAreLatest
  <2>5. preservedCap < Len(preservedFailedResults) + MaxResults
    BY <1>3 DEF IInv, SpareCapacity
  <2> QED
    BY <2>4, <2>5, <1>1
<1> QED
  BY <1>2, <1>3

\* A page being opened or written out does not touch the slices.
LEMMA HistoryUnchanged ==
  ASSUME IInv, UNCHANGED <<histVars, log>>, TypeOK', ViewsPrivate'
  PROVE  IInv'
<1>1. /\ nextID' = nextID /\ results' = results /\ log' = log
      /\ preservedFailedResults' = preservedFailedResults
      /\ preservedCap' = preservedCap
  BY DEF histVars
<1>2. LogNumbered'
  BY <1>1 DEF IInv, LogNumbered
<1>3. RecentAreLatest'
  BY <1>1 DEF IInv, RecentAreLatest
<1>4. PreservedOrdered'
  BY <1>1 DEF IInv, PreservedOrdered
<1>5. NewestFailuresKept'
  <2>1. ExpiredFailures' = ExpiredFailures
    BY <1>1 DEF ExpiredFailures
  <2> QED
    BY <1>1, <2>1 DEF IInv, NewestFailuresKept
<1>6. SpareCapacity'
  BY <1>1 DEF IInv, SpareCapacity
<1> QED
  BY <1>2, <1>3, <1>4, <1>5, <1>6 DEF IInv

LEMMA ListInvariant ==
  ASSUME IInv, NEW d \in Dashboards, List(d)
  PROVE  IInv'
<1> DEFINE fits == Len(preservedFailedResults) + Len(results) <= preservedCap
           old  == IF fits THEN Overwritten(Len(preservedFailedResults) + 1, results)
                   ELSE view
<1>1. TypeOK /\ ViewsPrivate
  BY DEF IInv
<1>2. Len(preservedFailedResults) + 1 \in Nat
  BY <1>1 DEF TypeOK
<1>3. old = view
  BY <1>1, <1>2, OverwrittenPrivate
<1>4. view' = [view EXCEPT ![d] = [shared |-> fits, cells |-> Retained]]
  BY <1>3 DEF List
<1>5. fits => Retained = <<>>
  BY ListAllocates
<1>6. Retained \in Seq(Result) /\ Len(Retained) \in Nat
  BY <1>1, RetainedElements
<1>7. /\ unread' = [unread EXCEPT ![d] = Len(Retained)]
      /\ snapshot' = [snapshot EXCEPT ![d] = Retained]
      /\ row' = [row EXCEPT ![d] = NotFound]
      /\ UNCHANGED <<nextID, results, preservedFailedResults, preservedCap, log>>
  BY DEF List, histVars
<1>8. view' \in [Dashboards -> View]
  <2>1. fits \in BOOLEAN
    BY DEF IInv
  <2>2. [shared |-> fits, cells |-> Retained] \in View
    BY <2>1, <1>6 DEF View
  <2> QED
    BY <2>2, <1>1, <1>4 DEF TypeOK
<1>9. TypeOK'
  BY <1>1, <1>6, <1>7, <1>8 DEF TypeOK
<1>10. ViewsPrivate'
  <2> SUFFICES ASSUME NEW c \in Dashboards
               PROVE  /\ view'[c].shared => view'[c].cells = <<>>
                      /\ view'[c].cells = snapshot'[c]
                      /\ unread'[c] <= Len(view'[c].cells)
    BY DEF ViewsPrivate
  <2>1. CASE c = d
    <3>1. /\ view'[c].shared = fits /\ view'[c].cells = Retained
          /\ snapshot'[c] = Retained /\ unread'[c] = Len(Retained)
      BY <2>1, <1>1, <1>4, <1>7 DEF TypeOK
    <3>2. view'[c].shared => Retained = <<>>
      BY <3>1, <1>5, Zenon
    <3>3. unread'[c] <= Len(view'[c].cells)
      BY <3>1, <1>6
    <3> QED
      BY <3>1, <3>2, <3>3
  <2>2. CASE c # d
    BY <2>2, <1>1, <1>4, <1>7 DEF TypeOK, ViewsPrivate
  <2> QED
    BY <2>1, <2>2
<1> QED
  BY <1>9, <1>10, HistoryUnchanged DEF List

LEMMA WriteRowInvariant ==
  ASSUME IInv, NEW d \in Dashboards, WriteRow(d)
  PROVE  IInv'
<1>1. TypeOK /\ ViewsPrivate
  BY DEF IInv
<1>2. /\ unread[d] \in Nat /\ unread[d] > 0 /\ unread[d] <= Len(view[d].cells)
      /\ view[d].cells \in Seq(Result)
  BY <1>1 DEF TypeOK, ViewsPrivate, View, WriteRow
<1>3. view[d].cells[unread[d]] \in Result
  BY <1>2
<1>4. TypeOK'
  BY <1>1, <1>2, <1>3 DEF TypeOK, WriteRow, histVars
<1>5. ViewsPrivate'
  BY <1>1, <1>2 DEF TypeOK, ViewsPrivate, WriteRow, View
<1> QED
  BY <1>4, <1>5, HistoryUnchanged DEF WriteRow

LEMMA InitInvariant == Init => IInv
  BY DEF Init, IInv, TypeOK, View, EmptyView, LogNumbered, RecentAreLatest,
         PreservedOrdered, NewestFailuresKept, ExpiredFailures, SpareCapacity, ViewsPrivate

LEMMA NextInvariant == IInv /\ [Next]_vars => IInv'
<1> SUFFICES ASSUME IInv, [Next]_vars PROVE IInv'
  OBVIOUS
<1>1. CASE \E m \in Modules, t \in Targets, s \in BOOLEAN : Add(m, t, s)
  BY <1>1, AddInvariant
<1>2. CASE \E d \in Dashboards : List(d)
  BY <1>2, ListInvariant
<1>3. CASE \E d \in Dashboards : WriteRow(d)
  BY <1>3, WriteRowInvariant
<1>4. CASE UNCHANGED vars
  <2>1. UNCHANGED <<histVars, log>> /\ UNCHANGED <<view, unread, snapshot, row>>
    BY <1>4 DEF vars, pageVars
  <2>2. TypeOK'
    BY <2>1 DEF IInv, TypeOK, histVars
  <2>3. ViewsPrivate'
    BY <2>1 DEF IInv, ViewsPrivate
  <2> QED
    BY <2>1, <2>2, <2>3, HistoryUnchanged
<1> QED
  BY <1>1, <1>2, <1>3, <1>4 DEF Next

\* The invariant the other theorems follow from.
THEOREM Invariant == Spec => []IInv
  BY InitInvariant, NextInvariant, PTL DEF Spec

\* The two slices never overlap, and List puts them in order.
LEMMA RetainedOrdered ==
  ASSUME IInv
  PROVE  ListOrdered
<1> DEFINE n == Len(preservedFailedResults)
           e == Len(log) - Len(results)
<1>1. /\ preservedFailedResults \in Seq(Result) /\ results \in Seq(Result)
      /\ log \in Seq(Result) /\ n \in Nat /\ Len(results) \in Nat /\ Len(log) \in Nat
      /\ TypeOK
  BY DEF IInv, TypeOK
<1>2. Len(Retained) = n + Len(results)
  BY <1>1, RetainedElements
<1>3. \A i \in 1 .. n :
        Retained[i] = preservedFailedResults[i] /\ i \in 1 .. Len(Retained)
  BY <1>1, <1>2, RetainedElements
<1>4. e \in Nat /\ \A i \in 1 .. Len(results) : results[i] = log[e + i] /\ e + i \in 1 .. Len(log)
  <2>1. \A i \in 1 .. Len(results) : results[i] = log[e + i]
    BY <1>1 DEF IInv, RecentAreLatest
  <2>2. Len(results) <= Len(log)
    BY <1>1 DEF IInv, RecentAreLatest
  <2>3. ASSUME NEW i \in 1 .. Len(results) PROVE e + i \in 1 .. Len(log)
    <3>1. i \in Int /\ 1 <= i /\ i <= Len(results) /\ Len(results) <= Len(log)
      BY <2>2, <1>1
    <3> QED
      BY <3>1, <1>1
  <2>4. e \in Nat
    BY <2>2, <1>1
  <2> QED
    BY <2>1, <2>3, <2>4
<1>5. \A i \in 1 .. Len(Retained) : i > n =>
        /\ Retained[i].ID = e + (i - n) - 1
        /\ Retained[i] = log[Retained[i].ID + 1]
  <2> SUFFICES ASSUME NEW i \in 1 .. Len(Retained), i > n
               PROVE  /\ Retained[i].ID = e + (i - n) - 1
                      /\ Retained[i] = log[Retained[i].ID + 1]
    OBVIOUS
  <2>1. i - n \in 1 .. Len(results) /\ Retained[i] = results[i - n]
    BY <1>1, <1>2, RetainedElements
  <2>2. results[i - n] = log[e + (i - n)] /\ e + (i - n) \in 1 .. Len(log)
    BY <2>1, <1>4
  <2>3. log[e + (i - n)].ID = e + (i - n) - 1
    BY <2>2 DEF IInv, LogNumbered
  <2>4. e + (i - n) - 1 + 1 = e + (i - n)
    BY <2>1, <1>1
  <2> QED
    BY <2>1, <2>2, <2>3, <2>4
<1>6. \A i \in 1 .. Len(Retained) : i <= n =>
        /\ Retained[i].ID \in Nat /\ Retained[i].ID < e
        /\ Retained[i] = log[Retained[i].ID + 1]
  <2> SUFFICES ASSUME NEW i \in 1 .. Len(Retained), i <= n
               PROVE  /\ Retained[i].ID \in Nat /\ Retained[i].ID < e
                      /\ Retained[i] = log[Retained[i].ID + 1]
    OBVIOUS
  <2>1. i \in 1 .. n
    BY <1>1
  <2>2. preservedFailedResults[i] \in Result
    BY <2>1, <1>1
  <2>3. preservedFailedResults[i].ID \in Nat
    BY <2>2 DEF Result
  <2> QED
    BY <2>1, <2>3, <1>3 DEF IInv, PreservedOrdered
<1>7. ASSUME NEW i \in 1 .. Len(Retained), NEW j \in 1 .. Len(Retained), i < j
      PROVE  Retained[i].ID < Retained[j].ID
  <2>1. CASE j <= n
    <3>1. i \in 1 .. n /\ j \in 1 .. n
      BY <1>7, <2>1, <1>1
    <3> QED
      BY <3>1, <1>3, <1>7 DEF IInv, PreservedOrdered
  <2>2. CASE i <= n /\ j > n
    BY <2>2, <1>5, <1>6, <1>1, <1>4
  <2>3. CASE i > n
    BY <2>3, <1>7, <1>5, <1>1, <1>4
  <2> QED
    BY <2>1, <2>2, <2>3, <1>1
<1>8. ASSUME NEW i \in 1 .. Len(Retained)
      PROVE  Retained[i].ID < Len(log) /\ Retained[i] = log[Retained[i].ID + 1]
  <2>1. CASE i <= n
    BY <2>1, <1>6, <1>1
  <2>2. CASE i > n
    BY <2>2, <1>5, <1>1, <1>2
  <2> QED
    BY <2>1, <2>2, <1>1
<1> QED
  BY <1>7, <1>8 DEF ListOrdered, IInv, PreservedOrdered

-----------------------------------------------------------------------------
(* What is known.                                                          *)

\* The promise counts as the library does.
LEMMA SameCardinality == ASSUME NEW S PROVE Promised!Cardinality(S) = Cardinality(S)
  BY DEF Cardinality, Promised!Cardinality

\* Only failures are preserved.
PreservedFailed ==
  \A i \in 1 .. Len(preservedFailedResults) : ~preservedFailedResults[i].Success

\* A part of the positions of a sequence holds no more values than positions.
LEMMA CellsCounted ==
  ASSUME NEW P, NEW a \in Nat, NEW n \in Nat, a <= n, NEW S,
         \A j \in a + 1 .. n : P[j] \in S,
         \A s \in S : \E j \in a + 1 .. n : s = P[j]
  PROVE  IsFiniteSet(S) /\ Cardinality(S) <= n - a
<1> DEFINE f == [j \in a + 1 .. n |-> P[j]]
<1>1. IsFiniteSet(a + 1 .. n) /\ Cardinality(a + 1 .. n) = n - a
  <2>1. a + 1 \in Int /\ n \in Int
    OBVIOUS
  <2>2. /\ IsFiniteSet(a + 1 .. n)
        /\ Cardinality(a + 1 .. n) = IF a + 1 > n THEN 0 ELSE n - (a + 1) + 1
    BY <2>1, FS_Interval
  <2> QED
    BY <2>2
<1>2. f \in Surjection(a + 1 .. n, S)
  BY DEF Surjection
<1> QED
  BY <1>1, <1>2, FS_Surjection

\* If no value is there twice there are as many.
LEMMA DistinctCellsCounted ==
  ASSUME NEW P, NEW n \in Nat, NEW S,
         \A j \in 1 .. n : P[j] \in S,
         \A s \in S : \E j \in 1 .. n : s = P[j],
         \A i, j \in 1 .. n : P[i] = P[j] => i = j
  PROVE  Cardinality(S) = n
<1> DEFINE f == [j \in 1 .. n |-> P[j]]
<1>1. IsFiniteSet(1 .. n) /\ Cardinality(1 .. n) = n
  <2>1. IsFiniteSet(1 .. n) /\ Cardinality(1 .. n) = IF 1 > n THEN 0 ELSE n - 1 + 1
    BY FS_Interval
  <2> QED
    BY <2>1
<1>2. f \in Surjection(1 .. n, S) /\ f \in Injection(1 .. n, S)
  BY DEF Surjection, Injection, IsInjective
<1> QED
  BY <1>1, <1>2, FS_Surjection

LEMMA RetainedIsKnown ==
  ASSUME IInv, PreservedFailed
  PROVE  Promised!Known = {Retained[i] : i \in 1 .. Len(Retained)}
<1> DEFINE P == preservedFailedResults
           n == Len(P)
           e == Len(log) - Len(results)
           preserved == {P[i] : i \in 1 .. n}
           window == {results[i] : i \in 1 .. Len(results)}
<1>1. /\ P \in Seq(Result) /\ results \in Seq(Result) /\ log \in Seq(Result)
      /\ n \in Nat /\ Len(results) \in Nat /\ Len(log) \in Nat /\ TypeOK
  BY DEF IInv, TypeOK
<1>2. /\ Len(results) = IF Len(log) < MaxResults THEN Len(log) ELSE MaxResults
      /\ \A i \in 1 .. Len(results) : results[i] = log[e + i]
      /\ e \in Nat /\ e <= Len(log)
  <2>1. /\ Len(results) = IF Len(log) < MaxResults THEN Len(log) ELSE MaxResults
        /\ \A i \in 1 .. Len(results) : results[i] = log[e + i]
    BY DEF IInv, RecentAreLatest
  <2>2. e \in Nat /\ e <= Len(log)
    BY <2>1, <1>1
  <2> QED
    BY <2>1, <2>2
<1> DEFINE w == Len(results)
           l == Len(log)
<1>0. /\ l \in Nat /\ w \in Nat /\ n \in Nat /\ MaxResults \in Nat
      /\ w <= l /\ w <= MaxResults
      /\ l < MaxResults => w = l
      /\ l >= MaxResults => w = MaxResults
  BY <1>1, <1>2
<1>3. /\ n <= MaxResults
      /\ \A i \in 1 .. n : P[i].ID < e /\ P[i] = log[P[i].ID + 1] /\ ~P[i].Success
      /\ \A i, j \in 1 .. n : i < j => P[i].ID < P[j].ID
      /\ \A i \in 1 .. n : P[i] \in Result /\ P[i].ID \in Nat
  <2>1. \A i \in 1 .. n : P[i] \in Result
    BY <1>1
  <2>2. \A i \in 1 .. n : P[i].ID \in Nat
    BY <2>1 DEF Result
  <2> QED
    BY <2>1, <2>2 DEF IInv, PreservedOrdered, PreservedFailed
<1>4. Promised!Recent = window
  <2>1. ASSUME NEW j \in 1 .. Len(log), j > Len(log) - MaxResults
        PROVE  \E i \in 1 .. Len(results) : results[i] = log[j]
    <3>1. j - e \in 1 .. Len(results) /\ e + (j - e) = j
      BY <2>1, <1>0
    <3> QED
      BY <3>1, <1>2
  <2>2. ASSUME NEW i \in 1 .. Len(results)
        PROVE  /\ e + i \in 1 .. Len(log) /\ e + i > Len(log) - MaxResults
               /\ results[i] = log[e + i]
    <3>1. results[i] = log[e + i]
      BY <1>2
    <3>2. e + i \in 1 .. Len(log) /\ e + i > Len(log) - MaxResults
      BY <1>0
    <3> QED
      BY <3>1, <3>2
  <2>3. Promised!Recent = {log[j] : j \in {k \in 1 .. Len(log) : k > Len(log) - MaxResults}}
    BY DEF Promised!Recent
  <2>4. \A x \in Promised!Recent : x \in window
    BY <2>1, <2>3
  <2>5. \A x \in window : x \in Promised!Recent
    BY <2>2, <2>3
  <2> QED
    BY <2>4, <2>5
<1>5. Promised!ExpiredFailures = ExpiredFailures
  <2>1. ASSUME NEW j \in Int
        PROVE  j \in 1 .. Len(log) /\ j <= Len(log) - MaxResults <=> j \in 1 .. e
    <3>1. CASE Len(log) < MaxResults
      BY <3>1, <1>0
    <3>2. CASE Len(log) >= MaxResults
      BY <3>2, <1>0
    <3> QED
      BY <3>1, <3>2, <1>0
  <2>2. {j \in 1 .. Len(log) : j <= Len(log) - MaxResults} = 1 .. e
    BY <2>1
  <2>3. Promised!Expired = {log[i] : i \in 1 .. e}
    BY <2>2 DEF Promised!Expired
  <2> QED
    BY <2>3 DEF Promised!ExpiredFailures, ExpiredFailures
<1>6. preserved \subseteq ExpiredFailures
  <2> SUFFICES ASSUME NEW i \in 1 .. n PROVE P[i] \in ExpiredFailures
    OBVIOUS
  <2>1. P[i].ID + 1 \in 1 .. e /\ P[i] = log[P[i].ID + 1] /\ ~log[P[i].ID + 1].Success
    BY <1>2, <1>3
  <2> QED
    BY <2>1 DEF ExpiredFailures
<1>7. \A f \in ExpiredFailures : f.ID \in Nat
  BY ExpiredInLog
<1>8. \A f \in ExpiredFailures :
        \/ f \in preserved
        \/ n = MaxResults /\ \A i \in 1 .. n : f.ID < P[i].ID
  <2> SUFFICES ASSUME NEW f \in ExpiredFailures
               PROVE  \/ \E i \in 1 .. n : P[i] = f
                      \/ n = MaxResults /\ \A i \in 1 .. n : f.ID < P[i].ID
    OBVIOUS
  <2> QED
    BY DEF IInv, NewestFailuresKept
<1> DEFINE newer(r) == {s \in ExpiredFailures : s.ID > r.ID}
<1>9. \A r \in ExpiredFailures : IsFiniteSet(newer(r))
  <2> DEFINE all == {log[j] : j \in 0 + 1 .. Len(log)}
  <2>1. IsFiniteSet(all)
    <3>1. /\ \A j \in 0 + 1 .. Len(log) : log[j] \in all
          /\ \A s \in all : \E j \in 0 + 1 .. Len(log) : s = log[j]
      OBVIOUS
    <3>2. 0 \in Nat /\ Len(log) \in Nat /\ 0 <= Len(log)
      BY <1>1
    <3> HIDE DEF all
    <3> QED
      BY <3>1, <3>2, CellsCounted
  <2>2. ExpiredFailures \subseteq all
    BY <1>1, <1>2 DEF ExpiredFailures
  <2> SUFFICES ASSUME NEW r \in ExpiredFailures PROVE IsFiniteSet(newer(r))
    OBVIOUS
  <2>3. newer(r) \in SUBSET all
    BY <2>2
  <2> HIDE DEF all, newer
  <2> QED
    BY <2>1, <2>3, FS_Subset
<1>10. ASSUME NEW k \in 1 .. n PROVE Cardinality(newer(P[k])) < MaxResults
  <2> DEFINE later == {P[j] : j \in k + 1 .. n}
  <2>1. newer(P[k]) \subseteq later
    <3> SUFFICES ASSUME NEW s \in ExpiredFailures, s.ID > P[k].ID PROVE s \in later
      OBVIOUS
    <3>1. s \in preserved
      BY <1>3, <1>7, <1>8
    <3>2. PICK j \in 1 .. n : s = P[j]
      BY <3>1
    <3>3. j \in k + 1 .. n
      <4>1. ~(j < k) /\ j # k
        BY <3>2, <1>3
      <4> QED
        BY <4>1, <1>1
    <3> QED
      BY <3>2, <3>3
  <2>2. IsFiniteSet(later) /\ Cardinality(later) <= n - k
    <3>1. k \in Nat /\ k <= n
      BY <1>1
    <3>2. /\ \A j \in k + 1 .. n : P[j] \in later
          /\ \A s \in later : \E j \in k + 1 .. n : s = P[j]
      OBVIOUS
    <3> HIDE DEF later
    <3> QED
      BY <3>1, <3>2, <1>1, CellsCounted
  <2> HIDE DEF later, newer
  <2>3. Cardinality(newer(P[k])) <= Cardinality(later) /\ IsFiniteSet(newer(P[k]))
    BY <2>1, <2>2, FS_Subset
  <2>4. Cardinality(newer(P[k])) \in Nat /\ Cardinality(later) \in Nat
    BY <2>2, <2>3, FS_CardinalityType
  <2> QED
    <3>1. \A x, y, z \in Nat : x <= y /\ y <= z - k /\ z <= MaxResults => x < MaxResults
      OBVIOUS
    <3>2. n \in Nat /\ n <= MaxResults
      BY <1>1, <1>3
    <3> HIDE DEF n
    <3> QED
      BY <3>1, <3>2, <2>2, <2>3, <2>4
<1>11. ASSUME NEW r \in ExpiredFailures, r \notin preserved
       PROVE  ~(Cardinality(newer(r)) < MaxResults)
  <2>1. n = MaxResults /\ \A i \in 1 .. n : r.ID < P[i].ID
    BY <1>8, <1>11
  <2>2. preserved \subseteq newer(r)
    BY <2>1, <1>3, <1>6, <1>7
  <2>3. \A i, j \in 1 .. n : P[i] = P[j] => i = j
    <3> SUFFICES ASSUME NEW i \in 1 .. n, NEW j \in 1 .. n, P[i] = P[j] PROVE i = j
      BY <1>1
    <3>1. ~(i < j) /\ ~(j < i)
      BY <1>3
    <3> QED
      BY <3>1
  <2>4. Cardinality(preserved) = n
    <3>1. /\ \A j \in 1 .. n : P[j] \in preserved
          /\ \A s \in preserved : \E j \in 1 .. n : s = P[j]
      OBVIOUS
    <3>2. n \in Nat
      BY <1>1
    <3> HIDE DEF preserved, n
    <3> QED
      BY <2>3, <3>1, <3>2, DistinctCellsCounted
  <2> HIDE DEF preserved, newer
  <2>5. Cardinality(preserved) <= Cardinality(newer(r)) /\ Cardinality(newer(r)) \in Nat
    BY <2>2, <1>9, FS_Subset, FS_CardinalityType
  <2> QED
    BY <2>1, <2>4, <2>5, <1>1
<1>12. Promised!KeptFailures = preserved
  <2>1. Promised!KeptFailures = {r \in ExpiredFailures : Cardinality(newer(r)) < MaxResults}
    BY <1>5, SameCardinality DEF Promised!KeptFailures
  <2>2. \A r \in preserved : r \in ExpiredFailures /\ Cardinality(newer(r)) < MaxResults
    BY <1>6, <1>10
  <2> HIDE DEF newer
  <2> QED
    BY <2>1, <2>2, <1>11
<1>13. window \cup preserved = {Retained[i] : i \in 1 .. Len(Retained)}
  <2>1. /\ Len(Retained) = n + Len(results)
        /\ \A i \in 1 .. Len(Retained) :
             Retained[i] = IF i <= n THEN P[i] ELSE results[i - n]
    BY <1>1, RetainedElements
  <2>2. \A i \in 1 .. n : i \in 1 .. Len(Retained) /\ Retained[i] = P[i]
    BY <2>1, <1>0
  <2>3. ASSUME NEW i \in 1 .. Len(results)
        PROVE  n + i \in 1 .. Len(Retained) /\ Retained[n + i] = results[i]
    <3>1. n + i \in 1 .. Len(Retained) /\ ~(n + i <= n) /\ (n + i) - n = i
      BY <2>1, <1>0
    <3> QED
      BY <3>1, <2>1
  <2>4. \A i \in 1 .. Len(Retained) : i \in 1 .. n \/ i - n \in 1 .. Len(results)
    BY <2>1, <1>1
  <2>5. \A i \in 1 .. Len(Retained) : Retained[i] \in window \cup preserved
    BY <2>1, <2>4, <1>1
  <2> QED
    BY <2>2, <2>3, <2>5
<1> QED
  BY <1>4, <1>12, <1>13 DEF Promised!Known

-----------------------------------------------------------------------------
(* The pages.                                                              *)

\* The pages hold their results oldest first.
PagesOrdered ==
  \A d \in Dashboards : \A i, j \in 1 .. Len(view[d].cells) :
    i < j => view[d].cells[i].ID < view[d].cells[j].ID

PInv == IInv /\ PreservedFailed /\ PagesOrdered

\* The results a page has still to show.
Rest == [d \in Dashboards |-> {view[d].cells[i] : i \in 1 .. unread[d]}]

LEMMA AddKeeps ==
  ASSUME PInv, NEW m \in Modules, NEW t \in Targets, NEW s \in BOOLEAN, Add(m, t, s)
  PROVE  /\ PreservedFailed'
         /\ \A d \in Dashboards : view'[d].cells = view[d].cells
<1> DEFINE P == preservedFailedResults
           added == Append(results, NewResult(m, t, s))
<1> USE DEF PInv
<1>1. /\ Len(added) > MaxResults =>
           /\ Len(results) = MaxResults /\ added[1] \in Result
           /\ added[1].ID = Len(log) - Len(results)
  BY AddWindow
<1>2. /\ P \in Seq(Result) /\ Len(P) \in Nat /\ view \in [Dashboards -> View]
  BY DEF IInv, TypeOK
<1>3. CASE UNCHANGED <<preservedFailedResults, preservedCap, view>>
  BY <1>3 DEF PreservedFailed
<1>4. CASE Len(added) > MaxResults /\ ~added[1].Success /\ PreserveFailure(added[1])
  <2>1. \E k \in {0, 1} :
          /\ Len(P') = Len(P) + 1 - k
          /\ \A i \in 1 .. Len(P') :
               P'[i] = IF i + k <= Len(P) THEN P[i + k] ELSE added[1]
    BY <1>1, <1>4, PreserveFailureEffect
  <2>2. PICK k \in {0, 1} :
          /\ Len(P') = Len(P) + 1 - k
          /\ \A i \in 1 .. Len(P') :
               P'[i] = IF i + k <= Len(P) THEN P[i + k] ELSE added[1]
    BY <2>1
  <2>3. ASSUME NEW i \in 1 .. Len(P') PROVE ~P'[i].Success
    <3>1. CASE i + k <= Len(P)
      <4>1. i + k \in 1 .. Len(P)
        BY <3>1, <2>2, <1>2
      <4> QED
        BY <4>1, <3>1, <2>2 DEF PreservedFailed
    <3>2. CASE ~(i + k <= Len(P))
      BY <3>2, <2>2, <1>4
    <3> QED
      BY <3>1, <3>2
  <2>4. \A d \in Dashboards : view'[d].cells = view[d].cells
    BY <1>1, <1>4, PreserveFailureViews
  <2> QED
    BY <2>3, <2>4 DEF PreservedFailed
<1>5. \/ UNCHANGED <<preservedFailedResults, preservedCap, view>>
      \/ Len(added) > MaxResults /\ ~added[1].Success /\ PreserveFailure(added[1])
  BY DEF Add
<1> QED
  BY <1>3, <1>4, <1>5

\* What List makes of a page.
LEMMA ListView ==
  ASSUME IInv, NEW d \in Dashboards, List(d)
  PROVE  /\ view' \in [Dashboards -> View]
         /\ view'[d].cells = Retained /\ unread'[d] = Len(Retained)
         /\ \A c \in Dashboards \ {d} : view'[c] = view[c] /\ unread'[c] = unread[c]
         /\ row' = [row EXCEPT ![d] = NotFound]
         /\ unread[d] = 0
         /\ UNCHANGED <<preservedFailedResults, log>>
<1>1. TypeOK /\ ViewsPrivate /\ IInv'
  BY ListInvariant DEF IInv
<1>2. Overwritten(Len(preservedFailedResults) + 1, results) = view
  <2>1. Len(preservedFailedResults) + 1 \in Nat
    BY <1>1 DEF TypeOK
  <2> QED
    BY <1>1, <2>1, OverwrittenPrivate
<1>3. view' = [view EXCEPT ![d] =
                 [shared |-> Len(preservedFailedResults) + Len(results) <= preservedCap,
                  cells |-> Retained]]
  BY <1>2 DEF List
<1> QED
  BY <1>1, <1>3 DEF List, IInv, TypeOK, histVars

LEMMA PagesKept ==
  ASSUME PInv, [Next]_vars
  PROVE  PreservedFailed' /\ PagesOrdered'
<1> USE DEF PInv
<1>1. CASE \E m \in Modules, t \in Targets, s \in BOOLEAN : Add(m, t, s)
  <2>1. PreservedFailed' /\ \A d \in Dashboards : view'[d].cells = view[d].cells
    BY <1>1, AddKeeps
  <2> QED
    BY <2>1 DEF PagesOrdered
<1>2. CASE \E d \in Dashboards : List(d)
  <2>1. PICK d \in Dashboards : List(d)
    BY <1>2
  <2>2. /\ view'[d].cells = Retained
        /\ \A c \in Dashboards \ {d} : view'[c] = view[c]
        /\ preservedFailedResults' = preservedFailedResults
    BY <2>1, ListView
  <2>3. \A i, j \in 1 .. Len(Retained) : i < j => Retained[i].ID < Retained[j].ID
    BY RetainedOrdered DEF ListOrdered
  <2> QED
    BY <2>2, <2>3 DEF PreservedFailed, PagesOrdered
<1>3. CASE \E d \in Dashboards : WriteRow(d)
  BY <1>3 DEF WriteRow, histVars, PreservedFailed, PagesOrdered
<1>4. CASE UNCHANGED vars
  BY <1>4 DEF vars, histVars, pageVars, PreservedFailed, PagesOrdered
<1> QED
  BY <1>1, <1>2, <1>3, <1>4 DEF Next

-----------------------------------------------------------------------------
(* Steps of the slices are steps of the promise.                           *)

LEMMA AddRecords ==
  ASSUME PInv, NEW m \in Modules, NEW t \in Targets, NEW s \in BOOLEAN, Add(m, t, s)
  PROVE  Promised!Record(m, t, s)
<1>1. log' = Append(log, [ID |-> Len(log), ModuleName |-> m, Target |-> t, Success |-> s])
  BY DEF Add, NewResult, PInv, IInv, LogNumbered
<1>2. Rest' = Rest
  <2>1. \A d \in Dashboards : view'[d].cells = view[d].cells
    BY AddKeeps
  <2>2. unread' = unread
    BY DEF Add
  <2> QED
    BY <2>1, <2>2 DEF Rest
<1>3. row' = row
  BY DEF Add
<1> QED
  BY <1>1, <1>2, <1>3 DEF Promised!Record, Rest

LEMMA ListOpensPage ==
  ASSUME PInv, NEW d \in Dashboards, List(d)
  PROVE  Promised!OpenPage(d)
<1>1. /\ view'[d].cells = Retained /\ unread'[d] = Len(Retained)
      /\ \A c \in Dashboards \ {d} : view'[c] = view[c] /\ unread'[c] = unread[c]
      /\ row' = [row EXCEPT ![d] = NotFound]
      /\ unread[d] = 0
      /\ log' = log
  BY ListView DEF PInv
<1>2. Rest[d] = {}
  BY <1>1 DEF Rest
<1>3. Rest'[d] = Promised!Known
  <2>1. Rest'[d] = {Retained[i] : i \in 1 .. Len(Retained)}
    BY <1>1 DEF Rest
  <2> QED
    BY <2>1, RetainedIsKnown DEF PInv
<1>4. \A c \in Dashboards \ {d} : Rest'[c] = Rest[c]
  BY <1>1 DEF Rest
<1>5. Rest' = [Rest EXCEPT ![d] = Promised!Known]
  BY <1>3, <1>4 DEF Rest
<1> QED
  BY <1>1, <1>2, <1>5 DEF Promised!OpenPage, Rest

LEMMA RowIsShown ==
  ASSUME PInv, NEW d \in Dashboards, WriteRow(d)
  PROVE  Promised!ShowRow(d)
<1> DEFINE cells == view[d].cells
           n == unread[d]
<1>1. /\ n \in Nat /\ n > 0 /\ n <= Len(cells)
      /\ cells \in Seq(Result) /\ Len(cells) \in Nat
      /\ row \in [Dashboards -> Result \cup {NotFound}]
      /\ unread \in [Dashboards -> Nat]
  BY DEF WriteRow, PInv, IInv, TypeOK, ViewsPrivate, View
<1>2. /\ row' = [row EXCEPT ![d] = cells[n]]
      /\ unread' = [unread EXCEPT ![d] = n - 1]
      /\ view' = view /\ log' = log
  BY DEF WriteRow
<1>3. /\ \A i, j \in 1 .. n : i < j => cells[i].ID < cells[j].ID
      /\ \A i \in 1 .. n : cells[i].ID \in Nat
  <2>1. \A i \in 1 .. n : i \in 1 .. Len(cells)
    BY <1>1
  <2>2. \A i \in 1 .. n : cells[i] \in Result
    BY <2>1, <1>1
  <2> QED
    BY <2>1, <2>2 DEF PInv, PagesOrdered, Result
<1>4. Rest[d] = {cells[i] : i \in 1 .. n} /\ Rest[d] # {}
  <2>1. n \in 1 .. n
    BY <1>1
  <2> QED
    BY <2>1 DEF Rest
<1>5. Promised!Newest(Rest[d]) = cells[n]
  <2>1. cells[n] \in Rest[d]
    BY <1>1, <1>4
  <2>2. \A x \in Rest[d] : x = cells[n] \/ x.ID < cells[n].ID
    <3> SUFFICES ASSUME NEW i \in 1 .. n PROVE i = n \/ cells[i].ID < cells[n].ID
      BY <1>4
    <3> QED
      BY <1>1, <1>3
  <2>3. \A x \in Rest[d] : x.ID \in Nat
    BY <1>3, <1>4
  <2>4. \A x \in Rest[d] : (\A y \in Rest[d] : x.ID >= y.ID) <=> x = cells[n]
    <3> SUFFICES ASSUME NEW x \in Rest[d]
                 PROVE  (\A y \in Rest[d] : x.ID >= y.ID) <=> x = cells[n]
      OBVIOUS
    <3> HIDE DEF cells, n
    <3>1. (\A y \in Rest[d] : x.ID >= y.ID) => x = cells[n]
      BY <2>1, <2>2, <2>3
    <3>2. x = cells[n] => \A y \in Rest[d] : x.ID >= y.ID
      BY <2>1, <2>2, <2>3
    <3> QED
      BY <3>1, <3>2
  <2> HIDE DEF cells, n
  <2> QED
    BY <2>1, <2>4 DEF Promised!Newest
<1>6. Rest'[d] = Rest[d] \ {cells[n]}
  <2>1. Rest'[d] = {cells[i] : i \in 1 .. n - 1}
    BY <1>1, <1>2 DEF Rest
  <2>2. \A i \in 1 .. n : i \in 1 .. n - 1 \/ i = n
    BY <1>1
  <2>3. \A i \in 1 .. n - 1 : i \in 1 .. n /\ cells[i] # cells[n]
    <3> SUFFICES ASSUME NEW i \in 1 .. n - 1 PROVE i \in 1 .. n /\ cells[i] # cells[n]
      OBVIOUS
    <3>1. i \in 1 .. n /\ n \in 1 .. n /\ i < n
      BY <1>1
    <3>2. cells[i].ID < cells[n].ID /\ cells[n].ID \in Nat
      BY <3>1, <1>3
    <3> QED
      BY <3>1, <3>2
  <2> QED
    BY <2>1, <2>2, <2>3, <1>4
<1>7. \A c \in Dashboards \ {d} : Rest'[c] = Rest[c]
  BY <1>1, <1>2 DEF Rest
<1>8. Rest' = [Rest EXCEPT ![d] = @ \ {Promised!Newest(@)}]
  BY <1>5, <1>6, <1>7 DEF Rest
<1> HIDE DEF cells, n
<1>9. row' = [row EXCEPT ![d] = Promised!Newest(Rest[d])]
  BY <1>2, <1>5
<1> QED
  BY <1>2, <1>4, <1>8, <1>9 DEF Promised!ShowRow, Rest

LEMMA InitPages == Init => PInv
<1> SUFFICES ASSUME Init PROVE PInv
  OBVIOUS
<1>1. IInv
  BY InitInvariant
<1>2. PreservedFailed /\ PagesOrdered
  BY DEF Init, PreservedFailed, PagesOrdered, EmptyView
<1> QED
  BY <1>1, <1>2 DEF PInv

LEMMA NextPages == PInv /\ [Next]_vars => PInv'
  BY NextInvariant, PagesKept DEF PInv

-----------------------------------------------------------------------------
(* The lookups.                                                            *)

LEMMA LeastNumber ==
  ASSUME NEW T, T \subseteq Nat, T # {}
  PROVE  \E x \in T : \A y \in T : x <= y
<1> DEFINE less == {ss \in Nat \X Nat : ss[1] < ss[2]}
<1>1. IsWellFoundedOn(less, Nat)
  BY NatLessThanWellFounded DEF OpToRel
<1>2. \A x, y \in Nat : <<y, x>> \in less <=> y < x
  OBVIOUS
<1> HIDE DEF less
<1>3. PICK x \in T : \A y \in T : ~(<<y, x>> \in less)
  BY <1>1, WFMin
<1>4. \A y \in T : x <= y
  <2> SUFFICES ASSUME NEW y \in T PROVE x <= y
    OBVIOUS
  <2>1. x \in Nat /\ y \in Nat
    OBVIOUS
  <2>2. ~(y < x)
    BY <2>1, <1>2, <1>3
  <2> QED
    BY <2>1, <2>2
<1> QED
  BY <1>4

\* The first of the elements that are looked for is the oldest of them.
LEMMA FirstIsOldest ==
  ASSUME IInv, NEW I \in SUBSET (1 .. Len(Retained))
  PROVE  FirstAt(I) = Promised!Lookup({Retained[i] : i \in I})
<1> DEFINE S == {Retained[i] : i \in I}
<1>1. CASE I = {}
  BY <1>1 DEF FirstAt, Promised!Lookup
<1>2. CASE I # {}
  <2>1. I \subseteq Nat
    OBVIOUS
  <2>2. PICK k \in I : \A j \in I : k <= j
    BY <1>2, <2>1, LeastNumber
  <2>3. (CHOOSE i \in I : \A j \in I : i <= j) = k
    <3>1. \A i \in I : (\A j \in I : i <= j) <=> i = k
      BY <2>1, <2>2
    <3> QED
      BY <3>1
  <2>4. /\ \A i \in I : i \in 1 .. Len(Retained)
        /\ \A i, j \in I : i < j => Retained[i].ID < Retained[j].ID
    BY RetainedOrdered DEF ListOrdered
  <2>5. \A i \in I : Retained[i].ID \in Nat
    <3>1. Retained \in Seq(Result)
      BY RetainedElements DEF IInv
    <3>2. \A i \in I : Retained[i] \in Result
      BY <3>1, <2>4
    <3> QED
      BY <3>2 DEF Result
  <2>6. \A i \in I : i = k \/ Retained[k].ID < Retained[i].ID
    <3> SUFFICES ASSUME NEW i \in I, i # k PROVE Retained[k].ID < Retained[i].ID
      OBVIOUS
    <3>1. k < i
      BY <2>1, <2>2
    <3> QED
      BY <3>1, <2>4
  <2>7. Promised!Oldest(S) = Retained[k]
    <3>1. Retained[k] \in S
      BY <2>2
    <3>2. \A r \in S : r.ID \in Nat /\ (r = Retained[k] \/ Retained[k].ID < r.ID)
      BY <2>5, <2>6
    <3> HIDE DEF S
    <3>3. \A r \in S : (\A s \in S : r.ID <= s.ID) <=> r = Retained[k]
      <4> SUFFICES ASSUME NEW r \in S
                   PROVE  (\A s \in S : r.ID <= s.ID) <=> r = Retained[k]
        OBVIOUS
      <4>1. (\A s \in S : r.ID <= s.ID) => r = Retained[k]
        BY <3>1, <3>2
      <4>2. r = Retained[k] => \A s \in S : r.ID <= s.ID
        BY <3>1, <3>2
      <4> QED
        BY <4>1, <4>2
    <3> QED
      BY <3>1, <3>3 DEF Promised!Oldest
  <2>8. S # {}
    BY <1>2
  <2> HIDE DEF S
  <2>9. Promised!Lookup(S) = Retained[k]
    BY <2>7, <2>8 DEF Promised!Lookup
  <2>10. FirstAt(I) = Retained[k]
    BY <1>2, <2>3 DEF FirstAt
  <2> QED
    BY <2>9, <2>10 DEF S
<1> QED
  BY <1>1, <1>2

LEMMA LookupByID ==
  ASSUME IInv, PreservedFailed, NEW id \in Int
  PROVE  GetByID(id) = Promised!Lookup({r \in Promised!Known : r.ID = id})
<1> DEFINE I == {i \in 1 .. Len(Retained) : Retained[i].ID = id}
<1>1. {Retained[i] : i \in I} = {r \in Promised!Known : r.ID = id}
  BY RetainedIsKnown
<1>2. FirstAt(I) = Promised!Lookup({Retained[i] : i \in I})
  BY FirstIsOldest
<1> QED
  BY <1>1, <1>2 DEF GetByID

LEMMA LookupByTarget ==
  ASSUME IInv, PreservedFailed, NEW t \in Targets, NEW m \in Modules \cup {Absent}
  PROVE  GetByTargetAndModule(t, m) =
           Promised!Lookup({r \in Promised!Known :
                              r.Target = t /\ (m = Absent \/ r.ModuleName = m)})
<1> DEFINE I == {i \in 1 .. Len(Retained) : /\ Retained[i].Target = t
                                            /\ m \in {Absent, Retained[i].ModuleName}}
<1>1. {Retained[i] : i \in I} =
        {r \in Promised!Known : r.Target = t /\ (m = Absent \/ r.ModuleName = m)}
  BY RetainedIsKnown
<1>2. FirstAt(I) = Promised!Lookup({Retained[i] : i \in I})
  BY FirstIsOldest
<1> QED
  BY <1>1, <1>2 DEF GetByTargetAndModule

-----------------------------------------------------------------------------
(* The results.                                                            *)

\* Every variable of the history and of the pages keeps its type.
THEOREM TypeCorrect == Spec => []TypeOK
<1>1. IInv => TypeOK
  BY DEF IInv
<1> QED
  BY <1>1, Invariant, PTL

\* Whatever --history.limit is and however probes and pages interleave, the
\* list a dashboard writes out without the lock never changes under it.
THEOREM DashboardIsStable == Spec => []DashboardStable
<1>1. IInv => DashboardStable
  BY DEF IInv, ViewsPrivate, DashboardStable
<1> QED
  BY <1>1, Invariant, PTL

\* `results` is always the newest MaxResults results of the log.
THEOREM WindowIsLatest == Spec => []RecentAreLatest
<1>1. IInv => RecentAreLatest
  BY DEF IInv
<1> QED
  BY <1>1, Invariant, PTL

\* A failure that has expired is preserved until MaxResults newer ones are.
THEOREM FailuresAreKept == Spec => []NewestFailuresKept
<1>1. IInv => NewestFailuresKept
  BY DEF IInv
<1> QED
  BY <1>1, Invariant, PTL

\* The list of the dashboard is strictly ordered by ID and made of results
\* that were really added: the two slices never overlap.
THEOREM ListIsOrdered == Spec => []ListOrdered
<1>1. IInv => ListOrdered
  BY RetainedOrdered
<1> QED
  BY <1>1, Invariant, PTL

\* The slices, the window and the memory they share implement the promise of
\* RecentResults: every page is a newest-first listing of the newest results and
\* the newest older failures when it was opened (history.go:44-79, main.go:218-240).
THEOREM PromiseIsKept == Spec => KeepsPromise
<1>1. Init => Promised!Init
  <2> SUFFICES ASSUME Init PROVE Promised!Init
    OBVIOUS
  <2>1. \A d \in Dashboards : {view[d].cells[i] : i \in 1 .. unread[d]} = {}
    BY DEF Init
  <2> QED
    BY <2>1 DEF Init, Promised!Init
<1>2. PInv /\ [Next]_vars => [Promised!Next]_(Promised!vars)
  <2> SUFFICES ASSUME PInv, [Next]_vars PROVE [Promised!Next]_(Promised!vars)
    OBVIOUS
  <2>1. CASE \E m \in Modules, t \in Targets, s \in BOOLEAN : Add(m, t, s)
    BY <2>1, AddRecords DEF Promised!Next
  <2>2. CASE \E d \in Dashboards : List(d)
    BY <2>2, ListOpensPage DEF Promised!Next
  <2>3. CASE \E d \in Dashboards : WriteRow(d)
    BY <2>3, RowIsShown DEF Promised!Next
  <2>4. CASE UNCHANGED vars
    BY <2>4 DEF vars, pageVars, Promised!vars
  <2> QED
    BY <2>1, <2>2, <2>3, <2>4 DEF Next
<1> QED
  BY <1>1, <1>2, InitPages, NextPages, PTL DEF Spec, KeepsPromise, Promised!Spec

\* Every answer of /logs is what the promise says of the request, over both
\* slices: a result that is known, the one inserted first, or an error
\* (main.go:243-279, history.go:82-117).
THEOREM LogsAreExact == Spec => []LogsExact
<1>1. PInv => LogsExact
  <2> SUFFICES ASSUME PInv PROVE LogsExact
    OBVIOUS
  <2>1. IInv /\ PreservedFailed
    BY DEF PInv
  <2>2. ASSUME NEW id \in -1 .. Len(log)
        PROVE  LET answer == Logs(id, Absent, Absent) IN
                 IF id = -1 THEN answer.code = 400
                 ELSE /\ answer.body = Promised!Lookup({r \in Promised!Known : r.ID = id})
                      /\ answer.code = IF answer.body = NotFound THEN 404 ELSE 200
    <3>1. id \in Int /\ id # Absent
      OBVIOUS
    <3>2. id = -1 => Logs(id, Absent, Absent) = [code |-> 400, body |-> NotFound]
      BY DEF Logs
    <3>3. id # -1 => Logs(id, Absent, Absent) =
                       [code |-> IF GetByID(id) = NotFound THEN 404 ELSE 200,
                        body |-> GetByID(id)]
      BY <3>1 DEF Logs
    <3>4. GetByID(id) = Promised!Lookup({r \in Promised!Known : r.ID = id})
      BY <2>1, <3>1, LookupByID
    <3> QED
      BY <3>2, <3>3, <3>4
  <2>3. ASSUME NEW t \in Targets, NEW m \in Modules \cup {Absent}
        PROVE  Logs(Absent, t, m).body =
                 Promised!Lookup({r \in Promised!Known :
                                    r.Target = t /\ (m = Absent \/ r.ModuleName = m)})
    <3>1. t # Absent
      OBVIOUS
    <3>2. Logs(Absent, t, m) =
            [code |-> IF GetByTargetAndModule(t, m) = NotFound THEN 404 ELSE 200,
             body |-> GetByTargetAndModule(t, m)]
      BY <3>1 DEF Logs
    <3> QED
      BY <2>1, <3>2, LookupByTarget
  <2> QED
    BY <2>2, <2>3 DEF LogsExact
<1> QED
  BY <1>1, InitPages, NextPages, PTL DEF Spec
=============================================================================
