--------------------------- MODULE ResultHistory ---------------------------
(***************************************************************************)
(* The probe history of the exporter (prober/history.go) and the two HTTP  *)
(* pages that read it (main.go): "/", which lists the recent probes, and   *)
(* "/logs", which looks one of them up.                                    *)
(*                                                                         *)
(* Add, List and the lookups each run under rh.mu, so each is one action.  *)
(* What List returns is read by the dashboard after the lock is released,  *)
(* one row at a time, and Go's append may have given it the memory of      *)
(* preservedFailedResults: `preservedCap` is the capacity of that slice's  *)
(* array, and a view that is `shared` lives in it, so that later writes to *)
(* the array show through.                                                 *)
(*                                                                         *)
(* `log` is a history variable: every result ever added, in order.         *)
(***************************************************************************)
EXTENDS Integers, Sequences

CONSTANTS
  MaxResults,   \* --history.limit
  Modules,      \* module names
  Targets,      \* probe targets
  Probed,       \* bound: the pairs of a module and a target that are probed
  Dashboards,   \* requests for "/" in progress at one time
  Absent,       \* an HTTP parameter that is missing, empty or not a number
  NotFound,     \* the nil *Result
  MaxAdds       \* bound: number of results added

ASSUME HistoryAssumption ==
  /\ MaxResults \in Nat
  /\ MaxAdds \in Nat
  /\ Absent \notin Int \cup Targets \cup Modules

VARIABLES
  nextID,                   \* rh.nextID
  results,                  \* rh.results
  preservedFailedResults,   \* rh.preservedFailedResults
  preservedCap,             \* cap(rh.preservedFailedResults)
  view,                     \* view[d]: the slice List returned to dashboard d
  unread,                   \* unread[d]: rows of view[d] not yet written out
  snapshot,                 \* history: what view[d] held when List returned
  row,                      \* row[d]: the last row dashboard d wrote
  log                       \* history: all results, in the order of Add

histVars == <<nextID, results, preservedFailedResults, preservedCap>>
pageVars == <<view, unread, snapshot, row>>
vars     == <<histVars, pageVars, log>>

\* A Result; DebugOutput is determined by the ID and left out.
Result == [ID: Nat, ModuleName: Modules, Target: Targets, Success: BOOLEAN]

View == [shared: BOOLEAN, cells: Seq(Result)]

EmptyView == [shared |-> FALSE, cells |-> <<>>]

-----------------------------------------------------------------------------
(* Go slices.                                                              *)

\* Faulty variant: an array with MaxResults spare cells.
GrownCapsReserve(n) == {n + 1 + MaxResults}

\* The capacities append may choose when it has to grow a full slice of n
\* elements by one: never more than twice the old length, except that the
\* first element gets an array of one.
GrownCaps(n) == (n + 1) .. (IF n = 0 THEN 1 ELSE 2 * n)

\* The views after the cells of the array at positions from.. are written with
\* the elements of s: only shared views see it, and only inside their length.
Overwritten(from, s) ==
  [d \in Dashboards |->
     IF view[d].shared
     THEN [shared |-> TRUE,
           cells  |-> [i \in 1 .. Len(view[d].cells) |->
                         IF i \in from .. (from + Len(s) - 1)
                         THEN s[i - from + 1]
                         ELSE view[d].cells[i]]]
     ELSE view[d]]

\* The views after preservedFailedResults moved to another array.
Detached(views) ==
  [d \in Dashboards |-> [shared |-> FALSE, cells |-> views[d].cells]]

\* Faulty variant: a full slice refuses further failures.
PreserveFailureIfRoom(r) ==
  IF Len(preservedFailedResults) = MaxResults
  THEN UNCHANGED <<preservedFailedResults, preservedCap, view>>
  ELSE /\ preservedFailedResults' = Append(preservedFailedResults, r)
       /\ preservedCap' = Len(preservedFailedResults) + 1
       /\ view' = Detached(view)

\* rh.preservedFailedResults = append(rh.preservedFailedResults, r): in place
\* if the array has room, else into a new array. The old slice is dropped to
\* its newest MaxResults elements, in an array of exactly that size.
PreserveFailure(r) ==
  LET n     == Len(preservedFailedResults)
      grown == Append(preservedFailedResults, r)
      room  == n < preservedCap
      moved == IF room THEN Overwritten(n + 1, <<r>>) ELSE Detached(view)
  IN  \E c \in IF room THEN {preservedCap} ELSE GrownCaps(n) :
        IF n + 1 > MaxResults
        THEN /\ preservedFailedResults' = Tail(grown)
             /\ preservedCap' = n
             /\ view' = Detached(moved)
        ELSE /\ preservedFailedResults' = grown
             /\ preservedCap' = c
             /\ view' = moved

-----------------------------------------------------------------------------
Init ==
  /\ nextID = 0
  /\ results = <<>>
  /\ preservedFailedResults = <<>>
  /\ preservedCap = 0
  /\ view = [d \in Dashboards |-> EmptyView]
  /\ unread = [d \in Dashboards |-> 0]
  /\ snapshot = [d \in Dashboards |-> <<>>]
  /\ row = [d \in Dashboards |-> NotFound]
  /\ log = <<>>

NewResult(moduleName, target, success) ==
  [ID |-> nextID, ModuleName |-> moduleName, Target |-> target, Success |-> success]

\* rh.Add, called by the probe handler when a probe has finished.
Add(moduleName, target, success) ==
  LET r     == NewResult(moduleName, target, success)
      added == Append(results, r)
  IN  /\ nextID < MaxAdds
      /\ <<moduleName, target>> \in Probed
      /\ nextID' = nextID + 1
      /\ log' = Append(log, r)
      /\ IF Len(added) > MaxResults
         THEN /\ results' = Tail(added)
              /\ IF added[1].Success
                 THEN UNCHANGED <<preservedFailedResults, preservedCap, view>>
                 ELSE PreserveFailure(added[1])
         ELSE /\ results' = added
              /\ UNCHANGED <<preservedFailedResults, preservedCap, view>>
      /\ UNCHANGED <<unread, snapshot, row>>

\* preservedFailedResults followed by results: what List returns, and the
\* order in which the lookups scan.
Retained == preservedFailedResults \o results

\* Faulty variant: the loop starts from an index where the code has a length.
ListFromLastIndex(d) ==
  /\ unread[d] = 0
  /\ view' = [view EXCEPT ![d] = [shared |-> FALSE, cells |-> Retained]]
  /\ unread' = [unread EXCEPT ![d] = Len(Retained) - 1]
  /\ snapshot' = [snapshot EXCEPT ![d] = Retained]
  /\ row' = [row EXCEPT ![d] = NotFound]
  /\ UNCHANGED <<histVars, log>>

\* A request for "/" calls rh.List. The append writes results behind
\* preservedFailedResults, in the same array if it has the room.
List(d) ==
  LET n    == Len(preservedFailedResults)
      fits == n + Len(results) <= preservedCap
  IN  /\ unread[d] = 0
      /\ view' = [(IF fits THEN Overwritten(n + 1, results) ELSE view)
                    EXCEPT ![d] = [shared |-> fits, cells |-> Retained]]
      /\ unread' = [unread EXCEPT ![d] = Len(Retained)]
      /\ snapshot' = [snapshot EXCEPT ![d] = Retained]
      /\ row' = [row EXCEPT ![d] = NotFound]
      /\ UNCHANGED <<histVars, log>>

\* Faulty variant: a loop over the list from its front.
WriteRowForward(d) ==
  /\ unread[d] > 0
  /\ row' = [row EXCEPT ![d] = view[d].cells[Len(view[d].cells) - unread[d] + 1]]
  /\ unread' = [unread EXCEPT ![d] = @ - 1]
  /\ UNCHANGED <<histVars, view, snapshot, log>>

\* One turn of the loop over slices.Backward(results): rh.mu is not held.
WriteRow(d) ==
  /\ unread[d] > 0
  /\ row' = [row EXCEPT ![d] = view[d].cells[unread[d]]]
  /\ unread' = [unread EXCEPT ![d] = @ - 1]
  /\ UNCHANGED <<histVars, view, snapshot, log>>

-----------------------------------------------------------------------------
(* The lookups of "/logs".                                                 *)

\* The first element of Retained at one of the positions I.
FirstAt(I) ==
  IF I = {} THEN NotFound
  ELSE Retained[CHOOSE i \in I : \A j \in I : i <= j]

\* Faulty variant: preserved failures are not searched.
GetByIDRecent(id) ==
  FirstAt({i \in Len(preservedFailedResults) + 1 .. Len(Retained) : Retained[i].ID = id})

GetByID(id) == FirstAt({i \in 1 .. Len(Retained) : Retained[i].ID = id})

GetByTargetAndModule(target, module) ==
  FirstAt({i \in 1 .. Len(Retained) :
             /\ Retained[i].Target = target
             /\ module \in {Absent, Retained[i].ModuleName}})

\* The answer to GET /logs?id=..&target=..&module=..: the status code and the
\* result whose debug output is the body.
Logs(id, target, module) ==
  LET reply(found) == [code |-> IF found = NotFound THEN 404 ELSE 200, body |-> found]
      badRequest   == [code |-> 400, body |-> NotFound]
  IN  IF \/ id # Absent /\ target # Absent
         \/ id \in {Absent, -1} /\ target = Absent
         \/ target = Absent /\ module # Absent
      THEN badRequest
      ELSE IF target # Absent
           THEN reply(GetByTargetAndModule(target, module))
           ELSE reply(GetByID(id))

-----------------------------------------------------------------------------
Next ==
  \/ \E m \in Modules, t \in Targets, s \in BOOLEAN : Add(m, t, s)
  \/ \E d \in Dashboards : List(d)
  \/ \E d \in Dashboards : WriteRow(d)

Spec == Init /\ [][Next]_vars

-----------------------------------------------------------------------------
(* Properties.                                                             *)

\* The types of the variables.
TypeOK ==
  /\ nextID \in Nat
  /\ results \in Seq(Result)
  /\ preservedFailedResults \in Seq(Result)
  /\ preservedCap \in Nat
  /\ view \in [Dashboards -> View]
  /\ unread \in [Dashboards -> Nat]
  /\ snapshot \in [Dashboards -> Seq(Result)]
  /\ row \in [Dashboards -> Result \cup {NotFound}]
  /\ log \in Seq(Result)

\* The dashboard reads its list without the lock, while Adds and other
\* dashboards run; still no cell of the list it is writing out ever changes,
\* although List's append is applied to a slice that may have spare capacity
\* (history.go:78, main.go:227-237).
DashboardStable == \A d \in Dashboards : view[d].cells = snapshot[d]

\* `results` holds exactly the newest MaxResults results, oldest first: the
\* append and the drop of Add keep the window aligned with the log.
RecentAreLatest ==
  /\ Len(results) = IF Len(log) < MaxResults THEN Len(log) ELSE MaxResults
  /\ \A i \in 1 .. Len(results) : results[i] = log[Len(log) - Len(results) + i]

\* The results that have expired out of `results` and were failures.
ExpiredFailures == {log[i] : i \in {j \in 1 .. Len(log) - Len(results) : ~log[j].Success}}

\* "After they expire out of results, failures will be saved": every expired
\* failure is preserved, unless MaxResults newer ones are (history.go:29-31).
NewestFailuresKept ==
  \A f \in ExpiredFailures :
     \/ \E i \in 1 .. Len(preservedFailedResults) : preservedFailedResults[i] = f
     \/ /\ Len(preservedFailedResults) = MaxResults
        /\ \A i \in 1 .. Len(preservedFailedResults) :
              f.ID < preservedFailedResults[i].ID

\* "Results in each slice are disjoint" (history.go:77): what List returns has
\* strictly increasing IDs, across the border of the two slices too, and all
\* of them were really added; at most MaxResults are preserved failures.
ListOrdered ==
  /\ \A i, j \in 1 .. Len(Retained) : i < j => Retained[i].ID < Retained[j].ID
  /\ \A i \in 1 .. Len(Retained) : Retained[i].ID < Len(log)
                                   /\ Retained[i] = log[Retained[i].ID + 1]
  /\ Len(preservedFailedResults) <= MaxResults

-----------------------------------------------------------------------------
(* The history as its users see it.                                        *)

Promised == INSTANCE RecentResults WITH
  pending <- [d \in Dashboards |-> {view[d].cells[i] : i \in 1 .. unread[d]}]

\* Slices, windows and shared memory implement the promise of RecentResults:
\* each page is a newest-first listing of what was known when it was opened.
KeepsPromise == Promised!Spec

\* What /logs answers is what the history promises to know, over both slices:
\* by id a result as long as it is known, and -1 is refused because it stands
\* for "no id"; by target, and perhaps module, the known match that was inserted
\* first (main.go:243-279, history.go:82-117, history_test.go:120-160).
LogsExact ==
  /\ \A id \in -1 .. Len(log) :
       LET answer == Logs(id, Absent, Absent) IN
         IF id = -1 THEN answer.code = 400
         ELSE /\ answer.body = Promised!Lookup({r \in Promised!Known : r.ID = id})
              /\ answer.code = IF answer.body = NotFound THEN 404 ELSE 200
  /\ \A t \in Targets : \A m \in Modules \cup {Absent} :
       Logs(Absent, t, m).body =
         Promised!Lookup({r \in Promised!Known :
                            r.Target = t /\ (m = Absent \/ r.ModuleName = m)})
=============================================================================
