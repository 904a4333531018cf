--------------------------- MODULE RecentResults ---------------------------
(***************************************************************************)
(* What the probe history promises, told without slices: of all results    *)
(* recorded so far it knows the newest MaxResults, and of the older ones   *)
(* the newest MaxResults failures (prober/history.go:29-31). A page shows  *)
(* what was known when it was opened, newest first, whatever is recorded   *)
(* while it is being written; a lookup finds the earliest known match.     *)
(***************************************************************************)
EXTENDS Integers, Sequences, FiniteSets

CONSTANTS MaxResults, Modules, Targets, Dashboards, NotFound

VARIABLES
  log,       \* every result recorded, in order
  pending,   \* pending[d]: the results page d has still to show
  row        \* row[d]: the result page d showed last

vars == <<log, pending, row>>

Recent  == {log[i] : i \in {j \in 1 .. Len(log) : j > Len(log) - MaxResults}}
Expired == {log[i] : i \in {j \in 1 .. Len(log) : j <= Len(log) - MaxResults}}

ExpiredFailures == {r \in Expired : ~r.Success}

\* The expired failures that fewer than MaxResults newer ones follow.
KeptFailures ==
  {r \in ExpiredFailures :
     Cardinality({s \in ExpiredFailures : s.ID > r.ID}) < MaxResults}

Known == Recent \cup KeptFailures

Oldest(S) == CHOOSE r \in S : \A s \in S : r.ID <= s.ID
Newest(S) == CHOOSE r \in S : \A s \in S : r.ID >= s.ID

\* The answer to a lookup whose known matches are S.
Lookup(S) == IF S = {} THEN NotFound ELSE Oldest(S)

-----------------------------------------------------------------------------
Init ==
  /\ log = <<>>
  /\ pending = [d \in Dashboards |-> {}]
  /\ row = [d \in Dashboards |-> NotFound]

Record(moduleName, target, success) ==
  /\ log' = Append(log, [ID |-> Len(log), ModuleName |-> moduleName,
                         Target |-> target, Success |-> success])
  /\ UNCHANGED <<pending, row>>

OpenPage(d) ==
  /\ pending[d] = {}
  /\ pending' = [pending EXCEPT ![d] = Known]
  /\ row' = [row EXCEPT ![d] = NotFound]
  /\ UNCHANGED log

ShowRow(d) ==
  /\ pending[d] # {}
  /\ row' = [row EXCEPT ![d] = Newest(pending[d])]
  /\ pending' = [pending EXCEPT ![d] = @ \ {Newest(@)}]
  /\ UNCHANGED log

Next ==
  \/ \E m \in Modules, t \in Targets, s \in BOOLEAN : Record(m, t, s)
  \/ \E d \in Dashboards : OpenPage(d)
  \/ \E d \in Dashboards : ShowRow(d)

Spec == Init /\ [][Next]_vars
=============================================================================
