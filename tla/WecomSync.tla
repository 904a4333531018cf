----------------------------- MODULE WecomSync -----------------------------
(***************************************************************************)
(* wecom_probe_syncer: rows of smart sheets become Probe objects of a      *)
(* Kubernetes cluster (internal/wecomsync, cmd/wecom_probe_syncer). One    *)
(* synchronisation fetches a token, reads every sheet page by page, maps   *)
(* the rows to Probes, applies them, lists the Probes that carry its label *)
(* and deletes those it did not apply. People edit the sheets meanwhile,   *)
(* any call may fail with or without having had its effect, and the        *)
(* process may die and be started again. Probes are applied and deleted in *)
(* any order, which includes the sorted one.                               *)
(*                                                                         *)
(* A text is folded into the sequence of the words that resourceName joins *)
(* with dashes: letters lose their case and everything else is a dash. A   *)
(* row that is disabled and one that does not map are skipped alike.       *)
(***************************************************************************)
EXTENDS Integers, Sequences, SequencesExt

CONSTANTS
  SheetIDs,     \* Config.WeComSheetIDs(), in the configured order
  Names,        \* the texts in the name column, "" for an empty cell
  Targets,      \* the texts in the target column
  Contents,     \* what a row may hold
  Fold,         \* Fold[text]: its words as resourceName leaves them
  Foreign,      \* names of Probes that others have made
  PageSize,     \* wecom.page_size
  ServerPage,   \* the most rows the WeCom API puts into a page
  NamesNext,    \* whether the API says where the rows behind a short page begin
  Prune,        \* kubernetes.prune
  Once,         \* --once
  DeleteWhileRead, \* whether rows may be deleted while the pages are read
  StartRows,    \* StartRows[s], a bound: rows of sheet s in the beginning
  MaxRows,      \* bound: rows of a sheet
  MaxEdits,     \* bound: edits of the sheets
  MaxFailures,  \* bound: failed calls and deaths of the process
  None          \* no Probe of that name

Sheets == {SheetIDs[i] : i \in DOMAIN SheetIDs}
Row(id, c) == [id |-> id, name |-> c.name, target |-> c.target, on |-> c.on]
Rows == {Row(id, c) : id \in 1 .. MaxRows + MaxEdits, c \in Contents}

-----------------------------------------------------------------------------
(* Names of Probes.                                                        *)

\* resourceName: the words of the name, else of the target, else "target".
Slug(value, fallback) ==
  IF Fold[value] # << >> THEN Fold[value]
  ELSE IF Fold[fallback] # << >> THEN Fold[fallback] ELSE <<"target">>

\* recordToProbe: the sheet is part of the name when there are several.
NameOf(s, row) ==
  LET prefix == IF Len(SheetIDs) > 1 THEN Fold[s] ELSE << >>
      source == IF row.name = "" THEN row.target ELSE row.name
  IN  prefix \o Slug(source, row.target)

ProbeNames == {NameOf(s, c) : s \in Sheets, c \in Contents} \cup Foreign
Specs == [name : ProbeNames, target : Targets]
Objects == [managed : BOOLEAN, target : Targets]

ASSUME SyncAssumption ==
  /\ SheetIDs \in Seq(STRING) /\ SheetIDs # << >>
  /\ \A i, j \in DOMAIN SheetIDs : SheetIDs[i] = SheetIDs[j] => i = j
  /\ PageSize \in Nat \ {0} /\ ServerPage \in Nat \ {0}
  /\ {Prune, Once, NamesNext, DeleteWhileRead} \subseteq BOOLEAN
  /\ {MaxRows, MaxEdits, MaxFailures} \subseteq Nat
  /\ None \notin Objects

ASSUME ContentsAssumption ==
  /\ Contents \subseteq [name : Names, target : Targets, on : BOOLEAN]
  /\ StartRows \in [Sheets -> 0 .. MaxRows]

Records == [sheet : Sheets, row : Rows]

\* Faulty variant: of the rows of one name the last one counts.
RecordsToProbesLast(records) ==
  {[name |-> NameOf(records[i].sheet, records[i].row), target |-> records[i].row.target] :
     i \in {k \in DOMAIN records :
              /\ records[k].row.on
              /\ \A j \in k + 1 .. Len(records) :
                   records[j].row.on =>
                     NameOf(records[j].sheet, records[j].row)
                       # NameOf(records[k].sheet, records[k].row)}}

\* RecordsToProbes: of the usable rows, the first of every name.
RecordsToProbes(records) ==
  {[name |-> NameOf(records[i].sheet, records[i].row), target |-> records[i].row.target] :
     i \in {k \in DOMAIN records :
              /\ records[k].row.on
              /\ \A j \in 1 .. k - 1 :
                   records[j].row.on =>
                     NameOf(records[j].sheet, records[j].row)
                       # NameOf(records[k].sheet, records[k].row)}}

-----------------------------------------------------------------------------
VARIABLES
  sheet,     \* sheet[s]: its rows, in the order the API returns them
  cluster,   \* cluster[n]: the Probe called n, or None
  pc,        \* where SyncOnce, or the loop around it, is
  first,     \* this is the synchronisation run makes before its loop
  at,        \* index of the sheet being read
  offset,    \* smartSheetRecords' offset in it
  records,   \* the rows read so far
  pending,   \* the Probes still to apply
  desired,   \* names of the Probes applied
  existing,  \* the listed names still to look at
  edits, failures,  \* counters of the bounds
  steady     \* history: usable rows there ever since the synchronisation began

syncVars  == <<at, offset, records, pending, desired, existing>>
worldVars == <<sheet, edits, steady>>
vars == <<worldVars, cluster, pc, first, syncVars, failures>>

\* The usable rows of the sheets.
Usable ==
  {x \in Records : x.row.on /\ \E i \in DOMAIN sheet[x.sheet] : sheet[x.sheet][i] = x.row}

Idle ==
  /\ at = 1 /\ offset = 0 /\ records = << >>
  /\ pending = {} /\ desired = {} /\ existing = {}

\* The sheets of k rows.
Filled(k) == {[i \in 1 .. k |-> Row(i, c[i])] : c \in [1 .. k -> Contents]}

Init ==
  /\ sheet \in [Sheets -> UNION {Filled(k) : k \in 0 .. MaxRows}]
  /\ \A s \in Sheets : Len(sheet[s]) <= StartRows[s]
  /\ cluster \in [ProbeNames -> {None} \cup Objects]
  /\ \A n \in ProbeNames : cluster[n] # None <=> n \in Foreign
  /\ \A n \in Foreign : ~cluster[n].managed
  /\ pc = "token" /\ first = TRUE
  /\ Idle
  /\ edits = 0 /\ failures = 0
  /\ steady = Usable

-----------------------------------------------------------------------------
(* People edit the sheets.                                                 *)

Edited(s, rows) ==
  /\ edits < MaxEdits
  /\ edits' = edits + 1
  /\ sheet' = [sheet EXCEPT ![s] = rows]
  /\ steady' = steady \cap Usable'
  /\ UNCHANGED <<cluster, pc, first, syncVars, failures>>

\* A row keeps its record_id for ever; a new one has a new record_id.
InsertRow(s, i, c) ==
  /\ Len(sheet[s]) < MaxRows
  /\ i \in 1 .. Len(sheet[s]) + 1
  /\ Edited(s, InsertAt(sheet[s], i, Row(MaxRows + edits + 1, c)))

RewriteRow(s, i, c) ==
  /\ i \in DOMAIN sheet[s]
  /\ Row(sheet[s][i].id, c) # sheet[s][i]
  /\ Edited(s, [sheet[s] EXCEPT ![i] = Row(sheet[s][i].id, c)])

DeleteRow(s, i) ==
  /\ DeleteWhileRead \/ pc # "page"
  /\ i \in DOMAIN sheet[s]
  /\ Edited(s, RemoveAt(sheet[s], i))

-----------------------------------------------------------------------------
(* One synchronisation.                                                    *)

\* SyncOnce returns; what it remembered is gone.
Return(to) ==
  /\ pc' = to
  /\ first' = FALSE
  /\ at' = 1 /\ offset' = 0 /\ records' = << >>
  /\ pending' = {} /\ desired' = {} /\ existing' = {}

Succeed == Return(IF first /\ Once THEN "exit" ELSE "idle")

\* An error ends the synchronisation; the first one ends the process.
Fail ==
  /\ failures < MaxFailures
  /\ failures' = failures + 1
  /\ Return(IF first THEN "exit" ELSE "idle")
  /\ UNCHANGED worldVars

TokenReceived ==
  /\ pc = "token"
  /\ pc' = "page"
  /\ UNCHANGED <<worldVars, cluster, first, syncVars, failures>>

\* Faulty variant: one sheet too many is read.
SheetDoneOffByOne(read) ==
  /\ records' = read
  /\ offset' = 0
  /\ IF at <= Len(SheetIDs)
     THEN /\ at' = at + 1
          /\ UNCHANGED <<pc, pending>>
     ELSE /\ pc' = "apply"
          /\ at' = 1
          /\ pending' = RecordsToProbes(read)

\* The next sheet is read from its beginning; after the last one the rows are
\* mapped to Probes.
SheetDone(read) ==
  /\ records' = read
  /\ offset' = 0
  /\ IF at < Len(SheetIDs)
     THEN /\ at' = at + 1
          /\ UNCHANGED <<pc, pending>>
     ELSE /\ pc' = "apply"
          /\ at' = 1
          /\ pending' = RecordsToProbes(read)

Smaller(a, b) == IF a < b THEN a ELSE b

\* The API's page: rows from the offset, whether there are more, and where
\* they begin, 0 when the answer does not say. An API with NamesNext leaves
\* that out only when the page is as long as was asked for; without it rows
\* may be passed over.
PageRows(s) ==
  SubSeq(sheet[s], offset + 1,
         Smaller(offset + Smaller(PageSize, ServerPage), Len(sheet[s])))
HasMore(s) == offset + Smaller(PageSize, ServerPage) < Len(sheet[s])
NextOffsets ==
  {offset + Smaller(PageSize, ServerPage)}
    \cup IF NamesNext /\ ServerPage < PageSize THEN {} ELSE {0}

\* Faulty variant: the offset always grows by the page size.
AdvanceByLimit(next) == offset' = offset + PageSize

\* The offset of the next page.
Advance(next) == offset' = IF next > offset THEN next ELSE offset + PageSize

PageReceived ==
  /\ pc = "page"
  /\ LET s == SheetIDs[at]
         page == PageRows(s)
         read == records \o [i \in DOMAIN page |-> [sheet |-> s, row |-> page[i]]]
     IN  IF HasMore(s)
         THEN /\ \E next \in NextOffsets : Advance(next)
              /\ records' = read
              /\ UNCHANGED <<pc, at, pending>>
         ELSE SheetDone(read)
  /\ UNCHANGED <<worldVars, cluster, first, desired, existing, failures>>

\* Server-side apply with Force: the Probe is made, or taken over from whoever
\* had it.
Applied(p) == cluster' = [cluster EXCEPT ![p.name] = [managed |-> TRUE, target |-> p.target]]

Apply(p) ==
  /\ pc = "apply" /\ p \in pending
  /\ Applied(p)
  /\ pending' = pending \ {p}
  /\ desired' = desired \cup {p.name}
  /\ UNCHANGED <<worldVars, pc, first, at, offset, records, existing, failures>>

\* Faulty variant: a Probe that cannot be applied is passed over.
ApplyFailsPassedOver(p) ==
  /\ pc = "apply" /\ p \in pending
  /\ failures < MaxFailures
  /\ failures' = failures + 1
  /\ pending' = pending \ {p}
  /\ UNCHANGED <<worldVars, cluster, pc, first, at, offset, records, desired, existing>>

\* The call fails, or its answer is lost after it had its effect.
ApplyFails(p) ==
  /\ pc = "apply" /\ p \in pending
  /\ Applied(p) \/ UNCHANGED cluster
  /\ Fail

\* Everything is applied; without pruning that is all.
AllApplied ==
  /\ pc = "apply" /\ pending = {}
  /\ IF Prune THEN pc' = "list" /\ UNCHANGED <<first, syncVars>> ELSE Succeed
  /\ UNCHANGED <<worldVars, cluster, failures>>

\* Faulty variant: the list has no label selector.
ListManagedAll ==
  /\ pc = "list"
  /\ existing' = {n \in ProbeNames : cluster[n] # None}
  /\ pc' = "delete"
  /\ UNCHANGED <<worldVars, cluster, first, at, offset, records, pending, desired, failures>>

\* ListManaged: the Probes that carry the field manager's label.
ListManaged ==
  /\ pc = "list"
  /\ existing' = {n \in ProbeNames : cluster[n] # None /\ cluster[n].managed}
  /\ pc' = "delete"
  /\ UNCHANGED <<worldVars, cluster, first, at, offset, records, pending, desired, failures>>

Keep(n) ==
  /\ pc = "delete" /\ n \in existing /\ n \in desired
  /\ existing' = existing \ {n}
  /\ UNCHANGED <<worldVars, cluster, pc, first, at, offset, records, pending, desired, failures>>

Deleted(n) == cluster' = [cluster EXCEPT ![n] = None]

\* A Probe that is gone already counts as deleted.
Delete(n) ==
  /\ pc = "delete" /\ n \in existing /\ n \notin desired
  /\ Deleted(n)
  /\ existing' = existing \ {n}
  /\ UNCHANGED <<worldVars, pc, first, at, offset, records, pending, desired, failures>>

DeleteFails(n) ==
  /\ pc = "delete" /\ n \in existing /\ n \notin desired
  /\ Deleted(n) \/ UNCHANGED cluster
  /\ Fail

AllDeleted ==
  /\ pc = "delete" /\ existing = {}
  /\ Succeed
  /\ UNCHANGED <<worldVars, cluster, failures>>

\* The token, a page or the list cannot be had.
CallFails ==
  /\ pc \in {"token", "page", "list"}
  /\ Fail
  /\ UNCHANGED cluster

-----------------------------------------------------------------------------
(* The process.                                                            *)

Begin ==
  /\ pc' = "token"
  /\ steady' = Usable
  /\ UNCHANGED <<sheet, edits, cluster, syncVars, failures>>

Tick ==
  /\ pc = "idle"
  /\ Begin
  /\ UNCHANGED first

\* The process is killed or told to stop.
Stop ==
  /\ pc # "exit"
  /\ failures < MaxFailures
  /\ failures' = failures + 1
  /\ Return("exit")
  /\ UNCHANGED <<worldVars, cluster>>

\* The Deployment starts a new process.
Restart ==
  /\ pc = "exit"
  /\ Begin
  /\ first' = TRUE

Step ==
  \/ TokenReceived
  \/ PageReceived
  \/ \E p \in pending : Apply(p)
  \/ AllApplied
  \/ ListManaged
  \/ \E n \in existing : Keep(n)
  \/ \E n \in existing : Delete(n)
  \/ AllDeleted
  \/ Tick
  \/ Restart

Mishap ==
  \/ CallFails
  \/ \E p \in pending : ApplyFails(p)
  \/ \E n \in existing : DeleteFails(n)
  \/ Stop

Edit ==
  \E s \in Sheets :
    \/ \E i \in 1 .. MaxRows, c \in Contents : InsertRow(s, i, c)
    \/ \E i \in 1 .. MaxRows, c \in Contents : RewriteRow(s, i, c)
    \/ \E i \in 1 .. MaxRows : DeleteRow(s, i)

Next == Step \/ Mishap \/ Edit

Spec == Init /\ [][Next]_vars

\* The process runs, every call ends (the HTTP client has a limit), and a
\* Deployment restarts what has exited.
FairSpec == Spec /\ WF_vars(Step)

-----------------------------------------------------------------------------
(* What the cluster should look like.                                      *)

Places == UNION {{<<k, i>> : i \in DOMAIN sheet[SheetIDs[k]]} : k \in DOMAIN SheetIDs}
RowAt(p) == sheet[SheetIDs[p[1]]][p[2]]
NameAt(p) == NameOf(SheetIDs[p[1]], RowAt(p))
Before(p, q) == p[1] < q[1] \/ (p[1] = q[1] /\ p[2] < q[2])

\* For every name, the first usable row of the sheets that has it.
Wanted ==
  {[name |-> NameAt(p), target |-> RowAt(p).target] :
     p \in {q \in Places : RowAt(q).on /\ ~\E r \in Places :
              Before(r, q) /\ RowAt(r).on /\ NameAt(r) = NameAt(q)}}

Managed(n) == cluster[n] # None /\ cluster[n].managed

ManagedProbes ==
  {[name |-> n, target |-> cluster[n].target] : n \in {k \in ProbeNames : Managed(k)}}

InSync == ManagedProbes = Wanted

Probed(t) == \E n \in ProbeNames : Managed(n) /\ cluster[n].target = t

Gone(n) == cluster[n] # None /\ cluster'[n] = None

-----------------------------------------------------------------------------
(* Properties.                                                             *)

\* The types of the variables, and what the phases of SyncOnce leave behind.
TypeOK ==
  /\ sheet \in [Sheets -> Seq(Rows)] /\ \A s \in Sheets : Len(sheet[s]) <= MaxRows
  /\ cluster \in [ProbeNames -> {None} \cup Objects]
  /\ pc \in {"token", "page", "apply", "list", "delete", "idle", "exit"}
  /\ first \in BOOLEAN
  /\ at \in DOMAIN SheetIDs
  /\ offset \in Nat
  /\ records \in Seq(Records)
  /\ pending \subseteq Specs
  /\ desired \subseteq ProbeNames
  /\ existing \subseteq ProbeNames
  /\ edits \in 0 .. MaxEdits /\ failures \in 0 .. MaxFailures
  /\ steady \subseteq Records
  /\ pc # "apply" => pending = {}
  /\ pc # "delete" => existing = {}
  /\ pc \in {"token", "idle", "exit"} => Idle

\* SyncOnce prunes "stale" Probes (sync.go:73): never that of a row that was
\* in its sheet, usable and unchanged, during the whole synchronisation,
\* wherever the rows of other people were inserted while it was read.
SteadyRowKept ==
  [][\A n \in ProbeNames :
       Gone(n) => ~\E x \in steady : NameOf(x.sheet, x.row) = n]_vars

\* Make before break: pruning never takes the last Probe of a target away that
\* a row still asks for, also when the row was renamed and a call failed.
PruneKeepsTargets ==
  [][pc = "delete" =>
       \A t \in Targets : Probed(t) /\ ~Probed(t)' =>
         ~\E p \in RecordsToProbes(records) : p.target = t]_vars

\* What others have made is left alone, unless a row asks for a Probe of that
\* very name.
ForeignKept ==
  [][\A n \in ProbeNames :
       cluster[n] # None /\ ~cluster[n].managed /\ cluster'[n] # cluster[n] =>
         /\ Managed(n)'
         /\ \E p \in RecordsToProbes(records) : p.name = n]_vars

\* A synchronisation that comes to its end leaves exactly the Probes its rows ask
\* for under the field manager's label, whatever earlier ones that failed or died
\* had left of theirs (sync.go:50-79).
SyncedExactly == [][AllDeleted => ManagedProbes = RecordsToProbes(records)]_vars

\* The cluster follows the sheets: when they are left alone from the moment a
\* synchronisation begins, that one and each later one, if it comes to its end,
\* leaves exactly the Probes the sheets ask for, however the rows were cut into
\* pages and whatever fails in between.
SyncedWhenLeftAlone ==
  [](pc = "token" /\ [][UNCHANGED sheet]_vars => [][AllDeleted => InSync]_vars)

\* Whatever failed and died on the way: when the sheets are left alone and the
\* calls succeed again, the managed Probes become those the rows ask for.
EventuallyInSync == <>[]InSync
=============================================================================
