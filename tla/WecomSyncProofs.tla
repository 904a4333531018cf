-------------------------- MODULE WecomSyncProofs --------------------------
(***************************************************************************)
(* Proofs about wecom_probe_syncer, for any sheets, texts, folding, page   *)
(* sizes and failures.                                                     *)
(***************************************************************************)
EXTENDS WecomSync, SequenceTheorems, WellFoundedInduction, TLAPS

USE SyncAssumption

-----------------------------------------------------------------------------
(* Names and Probes.                                                       *)

LEMMA SheetIDsFacts ==
  /\ Len(SheetIDs) \in Nat \ {0} /\ DOMAIN SheetIDs = 1 .. Len(SheetIDs)
  /\ \A i \in DOMAIN SheetIDs : SheetIDs[i] \in Sheets
<1>1. Len(SheetIDs) \in Nat /\ DOMAIN SheetIDs = 1 .. Len(SheetIDs)
  BY LenProperties
<1>2. Len(SheetIDs) # 0
  BY EmptySeq
<1> QED
  BY <1>1, <1>2 DEF Sheets

LEMMA ObjectIsSome ==
  ASSUME NEW t \in Targets
  PROVE  [managed |-> TRUE, target |-> t] # None
<1>1. [managed |-> TRUE, target |-> t] \in Objects
  BY DEF Objects
<1>2. None \notin Objects
  BY SyncAssumption
<1> QED
  BY <1>1, <1>2

LEMMA RowTyped ==
  ASSUME NEW id \in 1 .. MaxRows + MaxEdits, NEW c \in Contents
  PROVE  Row(id, c) \in Rows
  BY DEF Rows

LEMMA RowFacts ==
  ASSUME NEW row \in Rows
  PROVE  /\ row.id \in 1 .. MaxRows + MaxEdits
         /\ row.name \in Names /\ row.target \in Targets /\ row.on \in BOOLEAN
         /\ \E c \in Contents : row = Row(row.id, c) /\ row.name = c.name
                                /\ row.target = c.target /\ row.on = c.on
<1>1. PICK id \in 1 .. MaxRows + MaxEdits, c \in Contents : row = Row(id, c)
  BY DEF Rows
<1>2. c.name \in Names /\ c.target \in Targets /\ c.on \in BOOLEAN
  BY ContentsAssumption
<1> QED
  BY <1>1, <1>2 DEF Row

LEMMA NameTyped ==
  ASSUME NEW s \in Sheets, NEW row \in Rows
  PROVE  NameOf(s, row) \in ProbeNames
<1>1. PICK c \in Contents : c.name = row.name /\ c.target = row.target
  BY RowFacts
<1>2. NameOf(s, row) = NameOf(s, c)
  BY <1>1 DEF NameOf
<1> QED
  BY <1>1, <1>2 DEF ProbeNames

\* RecordsToProbes yields Probes of known names, no two of one name.
LEMMA ProbesTyped ==
  ASSUME NEW recs \in Seq(Records)
  PROVE  RecordsToProbes(recs) \subseteq Specs
<1> SUFFICES ASSUME NEW i \in DOMAIN recs
             PROVE  [name |-> NameOf(recs[i].sheet, recs[i].row),
                     target |-> recs[i].row.target] \in Specs
  BY DEF RecordsToProbes
<1>1. recs[i] \in Records
  BY ElementOfSeq, LenProperties
<1>2. recs[i].sheet \in Sheets /\ recs[i].row \in Rows
  BY <1>1 DEF Records
<1>3. recs[i].row.target \in Targets
  BY <1>2, RowFacts
<1> QED
  BY <1>2, <1>3, NameTyped DEF Specs

LEMMA ProbesDistinct ==
  ASSUME NEW recs \in Seq(Records),
         NEW p \in RecordsToProbes(recs), NEW q \in RecordsToProbes(recs),
         p.name = q.name
  PROVE  p = q
<1> DEFINE N(i) == NameOf(recs[i].sheet, recs[i].row)
           First(i) == recs[i].row.on /\ \A j \in 1 .. i - 1 : recs[j].row.on => N(j) # N(i)
<1>1. PICK i \in DOMAIN recs : First(i) /\ p = [name |-> N(i), target |-> recs[i].row.target]
  BY DEF RecordsToProbes
<1>2. PICK k \in DOMAIN recs : First(k) /\ q = [name |-> N(k), target |-> recs[k].row.target]
  BY DEF RecordsToProbes
<1>3. i \in Nat \ {0} /\ k \in Nat \ {0} /\ N(i) = N(k)
  BY <1>1, <1>2, LenProperties
<1>4. i = k
  <2> HIDE DEF N
  <2> QED
    BY <1>1, <1>2, <1>3
<1> QED
  BY <1>1, <1>2, <1>4

LEMMA LeastElement ==
  ASSUME NEW T \in SUBSET Nat, T # {}
  PROVE  \E k \in T : \A j \in T : k <= j
<1> DEFINE R == {ss \in Nat \X Nat : ss[1] < ss[2]}
<1>1. IsWellFoundedOn(R, Nat)
  BY NatLessThanWellFounded DEF OpToRel
<1> HIDE DEF R
<1>2. PICK k \in T : \A j \in T : ~(<<j, k>> \in R)
  BY <1>1, WFMin
<1>3. \A j \in T : ~(j < k)
  BY <1>2 DEF R
<1> QED
  BY <1>3

\* No usable row is without a Probe of its name.
LEMMA EveryNameHasProbe ==
  ASSUME NEW recs \in Seq(Records), NEW i \in DOMAIN recs, recs[i].row.on
  PROVE  \E p \in RecordsToProbes(recs) : p.name = NameOf(recs[i].sheet, recs[i].row)
<1> DEFINE N(k) == NameOf(recs[k].sheet, recs[k].row)
           Same == {k \in DOMAIN recs : recs[k].row.on /\ N(k) = N(i)}
<1>1. DOMAIN recs = 1 .. Len(recs) /\ Len(recs) \in Nat
  BY LenProperties
<1> HIDE DEF N
<1>2. Same \in SUBSET Nat /\ i \in Same
  BY <1>1
<1>3. PICK k \in Same : \A j \in Same : k <= j
  BY <1>2, LeastElement
<1>4. k \in DOMAIN recs /\ k \in 1 .. Len(recs) /\ recs[k].row.on /\ N(k) = N(i)
  BY <1>1, <1>3
<1>5. ASSUME NEW j \in 1 .. k - 1, recs[j].row.on
      PROVE  N(j) # N(k)
  <2>1. j \in DOMAIN recs /\ ~(k <= j)
    BY <1>1, <1>4
  <2> QED
    BY <1>3, <1>4, <1>5, <2>1
<1>6. [name |-> N(k), target |-> recs[k].row.target] \in RecordsToProbes(recs)
  BY <1>4, <1>5 DEF N, RecordsToProbes
<1> QED
  BY <1>4, <1>6 DEF N

LEMMA NoRecordsNoProbes == RecordsToProbes(<< >>) = {}
  BY DEF RecordsToProbes

-----------------------------------------------------------------------------
(* The sheets.                                                             *)

LEMMA RowsInserted ==
  ASSUME NEW q \in Seq(Rows), NEW i \in 1 .. Len(q) + 1, NEW row \in Rows
  PROVE  /\ InsertAt(q, i, row) \in Seq(Rows) /\ Len(InsertAt(q, i, row)) = Len(q) + 1
         /\ \A k \in 1 .. i - 1 : InsertAt(q, i, row)[k] = q[k]
         /\ InsertAt(q, i, row)[i] = row
         /\ \A k \in i .. Len(q) : InsertAt(q, i, row)[k + 1] = q[k]
<1> DEFINE a == SubSeq(q, 1, i - 1)
           b == SubSeq(q, i, Len(q))
           d == a \o <<row>>
           new == d \o b
<1>1. Len(q) \in Nat
  BY LenProperties
<1>2. a \in Seq(Rows) /\ Len(a) = i - 1 /\ \A k \in 1 .. i - 1 : a[k] = q[k]
  BY <1>1, SubSeqProperties
<1>3. b \in Seq(Rows) /\ Len(b) = Len(q) - i + 1 /\ \A k \in 1 .. Len(q) - i + 1 : b[k] = q[k + i - 1]
  BY <1>1, SubSeqProperties
<1>4. /\ d \in Seq(Rows) /\ Len(d) = i
      /\ \A k \in 1 .. i - 1 : d[k] = q[k]
      /\ d[i] = row
  BY <1>2, ConcatProperties
<1> HIDE DEF a, b, d
<1>5. /\ new \in Seq(Rows) /\ Len(new) = Len(q) + 1
      /\ \A k \in 1 .. Len(q) + 1 : new[k] = IF k <= i THEN d[k] ELSE b[k - i]
  <2>1. Len(b) \in Nat /\ Len(d) + Len(b) = Len(q) + 1
    BY <1>1, <1>3, <1>4
  <2>2. \A r1, r2 \in Seq(Rows) :
          /\ r1 \o r2 \in Seq(Rows) /\ Len(r1 \o r2) = Len(r1) + Len(r2)
          /\ \A k \in 1 .. Len(r1) + Len(r2) :
               (r1 \o r2)[k] = IF k <= Len(r1) THEN r1[k] ELSE r2[k - Len(r1)]
    BY ConcatProperties
  <2>3. d \in Seq(Rows) /\ b \in Seq(Rows)
    BY <1>3, <1>4
  <2>4. /\ new \in Seq(Rows) /\ Len(new) = Len(d) + Len(b)
        /\ \A k \in 1 .. Len(d) + Len(b) : new[k] = IF k <= Len(d) THEN d[k] ELSE b[k - Len(d)]
    BY <2>2, <2>3
  <2> QED
    BY <1>4, <2>1, <2>4
<1>6. InsertAt(q, i, row) = new
  BY DEF InsertAt, new, d, a, b
<1> HIDE DEF new
<1>7. /\ \A k \in 1 .. i - 1 : new[k] = q[k]
      /\ new[i] = row
  BY <1>1, <1>4, <1>5
<1>8. ASSUME NEW k \in i .. Len(q)
      PROVE  new[k + 1] = q[k]
  <2>1. new[k + 1] = b[k + 1 - i] /\ k + 1 - i \in 1 .. Len(q) - i + 1
    BY <1>1, <1>5
  <2> QED
    BY <1>1, <1>3, <2>1
<1> QED
  BY <1>5, <1>6, <1>7, <1>8

LEMMA RowsDeleted ==
  ASSUME NEW q \in Seq(Rows), NEW i \in DOMAIN q
  PROVE  /\ RemoveAt(q, i) \in Seq(Rows) /\ Len(RemoveAt(q, i)) = Len(q) - 1
         /\ \A j \in 1 .. i - 1 : RemoveAt(q, i)[j] = q[j]
         /\ \A j \in i .. Len(q) - 1 : RemoveAt(q, i)[j] = q[j + 1]
<1> DEFINE a == SubSeq(q, 1, i - 1)
           b == SubSeq(q, i + 1, Len(q))
<1>1. Len(q) \in Nat /\ i \in 1 .. Len(q)
  BY LenProperties
<1>2. a \in Seq(Rows) /\ Len(a) = i - 1 /\ \A j \in 1 .. i - 1 : a[j] = q[j]
  BY <1>1, SubSeqProperties
<1>3. /\ b \in Seq(Rows) /\ Len(b) = Len(q) - i
      /\ \A j \in 1 .. Len(q) - i : b[j] = q[j + i]
  <2>1. /\ b \in Seq(Rows) /\ Len(b) = IF i + 1 <= Len(q) THEN Len(q) - (i + 1) + 1 ELSE 0
        /\ \A j \in 1 .. Len(q) - (i + 1) + 1 : b[j] = q[(i + 1) + j - 1]
    <3>1. \A j \in i + 1 .. Len(q) : q[j] \in Rows
      BY <1>1, ElementOfSeq
    <3> QED
      BY <1>1, <3>1, SubSeqProperties
  <2>2. \A j \in 1 .. Len(q) - i : j \in 1 .. Len(q) - (i + 1) + 1 /\ (i + 1) + j - 1 = j + i
    BY <1>1
  <2> QED
    BY <1>1, <2>1, <2>2
<1> HIDE DEF a, b
<1>4. a \o b \in Seq(Rows) /\ Len(a \o b) = Len(q) - 1
  BY <1>1, <1>2, <1>3, ConcatProperties
<1>5. \A j \in 1 .. Len(q) - 1 : (a \o b)[j] = IF j <= Len(a) THEN a[j] ELSE b[j - Len(a)]
  <2>1. \A r1, r2 \in Seq(Rows) : \A k \in 1 .. Len(r1) + Len(r2) :
          (r1 \o r2)[k] = IF k <= Len(r1) THEN r1[k] ELSE r2[k - Len(r1)]
    BY ConcatProperties
  <2>2. Len(a) + Len(b) = Len(q) - 1
    BY <1>1, <1>2, <1>3
  <2> QED
    BY <1>2, <1>3, <2>1, <2>2
<1>6. \A j \in 1 .. i - 1 : (a \o b)[j] = q[j]
  BY <1>1, <1>2, <1>5
<1>7. ASSUME NEW j \in i .. Len(q) - 1
      PROVE  (a \o b)[j] = q[j + 1]
  <2>1. j \in 1 .. Len(q) - 1 /\ ~(j <= Len(a)) /\ j - Len(a) \in 1 .. Len(q) - i
    BY <1>1, <1>2
  <2>2. (a \o b)[j] = b[j - Len(a)]
    BY <1>5, <2>1
  <2>3. b[j - Len(a)] = q[(j - Len(a)) + i]
    BY <1>3, <2>1
  <2>4. (j - Len(a)) + i = j + 1
    BY <1>1, <1>2
  <2> QED
    BY <2>2, <2>3, <2>4
<1> QED
  BY <1>4, <1>6, <1>7 DEF a, b, RemoveAt

-----------------------------------------------------------------------------
(* The inductive invariant.                                                *)

Working == {"apply", "list", "delete"}

\* What is no longer pending has been applied, and nothing has taken it away;
\* what is left of the list are Probes with the label.
AppliedSoFar ==
  /\ pc = "page" => desired = {}
  /\ pc \in Working =>
       /\ pending \subseteq RecordsToProbes(records)
       /\ desired = {p.name : p \in RecordsToProbes(records) \ pending}
       /\ \A p \in RecordsToProbes(records) \ pending :
            cluster[p.name] = [managed |-> TRUE, target |-> p.target]
  /\ \A n \in existing : Managed(n)

IInv == TypeOK /\ AppliedSoFar

LEMMA ReturnTyped ==
  ASSUME IInv, NEW to \in {"idle", "exit"}, Return(to),
         cluster' \in [ProbeNames -> {None} \cup Objects],
         UNCHANGED worldVars, failures' \in 0 .. MaxFailures
  PROVE  IInv'
<1>1. << >> \in Seq(Records) /\ 1 \in DOMAIN SheetIDs
  BY SheetIDsFacts, EmptySeq
<1> QED
  BY <1>1 DEF IInv, TypeOK, AppliedSoFar, Return, worldVars, Idle, Working

LEMMA FailTyped ==
  ASSUME IInv, Fail, cluster' \in [ProbeNames -> {None} \cup Objects]
  PROVE  IInv'
<1>1. failures' \in 0 .. MaxFailures
  BY DEF Fail, IInv, TypeOK
<1>2. PICK to \in {"idle", "exit"} : Return(to)
  BY DEF Fail
<1> QED
  BY <1>1, <1>2, ReturnTyped DEF Fail

LEMMA SucceedTyped ==
  ASSUME IInv, Succeed, UNCHANGED <<worldVars, cluster, failures>>
  PROVE  IInv'
<1>1. PICK to \in {"idle", "exit"} : Return(to)
  BY DEF Succeed
<1> QED
  BY <1>1, ReturnTyped DEF IInv, TypeOK

\* Applying one Probe, and deleting one that no row asked for.
LEMMA ApplyTyped ==
  ASSUME IInv, pc = "apply", NEW p \in pending, Applied(p)
  PROVE  /\ cluster' \in [ProbeNames -> {None} \cup Objects]
         /\ p \in RecordsToProbes(records) /\ p.name \in ProbeNames
         /\ cluster'[p.name] = [managed |-> TRUE, target |-> p.target]
         /\ \A n \in ProbeNames \ {p.name} : cluster'[n] = cluster[n]
<1>1. p \in Specs /\ p \in RecordsToProbes(records)
  BY DEF IInv, TypeOK, AppliedSoFar, Working
<1>2. p.name \in ProbeNames /\ [managed |-> TRUE, target |-> p.target] \in Objects
  BY <1>1 DEF Specs, Objects
<1> QED
  BY <1>1, <1>2 DEF IInv, TypeOK, Applied

LEMMA DeleteTyped ==
  ASSUME IInv, NEW n \in existing, Deleted(n)
  PROVE  /\ cluster' \in [ProbeNames -> {None} \cup Objects]
         /\ n \in ProbeNames /\ Managed(n)
         /\ \A k \in ProbeNames \ {n} : cluster'[k] = cluster[k]
  BY DEF IInv, TypeOK, AppliedSoFar, Deleted

LEMMA ApplyInvariant ==
  ASSUME IInv, NEW p \in pending, Apply(p)
  PROVE  IInv'
<1>1. /\ cluster' \in [ProbeNames -> {None} \cup Objects]
      /\ p \in RecordsToProbes(records) /\ p.name \in ProbeNames
      /\ cluster'[p.name] = [managed |-> TRUE, target |-> p.target]
      /\ \A n \in ProbeNames \ {p.name} : cluster'[n] = cluster[n]
  BY ApplyTyped DEF Apply
<1>2. TypeOK'
  BY <1>1 DEF Apply, IInv, TypeOK, worldVars, Idle
<1>3. ASSUME NEW q \in RecordsToProbes(records) \ (pending \ {p})
      PROVE  cluster'[q.name] = [managed |-> TRUE, target |-> q.target]
  <2>1. CASE q.name = p.name
    <3>1. q = p
      BY <1>1, <2>1, ProbesDistinct DEF IInv, TypeOK
    <3> QED
      BY <1>1, <3>1
  <2>2. CASE q.name # p.name
    <3>1. q.name \in ProbeNames
      BY ProbesTyped DEF IInv, TypeOK, Specs
    <3> QED
      BY <1>1, <2>2, <3>1 DEF Apply, IInv, AppliedSoFar, Working
  <2> QED
    BY <2>1, <2>2
<1>4. desired' = {q.name : q \in RecordsToProbes(records) \ pending'}
  BY <1>1 DEF Apply, IInv, AppliedSoFar, Working
<1> QED
  BY <1>2, <1>3, <1>4 DEF Apply, IInv, TypeOK, AppliedSoFar, Working

LEMMA DeleteInvariant ==
  ASSUME IInv, NEW n \in existing, Delete(n)
  PROVE  IInv'
<1>1. /\ cluster' \in [ProbeNames -> {None} \cup Objects]
      /\ n \in ProbeNames
      /\ \A k \in ProbeNames \ {n} : cluster'[k] = cluster[k]
  BY DeleteTyped DEF Delete
<1>2. TypeOK'
  BY <1>1 DEF Delete, IInv, TypeOK, worldVars, Idle
<1>3. ASSUME NEW q \in RecordsToProbes(records) \ pending
      PROVE  cluster'[q.name] = [managed |-> TRUE, target |-> q.target]
  <2>1. q.name \in ProbeNames /\ q.name \in desired
    BY ProbesTyped DEF Delete, IInv, TypeOK, Specs, AppliedSoFar, Working
  <2> QED
    BY <1>1, <2>1 DEF Delete, IInv, AppliedSoFar, Working
<1>4. \A k \in existing' : Managed(k)'
  BY <1>1 DEF Delete, IInv, TypeOK, AppliedSoFar, Managed
<1> QED
  BY <1>2, <1>3, <1>4 DEF Delete, IInv, AppliedSoFar, Working

\* The rows of a page join those read before.
LEMMA PageRead ==
  ASSUME TypeOK, pc = "page"
  PROVE  LET s == SheetIDs[at]
             page == PageRows(s)
             read == records \o [i \in DOMAIN page |-> [sheet |-> s, row |-> page[i]]]
         IN  /\ s \in Sheets
             /\ page \in Seq(Rows)
             /\ Len(page) \in Nat
             /\ offset <= Len(sheet[s]) =>
                  Len(page) = Smaller(offset + Smaller(PageSize, ServerPage), Len(sheet[s])) - offset
             /\ \A i \in 1 .. Len(page) : page[i] = sheet[s][offset + i]
             /\ read \in Seq(Records)
             /\ Len(read) = Len(records) + Len(page)
             /\ \A i \in 1 .. Len(records) : read[i] = records[i]
             /\ \A i \in 1 .. Len(page) : read[Len(records) + i] = [sheet |-> s, row |-> page[i]]
<1> DEFINE s == SheetIDs[at]
           q == sheet[s]
           top == Smaller(offset + Smaller(PageSize, ServerPage), Len(q))
           page == PageRows(s)
           more == [i \in DOMAIN page |-> [sheet |-> s, row |-> page[i]]]
<1>1. s \in Sheets
  BY SheetIDsFacts DEF TypeOK
<1>2. q \in Seq(Rows)
  BY <1>1 DEF TypeOK
<1>3. Len(q) \in Nat /\ top \in Nat /\ top <= Len(q) /\ offset \in Nat
  BY <1>2, LenProperties DEF Smaller, TypeOK
<1>3a. page = SubSeq(q, offset + 1, top)
  BY DEF PageRows
<1> HIDE DEF top, q
<1>4. ASSUME NEW i \in offset + 1 .. top
      PROVE  q[i] \in Rows
  <2>1. i \in 1 .. Len(q)
    BY <1>3
  <2> QED
    BY <1>2, <2>1, ElementOfSeq
<1> HIDE DEF page, s
<1>5. /\ page \in Seq(Rows)
      /\ Len(page) = IF offset + 1 <= top THEN top - (offset + 1) + 1 ELSE 0
      /\ \A i \in 1 .. top - (offset + 1) + 1 : page[i] = q[(offset + 1) + i - 1]
  BY <1>3, <1>3a, <1>4, SubSeqProperties
<1>6. Len(page) \in Nat /\ \A i \in 1 .. Len(page) : page[i] = q[offset + i]
  BY <1>3, <1>5
<1>7. offset <= Len(q) => Len(page) = top - offset
  BY <1>3, <1>5 DEF top, Smaller
<1>8. DOMAIN page = 1 .. Len(page) /\ \A i \in 1 .. Len(page) : page[i] \in Rows
  BY <1>5, LenProperties
<1>9. more \in Seq(Records) /\ Len(more) = Len(page)
  <2>1. more \in [1 .. Len(page) -> Records]
    BY <1>1, <1>8 DEF Records
  <2>2. more \in Seq(Records)
    BY <1>6, <2>1, SeqDef
  <2> HIDE DEF more
  <2>3. DOMAIN more = 1 .. Len(more) /\ Len(more) \in Nat /\ DOMAIN more = 1 .. Len(page)
    BY <2>1, <2>2, LenProperties
  <2> QED
    BY <1>6, <2>2, <2>3
<1>10. \A i \in 1 .. Len(page) : more[i] = [sheet |-> s, row |-> page[i]]
  BY <1>8
<1> HIDE DEF more
<1>11. records \in Seq(Records) /\ Len(records) \in Nat
  BY LenProperties DEF TypeOK
<1>11a. /\ records \o more \in Seq(Records)
        /\ Len(records \o more) = Len(records) + Len(more)
        /\ \A i \in 1 .. Len(records) + Len(more) :
             (records \o more)[i] = IF i <= Len(records) THEN records[i] ELSE more[i - Len(records)]
  <2>1. more \in Seq(Records) /\ records \in Seq(Records)
    BY <1>9, <1>11
  <2>2. \A r1, r2 \in Seq(Records) :
          /\ r1 \o r2 \in Seq(Records)
          /\ Len(r1 \o r2) = Len(r1) + Len(r2)
          /\ \A i \in 1 .. Len(r1) + Len(r2) :
               (r1 \o r2)[i] = IF i <= Len(r1) THEN r1[i] ELSE r2[i - Len(r1)]
    BY ConcatProperties
  <2> QED
    BY <2>1, <2>2
<1>12. /\ records \o more \in Seq(Records)
       /\ Len(records \o more) = Len(records) + Len(page)
       /\ \A i \in 1 .. Len(records) + Len(page) :
            (records \o more)[i] = IF i <= Len(records) THEN records[i] ELSE more[i - Len(records)]
  BY <1>9, <1>11a
<1>13. ASSUME NEW i \in 1 .. Len(records)
       PROVE  (records \o more)[i] = records[i]
  <2>1. i \in 1 .. Len(records) + Len(page) /\ i <= Len(records)
    BY <1>6, <1>11
  <2> QED
    BY <1>12, <2>1
<1>14. ASSUME NEW i \in 1 .. Len(page)
       PROVE  (records \o more)[Len(records) + i] = [sheet |-> s, row |-> page[i]]
  <2>1. /\ Len(records) + i \in 1 .. Len(records) + Len(page)
        /\ ~(Len(records) + i <= Len(records))
        /\ (Len(records) + i) - Len(records) = i
    BY <1>6, <1>11
  <2> QED
    BY <1>10, <1>12, <2>1
<1> QED
  BY <1>1, <1>5, <1>6, <1>7, <1>12, <1>13, <1>14 DEF s, q, page, more, top

LEMMA PageInvariant ==
  ASSUME IInv, PageReceived
  PROVE  IInv'
<1> DEFINE s == SheetIDs[at]
           page == PageRows(s)
           read == records \o [i \in DOMAIN page |-> [sheet |-> s, row |-> page[i]]]
<1>1. read \in Seq(Records) /\ s \in Sheets
  BY PageRead DEF IInv, PageReceived
<1>2. records' = read
  BY DEF PageReceived, SheetDone
<1> HIDE DEF read
<1>3. CASE HasMore(s)
  <2>1. offset' \in Nat
    <3>1. PICK next \in NextOffsets : Advance(next)
      BY <1>3 DEF PageReceived
    <3>2. next \in Nat /\ offset \in Nat
      BY <3>1 DEF NextOffsets, Smaller, IInv, TypeOK
    <3> QED
      BY <3>1, <3>2 DEF Advance
  <2>2. UNCHANGED <<pc, at, pending>>
    BY <1>3 DEF PageReceived
  <2> QED
    BY <1>1, <1>2, <2>1, <2>2
    DEF PageReceived, IInv, TypeOK, AppliedSoFar, Working, worldVars, Managed
<1>4. CASE ~HasMore(s)
  <2>1. SheetDone(read)
    BY <1>4 DEF PageReceived, read
  <2>2. CASE at < Len(SheetIDs)
    <3>1. at' \in DOMAIN SheetIDs
      BY <2>1, <2>2, SheetIDsFacts DEF SheetDone, IInv, TypeOK
    <3>2. offset' = 0 /\ UNCHANGED <<pc, pending>>
      BY <2>1, <2>2 DEF SheetDone
    <3> QED
      BY <1>1, <1>2, <3>1, <3>2
      DEF PageReceived, IInv, TypeOK, AppliedSoFar, Working, worldVars, Managed
  <2>3. CASE ~(at < Len(SheetIDs))
    <3>1. /\ offset' = 0 /\ pc' = "apply" /\ at' = 1 /\ pending' = RecordsToProbes(read)
      BY <2>1, <2>3 DEF SheetDone
    <3>2. 1 \in DOMAIN SheetIDs /\ RecordsToProbes(read) \subseteq Specs
      BY <1>1, SheetIDsFacts, ProbesTyped
    <3>3. TypeOK'
      BY <1>1, <1>2, <3>1, <3>2 DEF PageReceived, IInv, TypeOK, worldVars
    <3> QED
      BY <1>2, <3>1, <3>3 DEF PageReceived, IInv, TypeOK, AppliedSoFar, Working, Managed
  <2> QED
    BY <2>2, <2>3
<1> QED
  BY <1>3, <1>4

LEMMA EditInvariant ==
  ASSUME IInv, Edit
  PROVE  IInv'
<1>1. ASSUME NEW s \in Sheets, NEW rows \in Seq(Rows), Len(rows) <= MaxRows, Edited(s, rows)
      PROVE  IInv'
  <2>1. steady' \subseteq Records /\ edits' \in 0 .. MaxEdits
    BY <1>1 DEF Edited, IInv, TypeOK
  <2>2. sheet' \in [Sheets -> Seq(Rows)] /\ \A t \in Sheets : Len(sheet'[t]) <= MaxRows
    BY <1>1 DEF Edited, IInv, TypeOK
  <2> QED
    BY <1>1, <2>1, <2>2
    DEF Edited, IInv, TypeOK, AppliedSoFar, Working, syncVars, Managed, Idle
<1>2. PICK s \in Sheets :
        \/ \E i \in 1 .. MaxRows, c \in Contents : InsertRow(s, i, c)
        \/ \E i \in 1 .. MaxRows, c \in Contents : RewriteRow(s, i, c)
        \/ \E i \in 1 .. MaxRows : DeleteRow(s, i)
  BY DEF Edit
<1>3. sheet[s] \in Seq(Rows) /\ Len(sheet[s]) <= MaxRows /\ Len(sheet[s]) \in Nat
  BY LenProperties DEF IInv, TypeOK
<1>4. ASSUME NEW i, NEW c \in Contents, InsertRow(s, i, c)
      PROVE  IInv'
  <2> DEFINE row == Row(MaxRows + edits + 1, c)
             rows == InsertAt(sheet[s], i, row)
  <2>0. edits \in Nat /\ edits < MaxEdits
    BY <1>4 DEF InsertRow, Edited, IInv, TypeOK
  <2>1. row \in Rows
    BY <2>0, RowTyped
  <2>2. Edited(s, rows) /\ i \in 1 .. Len(sheet[s]) + 1 /\ Len(sheet[s]) < MaxRows
    BY <1>4 DEF InsertRow
  <2> HIDE DEF row
  <2>3. rows \in Seq(Rows) /\ Len(rows) = Len(sheet[s]) + 1
    BY <1>3, <2>1, <2>2, RowsInserted
  <2> HIDE DEF rows
  <2> QED
    BY <1>1, <1>3, <2>2, <2>3
<1>5. ASSUME NEW i, NEW c \in Contents, RewriteRow(s, i, c)
      PROVE  IInv'
  <2> DEFINE row == Row(sheet[s][i].id, c)
             rows == [sheet[s] EXCEPT ![i] = row]
  <2>1. i \in 1 .. Len(sheet[s]) /\ Edited(s, rows)
    BY <1>3, <1>5, LenProperties DEF RewriteRow
  <2>2. sheet[s][i] \in Rows
    BY <1>3, <2>1, ElementOfSeq
  <2>3. row \in Rows
    BY <2>2, RowTyped, RowFacts
  <2> HIDE DEF row
  <2>4. rows \in Seq(Rows) /\ Len(rows) = Len(sheet[s])
    BY <1>3, <2>1, <2>3, ExceptSeq
  <2> HIDE DEF rows
  <2> QED
    BY <1>1, <1>3, <2>1, <2>4
<1>6. ASSUME NEW i, DeleteRow(s, i)
      PROVE  IInv'
  <2> DEFINE rows == RemoveAt(sheet[s], i)
  <2>1. i \in DOMAIN sheet[s] /\ Edited(s, rows)
    BY <1>6 DEF DeleteRow
  <2>2. rows \in Seq(Rows) /\ Len(rows) = Len(sheet[s]) - 1
    BY <1>3, <2>1, RowsDeleted
  <2> HIDE DEF rows
  <2> QED
    BY <1>1, <1>3, <2>1, <2>2
<1> QED
  BY <1>2, <1>4, <1>5, <1>6

\* The steps that change neither the cluster nor a sheet.
LEMMA QuietInvariant ==
  ASSUME IInv,
         \/ TokenReceived \/ AllApplied \/ ListManaged
         \/ \E n \in existing : Keep(n)
         \/ AllDeleted \/ Tick \/ Restart
  PROVE  IInv'
<1>1. CASE TokenReceived
  BY <1>1 DEF TokenReceived, IInv, TypeOK, AppliedSoFar, Working, worldVars, syncVars, Idle, Managed
<1>2. CASE AllApplied
  <2>1. CASE Prune
    BY <1>2, <2>1 DEF AllApplied, IInv, TypeOK, AppliedSoFar, Working, worldVars, syncVars, Managed
  <2>2. CASE ~Prune
    BY <1>2, <2>2, SucceedTyped DEF AllApplied
  <2> QED
    BY <2>1, <2>2
<1>3. CASE ListManaged
  BY <1>3 DEF ListManaged, IInv, TypeOK, AppliedSoFar, Working, worldVars, Managed
<1>4. ASSUME NEW n \in existing, Keep(n)
      PROVE  IInv'
  BY <1>4 DEF Keep, IInv, TypeOK, AppliedSoFar, Working, worldVars, Managed
<1>5. CASE AllDeleted
  BY <1>5, SucceedTyped DEF AllDeleted
<1>6. CASE Tick \/ Restart
  <2>1. Usable \subseteq Records
    BY DEF Usable
  <2> QED
    BY <1>6, <2>1
    DEF Tick, Restart, Begin, IInv, TypeOK, AppliedSoFar, Working, syncVars, Idle, Managed
<1> QED
  BY <1>1, <1>2, <1>3, <1>4, <1>5, <1>6

LEMMA MishapInvariant ==
  ASSUME IInv, Mishap
  PROVE  IInv'
<1>1. CASE CallFails
  BY <1>1, FailTyped DEF CallFails, IInv, TypeOK
<1>2. ASSUME NEW p \in pending, ApplyFails(p)
      PROVE  IInv'
  BY <1>2, ApplyTyped, FailTyped DEF ApplyFails, IInv, TypeOK
<1>3. ASSUME NEW n \in existing, DeleteFails(n)
      PROVE  IInv'
  BY <1>3, DeleteTyped, FailTyped DEF DeleteFails, IInv, TypeOK
<1>4. CASE Stop
  BY <1>4, ReturnTyped DEF Stop, IInv, TypeOK
<1> QED
  BY <1>1, <1>2, <1>3, <1>4 DEF Mishap

LEMMA StepInvariant ==
  ASSUME IInv, [Next]_vars
  PROVE  IInv'
<1>1. CASE UNCHANGED vars
  BY <1>1 DEF vars, worldVars, syncVars, IInv, TypeOK, AppliedSoFar, Working, Idle, Managed
<1> QED
  BY <1>1, PageInvariant, EditInvariant, QuietInvariant, MishapInvariant,
     ApplyInvariant, DeleteInvariant DEF Next, Step

LEMMA InitInvariant ==
  ASSUME Init
  PROVE  IInv
<1>1. << >> \in Seq(Records) /\ 1 \in DOMAIN SheetIDs
  BY SheetIDsFacts, EmptySeq
<1>2. ASSUME NEW s \in Sheets
      PROVE  sheet[s] \in Seq(Rows) /\ Len(sheet[s]) \in Nat /\ Len(sheet[s]) <= MaxRows
  <2>0. PICK k \in 0 .. MaxRows : sheet[s] \in Filled(k)
    BY DEF Init
  <2>1. PICK c \in [1 .. k -> Contents] : sheet[s] = [i \in 1 .. k |-> Row(i, c[i])]
    BY <2>0 DEF Filled
  <2>2. ASSUME NEW i \in 1 .. k
        PROVE  Row(i, c[i]) \in Rows
    <3>1. i \in 1 .. MaxRows + MaxEdits /\ c[i] \in Contents
      OBVIOUS
    <3> QED
      BY <3>1, RowTyped
  <2>3. sheet[s] \in [1 .. k -> Rows] /\ k \in Nat
    BY <2>1, <2>2
  <2>4. sheet[s] \in Seq(Rows)
    BY <2>3, SeqDef
  <2>5. DOMAIN sheet[s] = 1 .. k /\ DOMAIN sheet[s] = 1 .. Len(sheet[s]) /\ Len(sheet[s]) \in Nat
    BY <2>3, <2>4, LenProperties
  <2> QED
    BY <2>3, <2>4, <2>5
<1>3. sheet \in [Sheets -> Seq(Rows)] /\ \A s \in Sheets : Len(sheet[s]) <= MaxRows
  <2>1. sheet = [s \in Sheets |-> sheet[s]]
    BY DEF Init
  <2> QED
    BY <1>2, <2>1
<1>4. Usable \subseteq Records
  BY DEF Usable
<1> QED
  BY <1>1, <1>3, <1>4 DEF Init, IInv, TypeOK, AppliedSoFar, Working, Idle

THEOREM Invariant == Spec => []IInv
  BY InitInvariant, StepInvariant, PTL DEF Spec

-----------------------------------------------------------------------------
(* The results.                                                            *)

\* Every variable keeps its type, and a synchronisation leaves nothing behind
\* for the next one.
THEOREM TypeCorrect == Spec => []TypeOK
<1>1. IInv => TypeOK
  BY DEF IInv
<1> QED
  BY <1>1, Invariant, PTL

\* What others have made changes only by being taken over for a row that asks
\* for a Probe of that name.
THEOREM ForeignIsKept == Spec => ForeignKept
<1> DEFINE Kept ==
      \A n \in ProbeNames :
        cluster[n] # None /\ ~cluster[n].managed /\ cluster'[n] # cluster[n] =>
          /\ Managed(n)'
          /\ \E p \in RecordsToProbes(records) : p.name = n
<1>1. IInv /\ [Next]_vars => [Kept]_vars
  <2> SUFFICES ASSUME IInv, Next, NEW n \in ProbeNames,
                      cluster[n] # None, ~cluster[n].managed, cluster'[n] # cluster[n]
               PROVE  Managed(n)' /\ \E p \in RecordsToProbes(records) : p.name = n
    OBVIOUS
  <2>1. PICK p \in pending : pc = "apply" /\ Applied(p)
    <3>1. ASSUME NEW k \in existing, Deleted(k)
          PROVE  FALSE
      BY <3>1, DeleteTyped DEF Managed
    <3> QED
      BY <3>1
      DEF Next, Step, Mishap, Edit, TokenReceived, PageReceived, Apply, AllApplied, ListManaged,
          Keep, Delete, AllDeleted, Tick, Restart, Begin, CallFails, ApplyFails, DeleteFails,
          Stop, InsertRow, RewriteRow, DeleteRow, Edited
  <2>2. /\ p \in RecordsToProbes(records) /\ p.name = n
        /\ cluster'[n] = [managed |-> TRUE, target |-> p.target]
        /\ cluster' \in [ProbeNames -> {None} \cup Objects]
    BY <2>1, ApplyTyped
  <2>3. p.target \in Targets
    BY <2>1 DEF IInv, TypeOK, Specs
  <2> QED
    BY <2>2, <2>3, ObjectIsSome DEF Managed
<1> QED
  BY <1>1, Invariant, PTL DEF Spec, ForeignKept

\* Pruning takes no target away that a row asks for, whatever was renamed and
\* whatever failed.
THEOREM PruneKeepsTheTargets == Spec => PruneKeepsTargets
<1> DEFINE Kept ==
      pc = "delete" =>
        \A t \in Targets : Probed(t) /\ ~Probed(t)' =>
          ~\E p \in RecordsToProbes(records) : p.target = t
<1>1. IInv /\ [Next]_vars => [Kept]_vars
  <2> SUFFICES ASSUME IInv, Next, pc = "delete", NEW p \in RecordsToProbes(records)
               PROVE  Probed(p.target)'
    BY DEF Kept
  <2>1. /\ p.name \in ProbeNames /\ p.name \in desired /\ p.target \in Targets
        /\ cluster[p.name] = [managed |-> TRUE, target |-> p.target]
    BY ProbesTyped DEF IInv, TypeOK, Specs, AppliedSoFar, Working
  <2>2. cluster'[p.name] = cluster[p.name]
    <3>1. ASSUME NEW k \in existing, Deleted(k), k \notin desired
          PROVE  cluster'[p.name] = cluster[p.name]
      BY <2>1, <3>1, DeleteTyped
    <3> QED
      BY <3>1
      DEF Next, Step, Mishap, Edit, TokenReceived, PageReceived, Apply, AllApplied, ListManaged,
          Keep, Delete, AllDeleted, Tick, Restart, Begin, CallFails, ApplyFails, DeleteFails,
          Stop, InsertRow, RewriteRow, DeleteRow, Edited
  <2> QED
    BY <2>1, <2>2, ObjectIsSome DEF Probed, Managed
<1> QED
  BY <1>1, Invariant, PTL DEF Spec, PruneKeepsTargets

-----------------------------------------------------------------------------
(* The end of a synchronisation.                                           *)

\* After the list, a Probe with the label is still to be looked at or asked for.
NoneOverlooked ==
  pc = "delete" => \A n \in ProbeNames : Managed(n) => n \in existing \cup desired

LEMMA NoneIsOverlooked ==
  ASSUME IInv, NoneOverlooked, [Next]_vars
  PROVE  NoneOverlooked'
<1>1. CASE ListManaged
  BY <1>1 DEF ListManaged, NoneOverlooked, Managed
<1>2. ASSUME NEW n \in existing, Keep(n)
      PROVE  NoneOverlooked'
  BY <1>2 DEF Keep, NoneOverlooked, Managed
<1>3. ASSUME NEW n \in existing, Delete(n)
      PROVE  NoneOverlooked'
  <2>1. ~Managed(n)' /\ \A k \in ProbeNames \ {n} : cluster'[k] = cluster[k]
    BY <1>3, DeleteTyped DEF Delete, Deleted, IInv, TypeOK, Managed
  <2> QED
    BY <1>3, <2>1 DEF Delete, NoneOverlooked, Managed
<1>4. CASE UNCHANGED vars \/ Edit
  BY <1>4
  DEF vars, worldVars, syncVars, Edit, InsertRow, RewriteRow, DeleteRow, Edited,
      NoneOverlooked, Managed
<1>5. CASE \/ TokenReceived \/ PageReceived \/ AllApplied \/ AllDeleted \/ Tick \/ Restart
           \/ (\E p \in pending : Apply(p)) \/ Mishap
  <2>1. pc' # "delete"
    BY <1>5
    DEF TokenReceived, PageReceived, SheetDone, AllApplied, AllDeleted, Tick, Restart, Begin,
        Apply, Mishap, CallFails, ApplyFails, DeleteFails, Stop, Fail, Succeed, Return
  <2> QED
    BY <2>1 DEF NoneOverlooked
<1> QED
  BY <1>1, <1>2, <1>3, <1>4, <1>5 DEF Next, Step

\* When nothing is left to look at, the Probes with the label are those asked for.
LEMMA EndIsExact ==
  ASSUME IInv, NoneOverlooked, AllDeleted
  PROVE  ManagedProbes = RecordsToProbes(records)
<1> DEFINE Asked == RecordsToProbes(records)
<1>1. pending = {} /\ existing = {} /\ pc = "delete" /\ Asked \subseteq Specs
  BY ProbesTyped DEF AllDeleted, IInv, TypeOK
<1>2. \A p \in Asked : cluster[p.name] = [managed |-> TRUE, target |-> p.target]
  BY <1>1 DEF IInv, AppliedSoFar, Working
<1>3. \A n \in ProbeNames : Managed(n) => \E p \in Asked : p.name = n
  BY <1>1 DEF NoneOverlooked, IInv, AppliedSoFar, Working
<1> HIDE DEF Asked
<1>4. ASSUME NEW p \in Asked
      PROVE  /\ p.name \in ProbeNames /\ Managed(p.name)
             /\ cluster[p.name].target = p.target
             /\ p = [name |-> p.name, target |-> p.target]
  <2>1. p \in Specs
    BY <1>1
  <2>2. p.name \in ProbeNames /\ p.target \in Targets /\ p = [name |-> p.name, target |-> p.target]
    BY <2>1 DEF Specs
  <2>3. cluster[p.name] = [managed |-> TRUE, target |-> p.target]
    BY <1>2
  <2>4. cluster[p.name] # None
    BY <2>2, <2>3, ObjectIsSome
  <2>5. cluster[p.name].managed /\ cluster[p.name].target = p.target
    BY <2>3
  <2> QED
    BY <2>2, <2>4, <2>5 DEF Managed
<1>5. Asked \subseteq ManagedProbes
  BY <1>4 DEF ManagedProbes
<1>6. ASSUME NEW n \in ProbeNames, Managed(n)
      PROVE  [name |-> n, target |-> cluster[n].target] \in Asked
  <2>1. PICK p \in Asked : p.name = n
    BY <1>3, <1>6
  <2> QED
    BY <1>4, <2>1
<1>7. ManagedProbes \subseteq Asked
  BY <1>6 DEF ManagedProbes
<1> QED
  BY <1>5, <1>7 DEF Asked

\* A synchronisation that comes to its end leaves exactly the Probes its rows ask
\* for, whatever was there before.
THEOREM SyncIsExact == Spec => SyncedExactly
<1>1. Init => NoneOverlooked
  BY DEF Init, NoneOverlooked
<1>2. IInv /\ NoneOverlooked /\ [Next]_vars => NoneOverlooked'
  BY NoneIsOverlooked
<1> DEFINE Exact == AllDeleted => ManagedProbes = RecordsToProbes(records)
<1>3. IInv /\ NoneOverlooked => Exact
  BY EndIsExact
<1>4. QED
  BY <1>1, <1>2, <1>3, Invariant, PTL DEF Spec, SyncedExactly

-----------------------------------------------------------------------------
(* Sheets that are left alone: the rows read are the rows there, in order. *)

\* The places of the sheets in P, in their order, are those the records recs
\* come from; f[j] is the place of the j-th.
Mirrors(recs, f, P, sheets) ==
  /\ f \in [DOMAIN recs -> P]
  /\ \A p \in P : \E j \in DOMAIN recs : f[j] = p
  /\ \A i, j \in DOMAIN recs : i < j => Before(f[i], f[j])
  /\ \A j \in DOMAIN recs : recs[j] = [sheet |-> SheetIDs[f[j][1]],
                                         row |-> sheets[SheetIDs[f[j][1]]][f[j][2]]]

Mirrored(recs, P, sheets) == \E f : Mirrors(recs, f, P, sheets)

\* The places the reading has passed.
ReadPlaces == {p \in Places : p[1] < at \/ (p[1] = at /\ p[2] <= offset)}

SheetsRead ==
  /\ pc = "page" => offset <= Len(sheet[SheetIDs[at]]) /\ Mirrored(records, ReadPlaces, sheet)
  /\ pc \in Working => Mirrored(records, Places, sheet)

LEMMA PlacesFacts ==
  ASSUME TypeOK
  PROVE  /\ \A p \in Places : /\ p[1] \in 1 .. Len(SheetIDs)
                              /\ p[2] \in 1 .. Len(sheet[SheetIDs[p[1]]])
                              /\ p = <<p[1], p[2]>>
         /\ \A k \in 1 .. Len(SheetIDs) : \A i \in 1 .. Len(sheet[SheetIDs[k]]) :
              <<k, i>> \in Places
<1>1. DOMAIN SheetIDs = 1 .. Len(SheetIDs) /\ \A k \in DOMAIN SheetIDs : SheetIDs[k] \in Sheets
  BY SheetIDsFacts
<1>2. \A k \in DOMAIN SheetIDs : DOMAIN sheet[SheetIDs[k]] = 1 .. Len(sheet[SheetIDs[k]])
  <2> TAKE k \in DOMAIN SheetIDs
  <2>1. sheet[SheetIDs[k]] \in Seq(Rows)
    BY <1>1 DEF TypeOK
  <2> QED
    BY <2>1, LenProperties
<1>3. ASSUME NEW p \in Places
      PROVE  /\ p[1] \in 1 .. Len(SheetIDs) /\ p[2] \in 1 .. Len(sheet[SheetIDs[p[1]]])
             /\ p = <<p[1], p[2]>>
  <2>1. PICK k \in DOMAIN SheetIDs : p \in {<<k, i>> : i \in DOMAIN sheet[SheetIDs[k]]}
    BY DEF Places
  <2>2. PICK i \in DOMAIN sheet[SheetIDs[k]] : p = <<k, i>>
    BY <2>1
  <2>3. p[1] = k /\ p[2] = i
    BY <2>2
  <2> QED
    BY <1>1, <1>2, <2>2, <2>3
<1>4. ASSUME NEW k \in 1 .. Len(SheetIDs), NEW i \in 1 .. Len(sheet[SheetIDs[k]])
      PROVE  <<k, i>> \in Places
  <2>1. k \in DOMAIN SheetIDs /\ i \in DOMAIN sheet[SheetIDs[k]]
    BY <1>1, <1>2
  <2> QED
    BY <2>1 DEF Places
<1> QED
  BY <1>3, <1>4

\* The API says where the next page begins, or the code guesses it right: it
\* adds the length it asked for, and that is what a page holds.
NothingPassedOver == NamesNext \/ PageSize <= ServerPage

\* The next page begins behind the rows of this one.
LEMMA OffsetFollowsRows ==
  ASSUME NothingPassedOver, offset \in Nat, NEW next \in NextOffsets, Advance(next)
  PROVE  offset' = offset + Smaller(PageSize, ServerPage)
<1>1. PageSize \in Nat \ {0} /\ ServerPage \in Nat \ {0}
  BY SyncAssumption
<1>2. CASE ServerPage < PageSize
  <2>1. next = offset + ServerPage /\ Smaller(PageSize, ServerPage) = ServerPage
    BY <1>1, <1>2 DEF NextOffsets, NothingPassedOver, Smaller
  <2> QED
    BY <1>1, <2>1 DEF Advance
<1>3. CASE ~(ServerPage < PageSize)
  <2>1. next \in {0, offset + PageSize} /\ Smaller(PageSize, ServerPage) = PageSize
    BY <1>1, <1>3 DEF NextOffsets, Smaller
  <2> QED
    BY <1>1, <2>1 DEF Advance
<1> QED
  BY <1>2, <1>3

\* The rows of a page come from the places behind those read before.
LEMMA PageMirrored ==
  ASSUME TypeOK, pc = "page", offset <= Len(sheet[SheetIDs[at]]),
         Mirrored(records, ReadPlaces, sheet)
  PROVE  LET page == PageRows(SheetIDs[at])
             read == records \o [i \in DOMAIN page |-> [sheet |-> SheetIDs[at], row |-> page[i]]]
         IN  /\ Mirrored(read, ReadPlaces \cup {<<at, offset + i>> : i \in 1 .. Len(page)}, sheet)
             /\ Len(page) \in Nat /\ offset + Len(page) <= Len(sheet[SheetIDs[at]])
             /\ HasMore(SheetIDs[at]) => Len(page) = Smaller(PageSize, ServerPage)
             /\ ~HasMore(SheetIDs[at]) => offset + Len(page) = Len(sheet[SheetIDs[at]])
<1> DEFINE s == SheetIDs[at]
           page == PageRows(s)
           read == records \o [i \in DOMAIN page |-> [sheet |-> s, row |-> page[i]]]
           n == Len(page)
           size == Smaller(PageSize, ServerPage)
           new == {<<at, offset + i>> : i \in 1 .. n}
           P == ReadPlaces \cup new
<1>1. /\ s \in Sheets /\ n \in Nat
      /\ n = Smaller(offset + size, Len(sheet[s])) - offset
      /\ \A i \in 1 .. n : page[i] = sheet[s][offset + i]
      /\ read \in Seq(Records) /\ Len(read) = Len(records) + n
      /\ \A i \in 1 .. Len(records) : read[i] = records[i]
      /\ \A i \in 1 .. n : read[Len(records) + i] = [sheet |-> s, row |-> page[i]]
  BY PageRead
<1>2. /\ records \in Seq(Records) /\ Len(records) \in Nat /\ offset \in Nat
      /\ DOMAIN records = 1 .. Len(records)
      /\ DOMAIN read = 1 .. Len(records) + n
      /\ at \in 1 .. Len(SheetIDs) /\ Len(sheet[s]) \in Nat /\ size \in Nat \ {0}
  <2>1. sheet[s] \in Seq(Rows)
    BY <1>1 DEF TypeOK
  <2>2. size \in Nat \ {0}
    BY DEF Smaller
  <2>3. records \in Seq(Records) /\ offset \in Nat /\ at \in 1 .. Len(SheetIDs)
    BY SheetIDsFacts DEF TypeOK
  <2> HIDE DEF s, read, n, size
  <2> QED
    BY <1>1, <2>1, <2>2, <2>3, LenProperties
<1>3. PICK f : Mirrors(records, f, ReadPlaces, sheet)
  BY DEF Mirrored
<1>4. /\ offset + n <= Len(sheet[s])
      /\ HasMore(s) => n = size
      /\ ~HasMore(s) => offset + n = Len(sheet[s])
  <2>1. HasMore(s) <=> offset + size < Len(sheet[s])
    BY DEF HasMore
  <2>2. n = Smaller(offset + size, Len(sheet[s])) - offset
    BY <1>1
  <2>3. offset <= Len(sheet[s])
    OBVIOUS
  <2>4. offset \in Nat /\ size \in Nat /\ Len(sheet[s]) \in Nat
    BY <1>2
  <2> HIDE DEF s, n, size
  <2>5. /\ offset + n <= Len(sheet[s])
        /\ offset + size < Len(sheet[s]) => n = size
        /\ ~(offset + size < Len(sheet[s])) => offset + n = Len(sheet[s])
    <3>1. CASE offset + size < Len(sheet[s])
      <4>1. n = (offset + size) - offset
        BY <2>2, <3>1 DEF Smaller
      <4> QED
        BY <2>4, <3>1, <4>1
    <3>2. CASE ~(offset + size < Len(sheet[s]))
      <4>1. n = Len(sheet[s]) - offset
        BY <2>2, <3>2 DEF Smaller
      <4> QED
        BY <2>3, <2>4, <3>2, <4>1
    <3> QED
      BY <3>1, <3>2
  <2> QED
    BY <2>1, <2>5
<1> DEFINE g == [j \in 1 .. Len(records) + n |->
                   IF j <= Len(records) THEN f[j] ELSE <<at, offset + (j - Len(records))>>]
<1> HIDE DEF read, page, n, size
<1>4a. n \in Nat /\ Len(records) \in Nat
  BY <1>1, <1>2
<1>5. ASSUME NEW j \in 1 .. Len(records) + n
      PROVE  \/ j \in 1 .. Len(records) /\ g[j] = f[j] /\ f[j] \in ReadPlaces
             \/ /\ j > Len(records) /\ j - Len(records) \in 1 .. n
                /\ g[j] = <<at, offset + (j - Len(records))>>
  <2>1. CASE j <= Len(records)
    <3>1. j \in 1 .. Len(records)
      BY <1>4a, <2>1
    <3>2. f[j] \in ReadPlaces
      BY <1>2, <1>3, <3>1 DEF Mirrors
    <3> QED
      BY <2>1, <3>1, <3>2
  <2>2. CASE ~(j <= Len(records))
    <3>1. j > Len(records) /\ j - Len(records) \in 1 .. n
      BY <1>4a, <2>2
    <3> QED
      BY <2>2, <3>1
  <2> QED
    BY <2>1, <2>2
<1>6. g \in [DOMAIN read -> P]
  <2>1. ASSUME NEW j \in 1 .. Len(records) + n
        PROVE  g[j] \in P
    BY <1>5
  <2> HIDE DEF P
  <2> QED
    BY <1>2, <2>1
<1>7. ASSUME NEW p \in P
      PROVE  \E j \in DOMAIN read : g[j] = p
  <2>1. CASE p \in ReadPlaces
    <3>1. PICK j \in 1 .. Len(records) : f[j] = p
      BY <1>2, <1>3, <2>1 DEF Mirrors
    <3>2. j \in 1 .. Len(records) + n /\ g[j] = p
      BY <1>1, <1>2, <3>1
    <3> QED
      BY <1>2, <3>2
  <2>2. CASE p \in new
    <3>1. PICK i \in 1 .. n : p = <<at, offset + i>>
      BY <2>2
    <3>2. /\ Len(records) + i \in 1 .. Len(records) + n /\ ~(Len(records) + i <= Len(records))
          /\ (Len(records) + i) - Len(records) = i
      BY <1>4a
    <3>3. g[Len(records) + i] = p
      BY <3>1, <3>2
    <3> QED
      BY <1>2, <3>2, <3>3
  <2> QED
    BY <2>1, <2>2
<1>8. ASSUME NEW i \in DOMAIN read, NEW j \in DOMAIN read, i < j
      PROVE  Before(g[i], g[j])
  <2>1. i \in 1 .. Len(records) + n /\ j \in 1 .. Len(records) + n
    BY <1>2
  <2>2. CASE j <= Len(records)
    <3>1. i \in 1 .. Len(records) /\ j \in 1 .. Len(records) /\ g[i] = f[i] /\ g[j] = f[j]
      BY <1>2, <1>8, <2>1, <2>2
    <3> QED
      BY <1>2, <1>3, <1>8, <3>1 DEF Mirrors
  <2>3. CASE i <= Len(records) /\ ~(j <= Len(records))
    <3>1. g[i] \in ReadPlaces /\ g[j] = <<at, offset + (j - Len(records))>> /\ j - Len(records) > 0
      <4>1. ~(i > Len(records)) /\ ~(j \in 1 .. Len(records)) /\ i \in Nat /\ j \in Nat
        BY <1>4a, <2>1, <2>3
      <4> HIDE DEF g
      <4>2. g[i] \in ReadPlaces
        BY <1>5, <2>1, <4>1
      <4>3. g[j] = <<at, offset + (j - Len(records))>>
        BY <1>5, <2>1, <4>1
      <4> QED
        BY <1>4a, <2>3, <4>1, <4>2, <4>3
    <3>2. g[i][1] < at \/ (g[i][1] = at /\ g[i][2] <= offset)
      BY <3>1 DEF ReadPlaces
    <3>3. g[i][2] \in Nat
      BY <3>1, PlacesFacts DEF ReadPlaces
    <3>4. g[j][1] = at /\ g[j][2] = offset + (j - Len(records)) /\ j \in Nat
      BY <2>1, <3>1
    <3> HIDE DEF g
    <3>5. offset < g[j][2]
      BY <1>2, <3>1, <3>4
    <3>6. g[i][1] = at => g[i][2] < g[j][2]
      BY <1>2, <3>2, <3>3, <3>4, <3>5
    <3> QED
      BY <3>2, <3>4, <3>6 DEF Before
  <2>4. CASE ~(i <= Len(records))
    <3>1. /\ g[i] = <<at, offset + (i - Len(records))>>
          /\ g[j] = <<at, offset + (j - Len(records))>>
      BY <1>2, <1>8, <2>1, <2>4
    <3> QED
      BY <1>2, <1>8, <2>1, <3>1 DEF Before
  <2> QED
    BY <1>2, <2>1, <2>2, <2>3, <2>4
<1>9. ASSUME NEW j \in DOMAIN read
      PROVE  read[j] = [sheet |-> SheetIDs[g[j][1]], row |-> sheet[SheetIDs[g[j][1]]][g[j][2]]]
  <2>1. j \in 1 .. Len(records) + n
    BY <1>2
  <2>2. CASE j \in 1 .. Len(records) /\ g[j] = f[j]
    BY <1>1, <1>2, <1>3, <2>2 DEF Mirrors
  <2>3. CASE /\ j > Len(records) /\ j - Len(records) \in 1 .. n
             /\ g[j] = <<at, offset + (j - Len(records))>>
    <3> DEFINE i == j - Len(records)
    <3>1. j = Len(records) + i /\ i \in 1 .. n
      BY <1>2, <2>1, <2>3
    <3> HIDE DEF i
    <3>2. read[j] = [sheet |-> s, row |-> sheet[s][offset + i]]
      BY <1>1, <3>1
    <3>3. g[j][1] = at /\ g[j][2] = offset + i
      BY <2>3 DEF i
    <3> QED
      BY <3>2, <3>3
  <2> QED
    BY <1>5, <2>1, <2>2, <2>3
<1>10. Mirrors(read, g, P, sheet)
  <2> HIDE DEF g, P
  <2> QED
    BY <1>6, <1>7, <1>8, <1>9 DEF Mirrors
<1>11. Mirrored(read, P, sheet)
  <2> HIDE DEF g, P
  <2> QED
    BY <1>10 DEF Mirrored
<1> QED
  BY <1>1, <1>4, <1>11 DEF read, page, n, size

\* The next page, or the next sheet.
LEMMA PageGoesOn ==
  ASSUME NothingPassedOver, IInv, SheetsRead, PageReceived, UNCHANGED sheet
  PROVE  SheetsRead'
<1> DEFINE s == SheetIDs[at]
           page == PageRows(s)
           read == records \o [i \in DOMAIN page |-> [sheet |-> s, row |-> page[i]]]
           n == Len(page)
           P == ReadPlaces \cup {<<at, offset + i>> : i \in 1 .. n}
<1>1. /\ pc = "page" /\ offset <= Len(sheet[s]) /\ Mirrored(records, ReadPlaces, sheet)
      /\ offset \in Nat /\ at \in 1 .. Len(SheetIDs) /\ Len(SheetIDs) \in Nat
  BY SheetIDsFacts DEF PageReceived, SheetsRead, IInv, TypeOK
<1>2. /\ Mirrored(read, P, sheet) /\ n \in Nat /\ offset + n <= Len(sheet[s])
      /\ HasMore(s) => n = Smaller(PageSize, ServerPage)
      /\ ~HasMore(s) => offset + n = Len(sheet[s])
  BY <1>1, PageMirrored DEF IInv
<1>3. records' = read /\ Places' = Places
  <2>1. records' = read
    BY DEF PageReceived, SheetDone
  <2> QED
    BY <2>1 DEF Places
<1>4. CASE HasMore(s)
  <2>1. /\ UNCHANGED <<pc, at>> /\ offset' = offset + n
    <3>1. PICK next \in NextOffsets : Advance(next)
      BY <1>4 DEF PageReceived
    <3>2. offset' = offset + Smaller(PageSize, ServerPage)
      BY <1>1, <3>1, OffsetFollowsRows
    <3> QED
      BY <1>2, <1>4, <3>2 DEF PageReceived
  <2>2. ReadPlaces' = P
    <3> HIDE DEF n
    <3>1. ASSUME NEW p \in Places
          PROVE  p \in ReadPlaces' <=> p \in P
      <4>1. /\ p[1] \in 1 .. Len(SheetIDs) /\ p[2] \in Nat /\ p = <<p[1], p[2]>>
        BY PlacesFacts DEF IInv
      <4>2. p \in ReadPlaces' <=> p[1] < at \/ (p[1] = at /\ p[2] <= offset + n)
        BY <1>3, <2>1 DEF ReadPlaces
      <4>3. p \in P <=> \/ p[1] < at \/ (p[1] = at /\ p[2] <= offset)
                        \/ \E i \in 1 .. n : p = <<at, offset + i>>
        BY DEF ReadPlaces
      <4>4. ASSUME p[1] = at, p[2] <= offset + n, ~(p[2] <= offset)
            PROVE  \E i \in 1 .. n : p = <<at, offset + i>>
        <5>1. p[2] - offset \in 1 .. n /\ offset + (p[2] - offset) = p[2]
          BY <1>1, <1>2, <4>1, <4>4
        <5> QED
          BY <4>1, <4>4, <5>1
      <4>5. ASSUME NEW i \in 1 .. n, p = <<at, offset + i>>
            PROVE  p[1] = at /\ p[2] <= offset + n
        BY <1>1, <1>2, <4>5
      <4>6. p[2] <= offset => p[2] <= offset + n
        BY <1>1, <1>2, <4>1
      <4> QED
        BY <4>2, <4>3, <4>4, <4>5, <4>6
    <3>2. P \subseteq Places
      <4>1. ASSUME NEW i \in 1 .. n
            PROVE  <<at, offset + i>> \in Places
        <5>1. offset + i \in 1 .. Len(sheet[s])
          <6>1. Len(sheet[s]) \in Nat
            BY <1>1, SheetIDsFacts, LenProperties DEF IInv, TypeOK
          <6> QED
            BY <1>1, <1>2, <6>1
        <5> QED
          BY <1>1, <5>1, PlacesFacts DEF IInv
      <4> QED
        BY <4>1 DEF ReadPlaces
    <3>3. ReadPlaces' \subseteq Places
      BY <1>3 DEF ReadPlaces
    <3> QED
      BY <3>1, <3>2, <3>3
  <2>3. offset' <= Len(sheet'[SheetIDs[at']])
    BY <1>2, <2>1
  <2> HIDE DEF read, P
  <2>4. Mirrored(records', ReadPlaces', sheet')
    BY <1>2, <1>3, <2>2
  <2> QED
    BY <1>1, <2>1, <2>3, <2>4 DEF SheetsRead, Working
<1>5. CASE ~HasMore(s)
  <2>1. SheetDone(read)
    BY <1>5 DEF PageReceived
  <2>2. P = {p \in Places : p[1] <= at}
    <3> HIDE DEF n
    <3>0. Len(sheet[s]) \in Nat
      BY <1>1, SheetIDsFacts, LenProperties DEF IInv, TypeOK
    <3>1. ASSUME NEW p \in Places
          PROVE  p[1] <= at <=> p \in P
      <4>1. /\ p[1] \in 1 .. Len(SheetIDs) /\ p[2] \in 1 .. Len(sheet[SheetIDs[p[1]]])
            /\ p = <<p[1], p[2]>>
        BY PlacesFacts DEF IInv
      <4>2. p[1] = at => p[2] \in Nat /\ p[2] <= offset + n
        BY <1>2, <1>5, <3>0, <4>1
      <4>3. p \in P <=> \/ p[1] < at \/ (p[1] = at /\ p[2] <= offset)
                        \/ \E i \in 1 .. n : p = <<at, offset + i>>
        BY DEF ReadPlaces
      <4>4. ASSUME p[1] = at, ~(p[2] <= offset)
            PROVE  \E i \in 1 .. n : p = <<at, offset + i>>
        <5>1. offset \in Nat /\ n \in Nat /\ p[2] \in Nat /\ p[2] <= offset + n
          BY <1>1, <1>2, <4>2, <4>4
        <5>2. p[2] - offset \in 1 .. n /\ offset + (p[2] - offset) = p[2]
          BY <4>4, <5>1
        <5> QED
          BY <4>1, <4>4, <5>2
      <4>5. ASSUME NEW i \in 1 .. n, p = <<at, offset + i>>
            PROVE  p[1] = at
        BY <4>5
      <4>6. p[1] <= at <=> p[1] < at \/ p[1] = at
        BY <1>1, <4>1
      <4> QED
        BY <4>3, <4>4, <4>5, <4>6
    <3>2. P \subseteq Places
      <4>1. ASSUME NEW i \in 1 .. n
            PROVE  <<at, offset + i>> \in Places
        <5>1. offset + i \in 1 .. Len(sheet[s])
          BY <1>1, <1>2, <3>0
        <5> QED
          BY <1>1, <5>1, PlacesFacts DEF IInv
      <4> QED
        BY <4>1 DEF ReadPlaces
    <3> QED
      BY <3>1, <3>2
  <2>3. CASE at < Len(SheetIDs)
    <3>1. pc' = pc /\ at' = at + 1 /\ offset' = 0
      BY <2>1, <2>3 DEF SheetDone
    <3>2. ReadPlaces' = {p \in Places : p[1] <= at}
      <4>1. ASSUME NEW p \in Places
            PROVE  (p[1] < at + 1 \/ (p[1] = at + 1 /\ p[2] <= 0)) <=> p[1] <= at
        <5>1. p[1] \in 1 .. Len(SheetIDs) /\ p[2] \in 1 .. Len(sheet[SheetIDs[p[1]]])
          BY PlacesFacts DEF IInv
        <5>2. ~(p[2] <= 0)
          BY <5>1
        <5> QED
          BY <1>1, <5>1, <5>2
      <4> QED
        BY <1>3, <3>1, <4>1 DEF ReadPlaces
    <3>3. offset' <= Len(sheet'[SheetIDs[at']])
      <4>1. SheetIDs[at + 1] \in Sheets
        BY <1>1, <2>3, SheetIDsFacts
      <4>2. Len(sheet[SheetIDs[at + 1]]) \in Nat
        BY <4>1, LenProperties DEF IInv, TypeOK
      <4> QED
        BY <3>1, <4>2
    <3> HIDE DEF read, P
    <3>4. Mirrored(records', ReadPlaces', sheet')
      BY <1>2, <1>3, <2>2, <3>2
    <3> QED
      BY <1>1, <3>1, <3>3, <3>4 DEF SheetsRead, Working
  <2>4. CASE ~(at < Len(SheetIDs))
    <3>1. pc' = "apply"
      BY <2>1, <2>4 DEF SheetDone
    <3>2. P = Places
      <4>1. \A p \in Places : p[1] <= at
        BY <1>1, <2>4, PlacesFacts DEF IInv
      <4> HIDE DEF P
      <4> QED
        BY <2>2, <4>1
    <3> HIDE DEF read, P
    <3>3. Mirrored(records', Places', sheet')
      BY <1>2, <1>3, <3>2
    <3> QED
      BY <3>1, <3>3 DEF SheetsRead, Working
  <2> QED
    BY <2>3, <2>4
<1> QED
  BY <1>4, <1>5

LEMMA TokenGoesOn ==
  ASSUME IInv, TokenReceived
  PROVE  SheetsRead'
<1>1. pc' = "page" /\ at' = 1 /\ offset' = 0 /\ records' = << >> /\ sheet' = sheet
  BY DEF TokenReceived, IInv, TypeOK, Idle, syncVars, worldVars
<1>2. Len(sheet[SheetIDs[1]]) \in Nat
  BY SheetIDsFacts, LenProperties DEF IInv, TypeOK
<1>3. ReadPlaces' = {}
  <2> SUFFICES ASSUME NEW p \in Places, p[1] < 1 \/ (p[1] = 1 /\ p[2] <= 0)
               PROVE  FALSE
    BY <1>1 DEF ReadPlaces, Places
  <2>1. p[1] \in 1 .. Len(SheetIDs) /\ p[2] \in 1 .. Len(sheet[SheetIDs[p[1]]])
    BY PlacesFacts DEF IInv
  <2> QED
    BY <2>1
<1>4. Mirrors(<< >>, << >>, {}, sheet)
  <2>1. DOMAIN << >> = {}
    OBVIOUS
  <2> QED
    BY <2>1 DEF Mirrors
<1>5. Mirrored(records', ReadPlaces', sheet')
  BY <1>1, <1>3, <1>4 DEF Mirrored
<1> QED
  BY <1>1, <1>2, <1>5 DEF SheetsRead, Working

\* A step with the sheets left alone.
LEMMA ReadingGoesOn ==
  ASSUME NothingPassedOver, IInv, SheetsRead, [Next]_vars, UNCHANGED sheet
  PROVE  SheetsRead'
<1>1. CASE \/ AllApplied \/ ListManaged \/ (\E p \in pending : Apply(p))
           \/ (\E n \in existing : Keep(n)) \/ (\E n \in existing : Delete(n))
  <2>1. /\ pc \in Working /\ pc' # "page"
        /\ (pc' \in Working => records' = records) /\ Places' = Places
    BY <1>1
    DEF AllApplied, ListManaged, Apply, Keep, Delete, Succeed, Return, Working, syncVars,
        Places
  <2> QED
    BY <2>1 DEF SheetsRead
<1>2. CASE AllDeleted \/ Tick \/ Restart \/ Mishap
  <2>1. pc' \in {"token", "idle", "exit"}
    BY <1>2
    DEF AllDeleted, Tick, Restart, Begin, Mishap, CallFails, ApplyFails, DeleteFails, Stop,
        Fail, Succeed, Return
  <2> QED
    BY <2>1 DEF SheetsRead, Working
<1>3. CASE UNCHANGED vars \/ Edit
  <2>1. UNCHANGED <<pc, at, offset, records, sheet>>
    BY <1>3 DEF vars, syncVars, worldVars, Edit, InsertRow, RewriteRow, DeleteRow, Edited
  <2> QED
    BY <2>1 DEF SheetsRead, ReadPlaces, Places
<1> QED
  BY <1>1, <1>2, <1>3, PageGoesOn, TokenGoesOn DEF Next, Step

\* Rows that were read as they are there map to the Probes that are wanted.
LEMMA MirroredIsWanted ==
  ASSUME TypeOK, Mirrored(records, Places, sheet)
  PROVE  RecordsToProbes(records) = Wanted
<1>1. PICK f : Mirrors(records, f, Places, sheet)
  BY DEF Mirrored
<1>2. DOMAIN records = 1 .. Len(records) /\ Len(records) \in Nat
  BY LenProperties DEF TypeOK
<1>3. \A i, j \in DOMAIN records : Before(f[i], f[j]) <=> i < j
  <2> SUFFICES ASSUME NEW i \in DOMAIN records, NEW j \in DOMAIN records, Before(f[i], f[j]), ~(i < j)
               PROVE  FALSE
    BY <1>1 DEF Mirrors
  <2>1. f[i] \in Places /\ f[j] \in Places
    BY <1>1 DEF Mirrors
  <2>2. /\ f[i][1] \in 1 .. Len(SheetIDs) /\ f[j][1] \in 1 .. Len(SheetIDs)
        /\ f[i][2] \in Nat /\ f[j][2] \in Nat
    BY <2>1, PlacesFacts
  <2>3. i = j \/ j < i
    BY <1>2
  <2>4. i = j \/ Before(f[j], f[i])
    BY <1>1, <2>3 DEF Mirrors
  <2> QED
    BY <2>2, <2>4 DEF Before
<1> DEFINE N(i) == NameOf(records[i].sheet, records[i].row)
           First(i) == /\ records[i].row.on
                       /\ \A j \in 1 .. i - 1 : records[j].row.on => N(j) # N(i)
           Foremost(p) == /\ RowAt(p).on
                          /\ ~\E r \in Places :
                               Before(r, p) /\ RowAt(r).on /\ NameAt(r) = NameAt(p)
<1>4. ASSUME NEW i \in DOMAIN records
      PROVE  f[i] \in Places /\ N(i) = NameAt(f[i]) /\ records[i].row = RowAt(f[i])
  <2>1. records[i] = [sheet |-> SheetIDs[f[i][1]], row |-> sheet[SheetIDs[f[i][1]]][f[i][2]]]
    BY <1>1 DEF Mirrors
  <2>2. f[i] \in Places
    BY <1>1 DEF Mirrors
  <2> QED
    BY <2>1, <2>2 DEF NameAt, RowAt
<1> HIDE DEF N
<1>5. ASSUME NEW i \in DOMAIN records
      PROVE  First(i) <=> Foremost(f[i])
  <2>1. ASSUME First(i), NEW r \in Places, Before(r, f[i]), RowAt(r).on, NameAt(r) = NameAt(f[i])
        PROVE  FALSE
    <3>1. PICK j \in DOMAIN records : f[j] = r
      BY <1>1 DEF Mirrors
    <3>2. j < i
      BY <1>3, <2>1, <3>1
    <3>3. j \in 1 .. i - 1
      BY <1>2, <3>2
    <3> QED
      BY <1>4, <2>1, <3>1, <3>3
  <2>2. ASSUME Foremost(f[i]), NEW j \in 1 .. i - 1, records[j].row.on, N(j) = N(i)
        PROVE  FALSE
    <3>1. j \in DOMAIN records /\ j < i
      BY <1>2
    <3>2. Before(f[j], f[i])
      BY <1>3, <3>1
    <3> QED
      BY <1>4, <2>2, <3>1, <3>2
  <2>3. records[i].row.on <=> RowAt(f[i]).on
    BY <1>4
  <2> QED
    BY <2>1, <2>2, <2>3
<1>6. RecordsToProbes(records)
        = {[name |-> N(i), target |-> records[i].row.target] : i \in {k \in DOMAIN records : First(k)}}
  BY DEF RecordsToProbes, N
<1>7. Wanted = {[name |-> NameAt(p), target |-> RowAt(p).target] : p \in {q \in Places : Foremost(q)}}
  BY DEF Wanted
<1> HIDE DEF First, Foremost
<1>8. ASSUME NEW i \in DOMAIN records, First(i)
      PROVE  [name |-> N(i), target |-> records[i].row.target] \in Wanted
  <2>1. f[i] \in Places /\ Foremost(f[i]) /\ N(i) = NameAt(f[i]) /\ records[i].row = RowAt(f[i])
    BY <1>4, <1>5, <1>8
  <2> QED
    BY <1>7, <2>1
<1>9. ASSUME NEW p \in Places, Foremost(p)
      PROVE  [name |-> NameAt(p), target |-> RowAt(p).target] \in RecordsToProbes(records)
  <2>1. PICK i \in DOMAIN records : f[i] = p
    BY <1>1 DEF Mirrors
  <2>2. First(i) /\ N(i) = NameAt(p) /\ records[i].row = RowAt(p)
    BY <1>4, <1>5, <1>9, <2>1
  <2> QED
    BY <1>6, <2>2
<1>10. RecordsToProbes(records) \subseteq Wanted
  BY <1>6, <1>8
<1>11. Wanted \subseteq RecordsToProbes(records)
  BY <1>7, <1>9
<1> QED
  BY <1>10, <1>11

\* When the sheets are left alone from the moment a synchronisation begins, every
\* one that comes to its end leaves exactly the Probes the sheets ask for, if the
\* API names the next offset or fills the pages (wecom.go:117-121).
THEOREM SyncedOnceLeftAlone ==
  ASSUME NothingPassedOver
  PROVE  Spec => SyncedWhenLeftAlone
<1> DEFINE Ended == AllDeleted => InSync
<1>1. Init => NoneOverlooked
  BY DEF Init, NoneOverlooked
<1>2. IInv /\ NoneOverlooked /\ [Next]_vars => NoneOverlooked'
  BY NoneIsOverlooked
<1>3. pc = "token" => SheetsRead
  BY DEF SheetsRead, Working
<1>4. IInv /\ SheetsRead /\ [Next]_vars /\ [UNCHANGED sheet]_vars => SheetsRead'
  <2> SUFFICES ASSUME IInv, SheetsRead, [Next]_vars, [UNCHANGED sheet]_vars PROVE SheetsRead'
    OBVIOUS
  <2>1. UNCHANGED sheet
    BY DEF vars, worldVars
  <2> QED
    BY <2>1, ReadingGoesOn
<1>5. IInv /\ NoneOverlooked /\ SheetsRead => [Ended]_vars
  <2> SUFFICES ASSUME IInv, NoneOverlooked, SheetsRead, AllDeleted PROVE InSync
    OBVIOUS
  <2>1. Mirrored(records, Places, sheet)
    BY DEF AllDeleted, SheetsRead, Working
  <2>2. RecordsToProbes(records) = Wanted
    BY <2>1, MirroredIsWanted DEF IInv
  <2> QED
    BY <2>2, EndIsExact DEF InSync
<1> QED
  BY <1>1, <1>2, <1>3, <1>4, <1>5, Invariant, PTL DEF Spec, SyncedWhenLeftAlone

-----------------------------------------------------------------------------
(* Steady rows, when rows are inserted, rewritten and disabled at any time *)
(* but deleted only while no page is being read.                           *)

\* Two rows of a sheet have two record_ids.
IdsDistinct ==
  \A s \in Sheets : \A i, j \in DOMAIN sheet[s] :
    /\ sheet[s][i].id <= MaxRows + edits
    /\ sheet[s][i].id = sheet[s][j].id => i = j

Read(x) == \E i \in DOMAIN records : records[i] = x

\* The reading has yet to come to the row.
Ahead(x) ==
  \E k \in DOMAIN SheetIDs, i \in DOMAIN sheet[x.sheet] :
    /\ SheetIDs[k] = x.sheet
    /\ sheet[x.sheet][i] = x.row
    /\ k > at \/ (k = at /\ i > offset)

\* No steady row escapes the reading.
SteadyRead ==
  \A x \in steady :
    /\ x \in Usable
    /\ pc = "page" => Read(x) \/ Ahead(x)
    /\ pc \in Working => Read(x)

SInv == IInv /\ IdsDistinct /\ SteadyRead

LEMMA SheetFacts ==
  ASSUME TypeOK, NEW s \in Sheets
  PROVE  /\ sheet[s] \in Seq(Rows) /\ Len(sheet[s]) \in Nat
         /\ DOMAIN sheet[s] = 1 .. Len(sheet[s])
         /\ \A i \in DOMAIN sheet[s] : sheet[s][i] \in Rows /\ sheet[s][i].id \in Nat
<1>1. sheet[s] \in Seq(Rows)
  BY DEF TypeOK
<1>2. Len(sheet[s]) \in Nat /\ DOMAIN sheet[s] = 1 .. Len(sheet[s])
  BY <1>1, LenProperties
<1>3. \A i \in DOMAIN sheet[s] : sheet[s][i] \in Rows
  BY <1>1, <1>2, ElementOfSeq
<1> QED
  BY <1>1, <1>2, <1>3, RowFacts

\* What an edit must respect: the other rows keep their order behind the place
\* of the change or move back, and stay what they were.
LEMMA SteadyEdit ==
  ASSUME SInv, NEW s \in Sheets, NEW rows \in Seq(Rows), Edited(s, rows), SInv /\ IInv',
         IdsDistinct',
         \A i \in DOMAIN sheet[s] :
           (\E j \in DOMAIN rows : rows[j] = sheet[s][i])
             => \E j \in DOMAIN rows : j >= i /\ rows[j] = sheet[s][i]
  PROVE  SInv'
<1> SUFFICES ASSUME NEW x \in steady'
             PROVE  /\ x \in Usable'
                    /\ pc = "page" => Read(x) \/ Ahead(x)'
                    /\ pc \in Working => Read(x)
  BY DEF SInv, SteadyRead, Edited, syncVars, Read
<1>1. x \in steady /\ x \in Usable' /\ x \in Records /\ x.sheet \in Sheets
  BY DEF Edited, SInv, IInv, TypeOK, Records
<1>2. sheet' = [sheet EXCEPT ![s] = rows] /\ at' = at /\ offset' = offset
  BY DEF Edited, syncVars
<1>3. sheet'[s] = rows /\ \A t \in Sheets \ {s} : sheet'[t] = sheet[t]
  BY <1>2 DEF SInv, IInv, TypeOK
<1>4. ASSUME Ahead(x)
      PROVE  Ahead(x)'
  <2>1. PICK k \in DOMAIN SheetIDs, i \in DOMAIN sheet[x.sheet] :
          /\ SheetIDs[k] = x.sheet
          /\ sheet[x.sheet][i] = x.row
          /\ k > at \/ (k = at /\ i > offset)
    BY <1>4 DEF Ahead
  <2>2. CASE x.sheet # s
    BY <1>1, <1>2, <1>3, <2>1, <2>2 DEF Ahead
  <2>3. CASE x.sheet = s
    <3>1. PICK j \in DOMAIN rows : rows[j] = sheet[s][i]
      BY <1>1, <1>3, <2>1, <2>3 DEF Usable
    <3>2. PICK l \in DOMAIN rows : l >= i /\ rows[l] = sheet[s][i]
      BY <2>1, <2>3, <3>1
    <3>3. i \in Nat /\ l \in Nat /\ offset \in Nat
      <4>1. DOMAIN sheet[s] = 1 .. Len(sheet[s]) /\ DOMAIN rows = 1 .. Len(rows)
        BY SheetFacts, LenProperties DEF SInv, IInv
      <4> QED
        <5>1. i \in 1 .. Len(sheet[s]) /\ l \in 1 .. Len(rows)
          BY <2>1, <2>3, <3>2, <4>1
        <5>2. Len(sheet[s]) \in Nat /\ Len(rows) \in Nat
          BY SheetFacts, LenProperties DEF SInv, IInv
        <5>3. offset \in Nat
          BY DEF SInv, IInv, TypeOK
        <5> QED
          BY <5>1, <5>2, <5>3
    <3>4. /\ SheetIDs[k] = x.sheet /\ sheet'[x.sheet][l] = x.row /\ l \in DOMAIN sheet'[x.sheet]
          /\ k > at' \/ (k = at' /\ l > offset')
      BY <1>2, <1>3, <2>1, <2>3, <3>2, <3>3
    <3> QED
      BY <3>4 DEF Ahead
  <2> QED
    BY <2>2, <2>3
<1> QED
  BY <1>1, <1>4 DEF SInv, SteadyRead

LEMMA SteadyInsert ==
  ASSUME SInv, NEW s \in Sheets, NEW i \in Nat, NEW c \in Contents, InsertRow(s, i, c)
  PROVE  SInv'
<1> DEFINE q == sheet[s]
           row == Row(MaxRows + edits + 1, c)
           rows == InsertAt(q, i, row)
<1>1. /\ q \in Seq(Rows) /\ Len(q) \in Nat /\ DOMAIN q = 1 .. Len(q)
      /\ \A k \in DOMAIN q : q[k] \in Rows /\ q[k].id \in Nat
  BY SheetFacts DEF SInv, IInv
<1>2. edits \in Nat /\ edits < MaxEdits /\ i \in 1 .. Len(q) + 1 /\ Edited(s, rows)
      /\ Len(q) < MaxRows
  BY DEF InsertRow, Edited, SInv, IInv, TypeOK
<1>3. row \in Rows /\ row.id = MaxRows + edits + 1
  <2>1. MaxRows + edits + 1 \in 1 .. MaxRows + MaxEdits
    BY <1>2
  <2> QED
    BY <2>1, RowTyped DEF Row
<1> HIDE DEF row
<1>4. /\ rows \in Seq(Rows) /\ Len(rows) = Len(q) + 1
      /\ \A k \in 1 .. i - 1 : rows[k] = q[k]
      /\ rows[i] = row
      /\ \A k \in i .. Len(q) : rows[k + 1] = q[k]
  <2>1. \A q1 \in Seq(Rows) : \A i1 \in 1 .. Len(q1) + 1, r1 \in Rows :
          /\ InsertAt(q1, i1, r1) \in Seq(Rows) /\ Len(InsertAt(q1, i1, r1)) = Len(q1) + 1
          /\ \A k \in 1 .. i1 - 1 : InsertAt(q1, i1, r1)[k] = q1[k]
          /\ InsertAt(q1, i1, r1)[i1] = r1
          /\ \A k \in i1 .. Len(q1) : InsertAt(q1, i1, r1)[k + 1] = q1[k]
    BY RowsInserted
  <2>2. q \in Seq(Rows) /\ i \in 1 .. Len(q) + 1 /\ row \in Rows
    BY <1>1, <1>2, <1>3
  <2> HIDE DEF q
  <2> QED
    BY ONLY <2>1, <2>2
<1> HIDE DEF rows
<1>5. DOMAIN rows = 1 .. Len(q) + 1
  BY <1>4, LenProperties
<1>6. IInv'
  <2>1. i \in 1 .. MaxRows
    BY <1>1, <1>2 DEF SInv, IInv, TypeOK
  <2> QED
    BY <2>1, EditInvariant DEF Edit, SInv
<1>7. ASSUME NEW k \in DOMAIN q
      PROVE  \E j \in DOMAIN rows : j >= k /\ rows[j] = q[k]
  <2>1. CASE k < i
    <3>1. k \in 1 .. i - 1 /\ k \in DOMAIN rows /\ k >= k
      BY <1>1, <1>2, <1>5, <2>1
    <3> QED
      BY <1>4, <3>1
  <2>2. CASE ~(k < i)
    <3>1. k \in i .. Len(q) /\ k + 1 \in DOMAIN rows /\ k + 1 >= k
      BY <1>1, <1>2, <1>5, <2>2
    <3> QED
      BY <1>4, <3>1
  <2> QED
    BY <2>1, <2>2
<1>8. \A j \in DOMAIN rows :
        \/ j = i /\ rows[j] = row
        \/ j \in 1 .. i - 1 /\ j \in DOMAIN q /\ rows[j] = q[j]
        \/ j - 1 \in i .. Len(q) /\ j - 1 \in DOMAIN q /\ rows[j] = q[j - 1]
  <2> SUFFICES ASSUME NEW j \in DOMAIN rows
               PROVE  \/ j = i /\ rows[j] = row
                      \/ j \in 1 .. i - 1 /\ j \in DOMAIN q /\ rows[j] = q[j]
                      \/ j - 1 \in i .. Len(q) /\ j - 1 \in DOMAIN q /\ rows[j] = q[j - 1]
    OBVIOUS
  <2>1. CASE j = i
    BY <1>4, <2>1
  <2>2. CASE j < i
    <3>1. j \in 1 .. i - 1 /\ j \in DOMAIN q
      BY <1>1, <1>2, <1>5, <2>2
    <3> QED
      BY <1>4, <3>1
  <2>3. CASE j > i
    <3>1. j - 1 \in i .. Len(q) /\ j - 1 \in DOMAIN q /\ (j - 1) + 1 = j
      BY <1>1, <1>2, <1>5, <2>3
    <3> QED
      BY <1>4, <3>1
  <2> QED
    BY <1>1, <1>2, <1>5, <2>1, <2>2, <2>3
<1>9. ASSUME NEW j \in DOMAIN rows, NEW k \in DOMAIN rows
      PROVE  /\ rows[j].id <= MaxRows + (edits + 1)
             /\ rows[j].id = rows[k].id => j = k
  <2>1. \A l \in DOMAIN q : q[l].id <= MaxRows + edits /\ q[l].id \in Nat
    BY <1>1 DEF SInv, IdsDistinct
  <2>2. \A l, n \in DOMAIN q : q[l].id = q[n].id => l = n
    BY DEF SInv, IdsDistinct
  <2>3. j \in Nat /\ k \in Nat
    BY <1>1, <1>5
  <2>3a. MaxRows \in Nat
    OBVIOUS
  <2>3b. \A l \in DOMAIN rows :
           \/ l = i /\ rows[l].id = MaxRows + edits + 1
           \/ \E n \in DOMAIN q : /\ rows[l].id = q[n].id /\ n \in Nat
                                  /\ (l < i /\ n = l) \/ (l > i /\ n = l - 1)
    <3> SUFFICES ASSUME NEW l \in DOMAIN rows
                 PROVE  \/ l = i /\ rows[l].id = MaxRows + edits + 1
                        \/ \E n \in DOMAIN q : /\ rows[l].id = q[n].id /\ n \in Nat
                                               /\ (l < i /\ n = l) \/ (l > i /\ n = l - 1)
      OBVIOUS
    <3>1. l \in Nat
      BY <1>1, <1>5
    <3>2. CASE l = i /\ rows[l] = row
      BY <1>3, <3>2
    <3>3. CASE l \in 1 .. i - 1 /\ l \in DOMAIN q /\ rows[l] = q[l]
      BY <3>1, <3>3
    <3>4. CASE l - 1 \in i .. Len(q) /\ l - 1 \in DOMAIN q /\ rows[l] = q[l - 1]
      <4>1. l > i /\ l - 1 \in Nat
        BY <1>1, <3>1, <3>4
      <4> QED
        BY <3>4, <4>1
    <3> QED
      BY <1>8, <3>2, <3>3, <3>4
  <2>3c. edits \in Nat /\ i \in Nat
    BY <1>2
  <2>4. rows[j].id <= MaxRows + (edits + 1)
    BY <2>1, <2>3a, <2>3b, <2>3c
  <2>5. rows[j].id = rows[k].id => j = k
    <3>1. CASE j = i
      <4>1. \A n \in DOMAIN q : q[n].id # MaxRows + edits + 1
        BY <2>1, <2>3a, <2>3c
      <4>2. rows[j].id = MaxRows + edits + 1
        BY <2>3b, <2>3c, <3>1
      <4> QED
        BY <2>3b, <3>1, <4>1, <4>2
    <3>2. CASE j # i /\ k = i
      <4>1. \A n \in DOMAIN q : q[n].id # MaxRows + edits + 1
        BY <2>1, <2>3a, <2>3c
      <4>2. rows[k].id = MaxRows + edits + 1
        BY <2>3b, <2>3c, <3>2
      <4> QED
        BY <2>3b, <3>2, <4>1, <4>2
    <3>3. CASE j # i /\ k # i
      BY <2>2, <2>3, <2>3b, <2>3c, <3>3
    <3> QED
      BY <3>1, <3>2, <3>3
  <2> QED
    BY <2>4, <2>5
<1>10. IdsDistinct'
  <2>1. sheet'[s] = rows /\ edits' = edits + 1 /\ \A t \in Sheets \ {s} : sheet'[t] = sheet[t]
    BY <1>2 DEF Edited, SInv, IInv, TypeOK
  <2>2. ASSUME NEW t \in Sheets \ {s}, NEW j \in DOMAIN sheet[t]
        PROVE  sheet[t][j].id <= MaxRows + (edits + 1)
    <3>1. sheet[t][j].id \in Nat /\ sheet[t][j].id <= MaxRows + edits
      BY SheetFacts DEF SInv, IInv, IdsDistinct
    <3> QED
      BY <1>2, <3>1
  <2>3. \A t \in Sheets \ {s} : \A j, k \in DOMAIN sheet[t] :
          sheet[t][j].id = sheet[t][k].id => j = k
    BY DEF SInv, IdsDistinct
  <2> QED
    BY <1>9, <2>1, <2>2, <2>3 DEF IdsDistinct
<1> QED
  BY <1>2, <1>4, <1>6, <1>7, <1>10, SteadyEdit

LEMMA SteadyRewrite ==
  ASSUME SInv, NEW s \in Sheets, NEW i \in Nat, NEW c \in Contents, RewriteRow(s, i, c)
  PROVE  SInv'
<1> DEFINE q == sheet[s]
           row == Row(q[i].id, c)
           rows == [q EXCEPT ![i] = row]
<1>1. /\ q \in Seq(Rows) /\ Len(q) \in Nat /\ DOMAIN q = 1 .. Len(q)
      /\ \A k \in DOMAIN q : q[k] \in Rows /\ q[k].id \in Nat
  BY SheetFacts DEF SInv, IInv
<1>2. i \in DOMAIN q /\ row # q[i] /\ Edited(s, rows) /\ edits \in Nat
  BY DEF RewriteRow, SInv, IInv, TypeOK
<1>3. row \in Rows /\ row.id = q[i].id
  <2>1. q[i].id \in 1 .. MaxRows + MaxEdits
    BY <1>1, <1>2, RowFacts
  <2> QED
    BY <2>1, RowTyped DEF Row
<1> HIDE DEF row
<1>4. /\ rows \in Seq(Rows) /\ DOMAIN rows = DOMAIN q
      /\ rows[i] = row /\ \A k \in DOMAIN q \ {i} : rows[k] = q[k]
  BY <1>1, <1>2, <1>3, ExceptSeq
<1> HIDE DEF rows
<1>5. IInv'
  <2>1. i \in 1 .. MaxRows
    BY <1>1, <1>2 DEF SInv, IInv, TypeOK
  <2> QED
    BY <2>1, EditInvariant DEF Edit, SInv
<1>6. \A j, k \in DOMAIN q : q[j].id <= MaxRows + edits /\ (q[j].id = q[k].id => j = k)
  BY DEF SInv, IdsDistinct
<1>7. ASSUME NEW k \in DOMAIN q, NEW j \in DOMAIN rows, rows[j] = q[k]
      PROVE  \E l \in DOMAIN rows : l >= k /\ rows[l] = q[k]
  <2>1. rows[j].id = q[j].id
    BY <1>3, <1>4
  <2>2. j = k
    BY <1>4, <1>6, <1>7, <2>1
  <2>3. k >= k
    BY <1>1
  <2> QED
    BY <1>7, <2>2, <2>3
<1>8. \A j \in DOMAIN rows : rows[j].id = q[j].id
  BY <1>3, <1>4
<1>9. IdsDistinct'
  <2>1. sheet'[s] = rows /\ edits' = edits + 1 /\ \A t \in Sheets \ {s} : sheet'[t] = sheet[t]
    BY <1>2 DEF Edited, SInv, IInv, TypeOK
  <2>2. ASSUME NEW t \in Sheets, NEW j \in DOMAIN sheet[t]
        PROVE  sheet[t][j].id <= MaxRows + (edits + 1)
    <3>1. sheet[t][j].id \in Nat /\ sheet[t][j].id <= MaxRows + edits
      BY SheetFacts DEF SInv, IInv, IdsDistinct
    <3> QED
      BY <1>2, <3>1
  <2>3. \A t \in Sheets \ {s} : \A j, k \in DOMAIN sheet[t] :
          sheet[t][j].id = sheet[t][k].id => j = k
    BY DEF SInv, IdsDistinct
  <2>4. ASSUME NEW t \in Sheets, NEW j \in DOMAIN sheet'[t], NEW k \in DOMAIN sheet'[t]
        PROVE  /\ sheet'[t][j].id <= MaxRows + edits'
               /\ sheet'[t][j].id = sheet'[t][k].id => j = k
    <3>1. CASE t = s
      <4>1. sheet'[t] = rows /\ j \in DOMAIN q /\ k \in DOMAIN q
        BY <1>4, <2>1, <3>1
      <4>2. rows[j].id = q[j].id /\ rows[k].id = q[k].id
        BY <1>4, <1>8, <4>1
      <4>3. q[j].id <= MaxRows + (edits + 1)
        BY <2>2, <4>1
      <4> QED
        BY <1>6, <2>1, <4>1, <4>2, <4>3
    <3>2. CASE t # s
      BY <2>1, <2>2, <2>3, <3>2
    <3> QED
      BY <3>1, <3>2
  <2> QED
    BY <2>4 DEF IdsDistinct
<1> QED
  BY <1>2, <1>4, <1>5, <1>7, <1>9, SteadyEdit

LEMMA SteadyDelete ==
  ASSUME SInv, NEW s \in Sheets, NEW i \in 1 .. MaxRows, DeleteRow(s, i), pc # "page"
  PROVE  SInv'
<1> DEFINE q == sheet[s]
           rows == RemoveAt(q, i)
<1>1. /\ q \in Seq(Rows) /\ Len(q) \in Nat /\ DOMAIN q = 1 .. Len(q)
      /\ \A k \in DOMAIN q : q[k] \in Rows /\ q[k].id \in Nat
  BY SheetFacts DEF SInv, IInv
<1>2. i \in 1 .. Len(q) /\ Edited(s, rows) /\ edits \in Nat
  BY <1>1 DEF DeleteRow, SInv, IInv, TypeOK
<1>3. /\ rows \in Seq(Rows) /\ Len(rows) = Len(q) - 1
      /\ \A j \in 1 .. i - 1 : rows[j] = q[j]
      /\ \A j \in i .. Len(q) - 1 : rows[j] = q[j + 1]
  <2>1. i \in DOMAIN q
    BY <1>1, <1>2
  <2> QED
    BY <1>1, <2>1, RowsDeleted
<1> HIDE DEF rows
<1>4. DOMAIN rows = 1 .. Len(q) - 1
  BY <1>3, LenProperties
<1>5. IInv'
  BY EditInvariant DEF Edit, SInv
<1>6. ASSUME NEW j \in DOMAIN rows
      PROVE  \E k \in DOMAIN q : /\ rows[j] = q[k] /\ k \in Nat
                                 /\ (j < i /\ k = j) \/ (j >= i /\ k = j + 1)
  <2>1. CASE j < i
    <3>1. j \in 1 .. i - 1 /\ j \in DOMAIN q /\ j \in Nat
      BY <1>1, <1>2, <1>4, <2>1
    <3> QED
      BY <1>3, <2>1, <3>1
  <2>2. CASE ~(j < i)
    <3>1. j \in i .. Len(q) - 1 /\ j + 1 \in DOMAIN q /\ j + 1 \in Nat /\ j >= i
      BY <1>1, <1>2, <1>4, <2>2
    <3> QED
      BY <1>3, <3>1
  <2> QED
    BY <2>1, <2>2
<1>7. \A k, l \in DOMAIN q : q[k].id <= MaxRows + edits /\ (q[k].id = q[l].id => k = l)
  BY DEF SInv, IdsDistinct
<1>8. \A j, k \in DOMAIN rows :
        rows[j].id <= MaxRows + edits /\ (rows[j].id = rows[k].id => j = k)
  <2>1. \A j \in DOMAIN rows : j \in Nat
    BY <1>1, <1>4
  <2> QED
    BY <1>2, <1>6, <1>7, <2>1
<1>9. IdsDistinct'
  <2>1. sheet'[s] = rows /\ edits' = edits + 1 /\ \A t \in Sheets \ {s} : sheet'[t] = sheet[t]
    BY <1>2 DEF Edited, SInv, IInv, TypeOK
  <2>2. ASSUME NEW t \in Sheets, NEW j \in DOMAIN sheet[t]
        PROVE  sheet[t][j].id <= MaxRows + (edits + 1)
    <3>1. sheet[t][j].id \in Nat /\ sheet[t][j].id <= MaxRows + edits
      BY SheetFacts DEF SInv, IInv, IdsDistinct
    <3> QED
      BY <1>2, <3>1
  <2>3. \A j \in DOMAIN rows : rows[j].id <= MaxRows + (edits + 1)
    <3> SUFFICES ASSUME NEW j \in DOMAIN rows
                 PROVE  rows[j].id <= MaxRows + (edits + 1)
      OBVIOUS
    <3>1. rows[j].id \in Nat /\ rows[j].id <= MaxRows + edits
      BY <1>1, <1>6, <1>8
    <3> QED
      BY <1>2, <3>1
  <2>4. \A t \in Sheets \ {s} : \A j, k \in DOMAIN sheet[t] :
          sheet[t][j].id = sheet[t][k].id => j = k
    BY DEF SInv, IdsDistinct
  <2> QED
    BY <1>8, <2>1, <2>2, <2>3, <2>4 DEF IdsDistinct
<1>10. SteadyRead'
  <2>1. UNCHANGED <<pc, records>> /\ steady' \subseteq Usable' /\ steady' \subseteq steady
    BY <1>2 DEF Edited, syncVars
  <2> QED
    BY <2>1 DEF SInv, SteadyRead, Read, Working
<1> QED
  BY <1>5, <1>9, <1>10 DEF SInv

\* A page brings the rows from the offset on, and the offset moves by their
\* number: what is ahead of the reading is read or stays ahead.
LEMMA SteadyPage ==
  ASSUME NothingPassedOver, SInv, PageReceived
  PROVE  SInv'
<1> DEFINE s == SheetIDs[at]
           page == PageRows(s)
           read == records \o [i \in DOMAIN page |-> [sheet |-> s, row |-> page[i]]]
           step == Smaller(PageSize, ServerPage)
<1>1. /\ s \in Sheets /\ Len(page) \in Nat
      /\ offset <= Len(sheet[s]) => Len(page) = Smaller(offset + step, Len(sheet[s])) - offset
      /\ \A i \in 1 .. Len(page) : page[i] = sheet[s][offset + i]
      /\ read \in Seq(Records)
      /\ Len(read) = Len(records) + Len(page)
      /\ \A i \in 1 .. Len(records) : read[i] = records[i]
      /\ \A i \in 1 .. Len(page) : read[Len(records) + i] = [sheet |-> s, row |-> page[i]]
  BY PageRead DEF SInv, IInv, PageReceived
<1>2. records' = read /\ pc = "page" /\ UNCHANGED worldVars
  BY DEF PageReceived, SheetDone
<1>3. /\ Len(records) \in Nat /\ DOMAIN records = 1 .. Len(records)
      /\ DOMAIN read = 1 .. Len(records) + Len(page)
  BY <1>1, LenProperties DEF SInv, IInv, TypeOK
<1>4. /\ Len(SheetIDs) \in Nat /\ DOMAIN SheetIDs = 1 .. Len(SheetIDs)
      /\ at \in 1 .. Len(SheetIDs) /\ offset \in Nat
  BY SheetIDsFacts DEF SInv, IInv, TypeOK
<1>5. Len(sheet[s]) \in Nat /\ DOMAIN sheet[s] = 1 .. Len(sheet[s])
  BY <1>1, SheetFacts DEF SInv, IInv
<1>6. HasMore(s) <=> offset + step < Len(sheet[s])
  BY DEF HasMore
<1>7. step \in Nat
  BY DEF Smaller
<1>8. HasMore(s) => pc' = "page" /\ at' = at /\ offset' = offset + step
  <2> HIDE DEF step
  <2>1. ASSUME NEW next \in NextOffsets, Advance(next)
        PROVE  offset' = offset + step
    BY <1>4, <2>1, OffsetFollowsRows DEF step
  <2> QED
    BY <1>2, <2>1 DEF PageReceived
<1>9. ~HasMore(s) /\ at < Len(SheetIDs) => pc' = "page" /\ at' = at + 1 /\ offset' = 0
  BY <1>2 DEF PageReceived, SheetDone
<1>10. ~HasMore(s) /\ ~(at < Len(SheetIDs)) => pc' = "apply"
  BY DEF PageReceived, SheetDone
<1> HIDE DEF page, read, step
<1>11. ASSUME NEW x \in steady, Read(x)
       PROVE  Read(x)'
  <2>1. PICK i \in 1 .. Len(records) : records[i] = x
    BY <1>3, <1>11 DEF Read
  <2>2. i \in DOMAIN read /\ read[i] = x
    BY <1>1, <1>3, <2>1
  <2> QED
    BY <1>2, <2>2 DEF Read
<1>12. ASSUME NEW x \in steady, Ahead(x)
       PROVE  Read(x)' \/ (pc' = "page" /\ Ahead(x)')
  <2>1. x \in Records
    BY DEF SInv, IInv, TypeOK
  <2>2. PICK k \in DOMAIN SheetIDs, i \in DOMAIN sheet[x.sheet] :
          /\ SheetIDs[k] = x.sheet
          /\ sheet[x.sheet][i] = x.row
          /\ k > at \/ (k = at /\ i > offset)
    BY <1>12 DEF Ahead
  <2>3. i \in Nat \ {0} /\ k \in 1 .. Len(SheetIDs)
    <3>1. x.sheet \in Sheets
      BY <2>1 DEF Records
    <3> QED
      BY <1>4, <2>2, <3>1, SheetFacts DEF SInv, IInv
  <2>4. ASSUME pc' = "page", k > at' \/ (k = at' /\ i > offset')
        PROVE  Ahead(x)'
    BY <1>2, <2>2, <2>4 DEF Ahead, worldVars
  <2>5. CASE k > at
    <3>1. pc' = "page" /\ (k > at' \/ (k = at' /\ i > offset'))
      BY <1>4, <1>8, <1>9, <2>3, <2>5
    <3> QED
      BY <2>4, <3>1
  <2>6. CASE k = at /\ i > offset
    <3>1. x.sheet = s /\ i \in 1 .. Len(sheet[s]) /\ offset <= Len(sheet[s])
      BY <1>4, <1>5, <2>2, <2>6
    <3>2. CASE i <= offset + Len(page)
      <4>1. /\ i - offset \in 1 .. Len(page) /\ offset + (i - offset) = i
            /\ Len(records) + (i - offset) \in 1 .. Len(records) + Len(page)
        <5>1. Len(page) \in Nat /\ Len(records) \in Nat /\ offset \in Nat /\ i \in Nat
          BY <1>1, <1>3, <1>4, <2>3
        <5> QED
          BY <2>6, <3>2, <5>1
      <4>2. read[Len(records) + (i - offset)] = [sheet |-> x.sheet, row |-> x.row]
        <5>1. page[i - offset] = x.row
          BY <1>1, <2>2, <3>1, <4>1
        <5> QED
          BY <1>1, <3>1, <4>1, <5>1
      <4>3. x = [sheet |-> x.sheet, row |-> x.row]
        BY <2>1 DEF Records
      <4> QED
        BY <1>2, <1>3, <4>1, <4>2, <4>3 DEF Read
    <3>3. CASE ~(i <= offset + Len(page))
      <4>1. Len(page) = Smaller(offset + step, Len(sheet[s])) - offset
        BY <1>1, <3>1
      <4>2. HasMore(s) /\ i > offset + step
        BY <1>4, <1>5, <1>6, <1>7, <3>1, <3>3, <4>1 DEF Smaller
      <4> QED
        BY <1>8, <2>4, <2>6, <4>2
    <3> QED
      BY <3>2, <3>3
  <2> QED
    BY <2>2, <2>5, <2>6
<1>13. IInv'
  BY PageInvariant DEF SInv
<1>14. pc' \in {"page", "apply"}
  BY <1>8, <1>9, <1>10
<1>15. ASSUME NEW x \in steady
       PROVE  /\ x \in Usable'
              /\ pc' = "page" => Read(x)' \/ Ahead(x)'
              /\ pc' \in Working => Read(x)'
  <2>1. x \in Usable /\ (Read(x) \/ Ahead(x))
    BY <1>2 DEF SInv, SteadyRead
  <2>2. x \in Usable'
    BY <1>2, <2>1 DEF Usable, worldVars
  <2>3. Read(x)' \/ (pc' = "page" /\ Ahead(x)')
    BY <1>11, <1>12, <2>1
  <2> QED
    BY <2>2, <2>3 DEF Working
<1> QED
  BY <1>2, <1>13, <1>15 DEF SInv, SteadyRead, IdsDistinct, worldVars

\* The steps that read nothing: the reading is over before and after, or there
\* is none any more.
LEMMA SteadyQuiet ==
  ASSUME SInv, IInv', UNCHANGED worldVars,
         \/ pc' \in {"token", "idle", "exit"}
         \/ pc' \in Working /\ pc \in Working /\ records' = records
  PROVE  SInv'
<1>1. Usable' = Usable
  BY DEF Usable, worldVars
<1> QED
  BY <1>1 DEF SInv, SteadyRead, IdsDistinct, worldVars, Working, Read

LEMMA SteadyToken ==
  ASSUME SInv, TokenReceived
  PROVE  SInv'
<1>1. IInv'
  BY QuietInvariant DEF SInv
<1>2. at' = 1 /\ offset' = 0 /\ pc' = "page" /\ UNCHANGED worldVars
  BY DEF TokenReceived, SInv, IInv, TypeOK, Idle, syncVars
<1>3. Usable' = Usable
  BY <1>2 DEF Usable, worldVars
<1>4. ASSUME NEW x \in steady
      PROVE  Ahead(x)'
  <2>1. x \in Usable
    BY DEF SInv, SteadyRead
  <2>2. PICK i \in DOMAIN sheet[x.sheet] : sheet[x.sheet][i] = x.row
    BY <2>1 DEF Usable
  <2>3. x.sheet \in Sheets
    BY <2>1 DEF Usable, Records
  <2>4. PICK k \in DOMAIN SheetIDs : SheetIDs[k] = x.sheet
    BY <2>3 DEF Sheets
  <2>5. i \in Nat \ {0} /\ k \in Nat \ {0}
    BY <2>2, <2>3, <2>4, SheetFacts, SheetIDsFacts DEF SInv, IInv
  <2>6. k > 1 \/ (k = 1 /\ i > 0)
    BY <2>5
  <2> QED
    BY <1>2, <2>2, <2>4, <2>6 DEF Ahead, worldVars
<1> QED
  BY <1>1, <1>2, <1>3, <1>4 DEF SInv, SteadyRead, IdsDistinct, worldVars, Working

LEMMA SteadyBegin ==
  ASSUME SInv, IInv', Begin
  PROVE  SInv'
<1>1. Usable' = Usable
  BY DEF Usable, Begin
<1> QED
  BY <1>1 DEF SInv, SteadyRead, IdsDistinct, Begin, Working

LEMMA SteadyStep ==
  ASSUME NothingPassedOver, SInv, [Next]_vars, ~DeleteWhileRead
  PROVE  SInv'
<1>1. IInv'
  BY StepInvariant DEF SInv
<1>2. CASE UNCHANGED vars
  <2>1. Usable' = Usable
    BY <1>2 DEF Usable, vars, worldVars
  <2> QED
    BY <1>1, <1>2, <2>1
    DEF vars, worldVars, syncVars, SInv, SteadyRead, IdsDistinct, Working, Read, Ahead
<1>3. CASE Edit
  <2>1. ASSUME NEW s \in Sheets, NEW i \in 1 .. MaxRows, DeleteRow(s, i)
        PROVE  SInv'
    BY <2>1, SteadyDelete DEF DeleteRow
  <2>2. ASSUME NEW s \in Sheets, NEW i \in 1 .. MaxRows, NEW c \in Contents, InsertRow(s, i, c)
        PROVE  SInv'
    <3>1. i \in Nat
      OBVIOUS
    <3> QED
      BY <2>2, <3>1, SteadyInsert
  <2>3. ASSUME NEW s \in Sheets, NEW i \in 1 .. MaxRows, NEW c \in Contents, RewriteRow(s, i, c)
        PROVE  SInv'
    <3>1. i \in Nat
      OBVIOUS
    <3> QED
      BY <2>3, <3>1, SteadyRewrite
  <2> QED
    BY <1>3, <2>1, <2>2, <2>3 DEF Edit
<1>4. CASE Mishap
  <2>1. UNCHANGED worldVars /\ pc' \in {"idle", "exit"}
    BY <1>4 DEF Mishap, CallFails, ApplyFails, DeleteFails, Stop, Fail, Return, worldVars
  <2> QED
    BY <1>1, <2>1, SteadyQuiet
<1>5. CASE Tick \/ Restart
  BY <1>1, <1>5, SteadyBegin DEF Tick, Restart
<1>6. ASSUME \/ \E p \in pending : Apply(p)
             \/ AllApplied \/ ListManaged
             \/ \E n \in existing : Keep(n)
             \/ \E n \in existing : Delete(n)
             \/ AllDeleted
      PROVE  SInv'
  <2>1. UNCHANGED worldVars
    BY <1>6 DEF Apply, AllApplied, ListManaged, Keep, Delete, AllDeleted
  <2>2. \/ pc' \in {"token", "idle", "exit"}
        \/ pc' \in Working /\ pc \in Working /\ records' = records
    BY <1>6
    DEF Apply, AllApplied, ListManaged, Keep, Delete, AllDeleted, Succeed, Return, Working, syncVars
  <2> QED
    BY <1>1, <2>1, <2>2, SteadyQuiet
<1> QED
  BY <1>2, <1>3, <1>4, <1>5, <1>6, SteadyPage, SteadyToken DEF Next, Step

LEMMA SteadyInit ==
  ASSUME Init
  PROVE  SInv
<1>1. IInv
  BY InitInvariant
<1>2. ASSUME NEW s \in Sheets, NEW i \in DOMAIN sheet[s]
      PROVE  sheet[s][i].id = i /\ i \in Nat /\ i <= MaxRows
  <2>1. PICK k \in 0 .. MaxRows : sheet[s] \in Filled(k)
    BY DEF Init
  <2>2. PICK c \in [1 .. k -> Contents] : sheet[s] = [j \in 1 .. k |-> Row(j, c[j])]
    BY <2>1 DEF Filled
  <2> QED
    BY <2>2 DEF Row
<1>3. IdsDistinct
  BY <1>2 DEF IdsDistinct, Init
<1> QED
  BY <1>1, <1>3 DEF SInv, SteadyRead, Init, Working

\* While no row is deleted between two pages, pruning never takes away a
\* Probe whose row was usable and unchanged during the whole synchronisation,
\* however the rows moved while the pages were read, if the API names the next
\* offset or fills the pages (wecom.go:117-121).
THEOREM SteadyRowIsKept ==
  ASSUME ~DeleteWhileRead, NothingPassedOver
  PROVE  Spec => SteadyRowKept
<1> DEFINE Kept == \A n \in ProbeNames : Gone(n) => ~\E x \in steady : NameOf(x.sheet, x.row) = n
<1>1. SInv /\ [Next]_vars => SInv'
  BY SteadyStep
<1>2. SInv /\ [Next]_vars => [Kept]_vars
  <2> SUFFICES ASSUME SInv, Next, NEW x \in steady, NameOf(x.sheet, x.row) \in ProbeNames,
                      Gone(NameOf(x.sheet, x.row))
               PROVE  FALSE
    BY DEF Kept
  <2> DEFINE n == NameOf(x.sheet, x.row)
  <2> HIDE DEF n
  <2>0. cluster[n] # None /\ cluster'[n] = None /\ n \in ProbeNames
    BY DEF Gone, n
  <2>1. ASSUME NEW p \in pending, pc = "apply", Applied(p)
        PROVE  FALSE
    <3>1. cluster'[n] = cluster[n] \/ cluster'[n] = [managed |-> TRUE, target |-> p.target]
      BY <2>0, <2>1, ApplyTyped DEF SInv
    <3>2. p.target \in Targets
      BY DEF SInv, IInv, TypeOK, Specs
    <3> QED
      BY <2>0, <3>1, <3>2, ObjectIsSome
  <2>2. PICK k \in existing : k \notin desired /\ pc = "delete" /\ Deleted(k)
    BY <2>0, <2>1
    DEF Next, Step, Mishap, Edit, TokenReceived, PageReceived, Apply, AllApplied, ListManaged,
        Keep, Delete, AllDeleted, Tick, Restart, Begin, CallFails, ApplyFails, DeleteFails,
        Stop, InsertRow, RewriteRow, DeleteRow, Edited
  <2>3. k = n
    BY <2>0, <2>2, DeleteTyped DEF SInv
  <2>4. x \in Usable /\ Read(x)
    BY <2>2 DEF SInv, SteadyRead, Working
  <2>5. PICK i \in DOMAIN records : records[i] = x
    BY <2>4 DEF Read
  <2>6. records[i].row.on /\ records \in Seq(Records)
    BY <2>4, <2>5 DEF Usable, SInv, IInv, TypeOK
  <2>7. PICK p \in RecordsToProbes(records) : p.name = NameOf(records[i].sheet, records[i].row)
    BY <2>6, EveryNameHasProbe
  <2>8. pending = {} /\ desired = {q.name : q \in RecordsToProbes(records) \ pending}
    BY <2>2 DEF SInv, IInv, TypeOK, AppliedSoFar, Working
  <2>9. n \in desired
    BY <2>5, <2>7, <2>8 DEF n
  <2> QED
    BY <2>2, <2>3, <2>9
<1> QED
  BY <1>1, <1>2, SteadyInit, PTL DEF Spec, SteadyRowKept
=============================================================================
