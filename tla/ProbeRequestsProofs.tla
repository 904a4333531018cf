------------------------ MODULE ProbeRequestsProofs ------------------------
(***************************************************************************)
(* Proofs about ProbeRequests, for any connections, requests, versions of  *)
(* the configuration, timeouts and offsets.                                *)
(***************************************************************************)
EXTENDS ProbeRequests, TLAPS

Slot(r) ==
  /\ pc[r] = "idle" => number[r] = 0
  /\ pc[r] # "idle" =>
       /\ asked[r] \in Requests
       /\ number[r] \in 1 .. Len(fate) /\ fate[number[r]] = "open"
       /\ \A s \in Slots : number[s] = number[r] => s = r

\* The types, without what relates the slots to the requests they serve.
Types ==
  /\ clock \in 0 .. MaxTime /\ loaded \in Versions
  /\ moduleUnknown \in Nat
  /\ fate \in Seq(Fates)
  /\ log \in Seq([number: Nat, success: BOOLEAN])
  /\ pc \in [Slots -> {"idle", "config", "handle", "build", "probe", "record", "answer"}]
  /\ number \in [Slots -> Nat]
  /\ asked \in [Slots -> Requests \cup {Absent}]
  /\ arrived \in [Slots -> Nat] /\ deadline \in [Slots -> Int]
  /\ conf \in [Slots -> Versions]
  /\ module \in [Slots -> {Absent} \cup UNION {{Config[v][m] : m \in Names} : v \in Versions}]
  /\ hostOf \in [Versions -> [Names -> Hosts]]
  /\ headers \in [Slots -> [own: BOOLEAN, host: Hosts]] /\ sent \in [Slots -> Hosts]
  /\ hungUp \in [Slots -> BOOLEAN] /\ success \in [Slots -> BOOLEAN]

\* TypeOK is made of the two.
LEMMA TypeParts == TypeOK <=> Types /\ \A r \in Slots : Slot(r)
  BY DEF TypeOK, Types, Slot

\* A timeout is a number of ticks.
LEMMA TimeoutType ==
  ASSUME NEW header \in {Absent} \cup Int, NEW timeout \in Nat
  PROVE  GetTimeout(header, timeout) \in Int
<1>1. (IF header \in {Absent, 0} THEN Default ELSE header) \in Int
  BY RequestAssumption
<1>2. QED
  BY <1>1, RequestAssumption DEF GetTimeout

\* The initial state is of the right type.
LEMMA InitTypes == Init => Types /\ \A r \in Slots : Slot(r)
<1> SUFFICES ASSUME Init PROVE Types /\ \A r \in Slots : Slot(r)
  OBVIOUS
<1>1. \A v \in Versions, m \in Names :
        (IF Config[v][m] = Absent THEN Absent ELSE Config[v][m].host) \in Hosts
  BY DEF Hosts
<1>2. hostOf \in [Versions -> [Names -> Hosts]]
  BY <1>1 DEF Init
<1>3. Absent \in Hosts
  BY DEF Hosts
<1>4. Shared \in [own: BOOLEAN, host: Hosts]
  BY <1>3 DEF Shared
<1>5. 1 \in Versions
  BY RequestAssumption DEF Versions
<1>6. \A r \in Slots : Slot(r)
  BY DEF Init, Slot
<1>7. fate \in Seq(Fates) /\ log \in Seq([number: Nat, success: BOOLEAN])
  BY DEF Init
<1>8. clock \in 0 .. MaxTime
  BY RequestAssumption DEF Init
<1>9. QED
  BY <1>2, <1>3, <1>4, <1>5, <1>6, <1>7, <1>8 DEF Init, Types

\* Forgetting a request keeps the types.
LEMMA ForgetTypes ==
  ASSUME Types, NEW r \in Slots, Forget(r)
  PROVE  /\ pc' \in [Slots -> {"idle", "config", "handle", "build", "probe", "record", "answer"}]
         /\ number' \in [Slots -> Nat]
         /\ asked' \in [Slots -> Requests \cup {Absent}]
         /\ arrived' \in [Slots -> Nat] /\ deadline' \in [Slots -> Int]
         /\ conf' \in [Slots -> Versions]
         /\ module' \in [Slots -> {Absent} \cup UNION {{Config[v][m] : m \in Names} : v \in Versions}]
         /\ headers' \in [Slots -> [own: BOOLEAN, host: Hosts]] /\ sent' \in [Slots -> Hosts]
         /\ hungUp' \in [Slots -> BOOLEAN] /\ success' \in [Slots -> BOOLEAN]
<1>1. Absent \in Hosts /\ 1 \in Versions
  BY RequestAssumption DEF Hosts, Versions
<1>2. Shared \in [own: BOOLEAN, host: Hosts]
  BY <1>1 DEF Shared
<1>3. QED
  BY <1>1, <1>2 DEF Types, Forget

\* A request that is closed leaves the others as they are.
LEMMA CloseTypes ==
  ASSUME Types, \A s \in Slots : Slot(s), NEW r \in Slots, NEW f \in Fates \ {"open"},
         pc[r] # "idle", Close(r, f), UNCHANGED <<clock, loaded, hostOf>>,
         moduleUnknown' \in Nat, UNCHANGED log
  PROVE  Types' /\ \A s \in Slots : Slot(s)'
<1>1. Forget(r) /\ fate' = [fate EXCEPT ![number[r]] = f]
  BY DEF Close
<1>2. fate \in Seq(Fates) /\ number[r] \in 1 .. Len(fate)
  BY DEF Types, Slot
<1>3. fate' \in Seq(Fates) /\ Len(fate') = Len(fate)
  BY <1>1, <1>2
<1>4. Types'
  BY <1>1, <1>3, ForgetTypes DEF Types
<1>5. Slot(r)'
  BY <1>1 DEF Types, Forget, Slot
<1>6. ASSUME NEW s \in Slots, s # r PROVE Slot(s)'
  <2>1. pc'[s] = pc[s] /\ asked'[s] = asked[s] /\ number'[s] = number[s]
    BY <1>1, <1>6 DEF Types, Forget
  <2>2. CASE pc[s] = "idle"
    BY <2>1, <2>2 DEF Slot
  <2>3. CASE pc[s] # "idle"
    <3>1. number[s] # number[r] /\ number[s] \in 1 .. Len(fate) /\ fate[number[s]] = "open"
      BY <1>6, <2>3 DEF Slot
    <3>2. fate'[number[s]] = "open"
      BY <1>1, <1>2, <3>1
    <3>3. \A t \in Slots : number'[t] = number'[s] => t = s
      <4>1. number'[r] = 0 /\ number[s] # 0
        BY <1>1, <3>1 DEF Types, Forget
      <4>2. \A t \in Slots : t # r => number'[t] = number[t]
        BY <1>1 DEF Types, Forget
      <4>3. QED
        BY <1>6, <2>1, <2>3, <4>1, <4>2 DEF Slot
    <3>4. QED
      BY <1>3, <2>1, <2>3, <3>1, <3>2, <3>3 DEF Slot
  <2>4. QED
    BY <2>2, <2>3
<1>7. QED
  BY <1>4, <1>5, <1>6

\* A step that touches neither requests nor fates keeps what relates them.
LEMMA SlotsKept ==
  ASSUME Types, \A s \in Slots : Slot(s), UNCHANGED <<fate, number, asked>>,
         \A s \in Slots : pc'[s] = "idle" <=> pc[s] = "idle"
  PROVE  \A s \in Slots : Slot(s)'
  BY DEF Slot

\* Every step keeps the types.
LEMMA NextTypes == Types /\ (\A s \in Slots : Slot(s)) /\ [Next]_vars
                     => Types' /\ \A s \in Slots : Slot(s)'
<1> SUFFICES ASSUME Types, \A s \in Slots : Slot(s), [Next]_vars
             PROVE  Types' /\ \A s \in Slots : Slot(s)'
  OBVIOUS
<1>1. ASSUME NEW r \in Slots, NEW q \in Requests, Arrive(r, q)
      PROVE  Types' /\ \A s \in Slots : Slot(s)'
  <2>1. fate \in Seq(Fates) /\ "open" \in Fates
    BY DEF Types, Fates
  <2>2. fate' \in Seq(Fates) /\ Len(fate') = Len(fate) + 1 /\ Len(fate) \in Nat
        /\ fate'[Len(fate) + 1] = "open" /\ \A n \in 1 .. Len(fate) : fate'[n] = fate[n]
    BY <1>1, <2>1 DEF Arrive
  <2>3. clock \in Nat
    BY RequestAssumption DEF Types
  <2>4. Types'
    BY <1>1, <2>2, <2>3 DEF Types, Arrive, probe
  <2>5. number' = [number EXCEPT ![r] = Len(fate) + 1] /\ asked' = [asked EXCEPT ![r] = q]
        /\ pc' = [pc EXCEPT ![r] = "config"] /\ pc[r] = "idle"
    BY <1>1 DEF Arrive
  <2>6. \A s \in Slots : number[s] # Len(fate) + 1
    BY <2>2 DEF Slot, Types
  <2>7. Slot(r)'
    BY <2>2, <2>5, <2>6 DEF Slot, Types
  <2>8. ASSUME NEW s \in Slots, s # r PROVE Slot(s)'
    <3>1. pc'[s] = pc[s] /\ number'[s] = number[s] /\ asked'[s] = asked[s]
      BY <2>5, <2>8 DEF Types
    <3>2. number'[r] = Len(fate) + 1
      BY <2>5 DEF Types
    <3>3. \A t \in Slots : t # r => number'[t] = number[t]
      BY <2>5 DEF Types
    <3>4. QED
      BY <2>2, <2>6, <2>8, <3>1, <3>2, <3>3 DEF Slot
  <2>9. QED
    BY <2>4, <2>7, <2>8
<1>2. ASSUME NEW r \in Slots, TakeConfig(r)
      PROVE  Types' /\ \A s \in Slots : Slot(s)'
  <2>1. Types'
    BY <1>2 DEF Types, TakeConfig, process, request
  <2>2. \A s \in Slots : pc'[s] = "idle" <=> pc[s] = "idle"
    BY <1>2 DEF Types, TakeConfig
  <2>3. QED
    BY <1>2, <2>1, <2>2, SlotsKept DEF TakeConfig, process, request
<1>3. ASSUME NEW r \in Slots, RefuseModule(r)
      PROVE  Types' /\ \A s \in Slots : Slot(s)'
  <2>1. "unknown module" \in Fates \ {"open"}
    BY DEF Fates
  <2>2. moduleUnknown' \in Nat
    <3>1. moduleUnknown' = moduleUnknown + 1
      BY <1>3 DEF RefuseModule
    <3>2. moduleUnknown \in Nat
      BY DEF Types
    <3>3. QED
      BY <3>1, <3>2
  <2>3. pc[r] # "idle" /\ Close(r, "unknown module") /\ UNCHANGED <<clock, loaded, hostOf, log>>
    BY <1>3 DEF RefuseModule
  <2>4. QED
    BY <2>1, <2>2, <2>3, CloseTypes
<1>4. ASSUME NEW r \in Slots, Refuse(r)
      PROVE  Types' /\ \A s \in Slots : Slot(s)'
  <2>1. "refused" \in Fates \ {"open"} /\ moduleUnknown' \in Nat
    BY <1>4 DEF Fates, Types, Refuse
  <2>2. QED
    BY <1>4, <2>1, CloseTypes DEF Refuse
<1>5. ASSUME NEW r \in Slots, Begin(r)
      PROVE  Types' /\ \A s \in Slots : Slot(s)'
  <2>1. asked[r] \in Requests /\ asked[r].module \in Names /\ conf[r] \in Versions
        /\ asked[r].header \in {Absent} \cup Int
    BY <1>5, RequestAssumption DEF Begin, Slot, Types, Unacceptable
  <2>2. ModuleOf(r) \in UNION {{Config[v][m] : m \in Names} : v \in Versions}
        /\ ModuleOf(r).timeout \in Nat
    BY <1>5, <2>1, RequestAssumption DEF Begin, ModuleOf
  <2>3. clock + GetTimeout(asked[r].header, ModuleOf(r).timeout) \in Int
    <3>1. GetTimeout(asked[r].header, ModuleOf(r).timeout) \in Int
      BY <2>1, <2>2, TimeoutType
    <3>2. clock \in Int
      BY RequestAssumption DEF Types
    <3>3. QED
      BY <3>1, <3>2
  <2>4. deadline' \in [Slots -> Int] /\ module' \in
          [Slots -> {Absent} \cup UNION {{Config[v][m] : m \in Names} : v \in Versions}]
    BY <1>5, <2>2, <2>3 DEF Begin, Types
  <2>5. asked[r].hostname \in Hosts
    BY <2>1 DEF Hosts
  <2>6. headers' \in [Slots -> [own: BOOLEAN, host: Hosts]] /\ hostOf' = hostOf
    <3>1. CASE NamesHost(r)
      <4>1. [own |-> TRUE, host |-> asked[r].hostname] \in [own: BOOLEAN, host: Hosts]
        BY <2>5
      <4>2. headers' = [headers EXCEPT ![r] = [own |-> TRUE, host |-> asked[r].hostname]]
            /\ hostOf' = hostOf
        BY <1>5, <3>1 DEF Begin, SetHTTPHost
      <4>3. headers \in [Slots -> [own: BOOLEAN, host: Hosts]]
        BY DEF Types
      <4>4. QED
        BY <4>1, <4>2, <4>3
    <3>2. CASE ~NamesHost(r)
      BY <1>5, <3>2 DEF Begin, Types
    <3>3. QED
      BY <3>1, <3>2
  <2>7. pc' \in [Slots -> {"idle", "config", "handle", "build", "probe", "record", "answer"}]
        /\ \A s \in Slots : pc'[s] = "idle" <=> pc[s] = "idle"
    BY <1>5 DEF Begin, Types
  <2>8. Types'
    BY <1>5, <2>4, <2>6, <2>7 DEF Begin, Types, request
  <2>9. QED
    BY <1>5, <2>7, <2>8, SlotsKept DEF Begin, request
<1>6. ASSUME NEW r \in Slots, Build(r)
      PROVE  Types' /\ \A s \in Slots : Slot(s)'
  <2>1. asked[r].module \in Names /\ conf[r] \in Versions
    BY <1>6, RequestAssumption DEF Build, Slot, Types
  <2>2. hostOf[conf[r]][asked[r].module] \in Hosts /\ headers[r].host \in Hosts
    BY <2>1 DEF Types
  <2>3. sent' \in [Slots -> Hosts]
    BY <1>6, <2>2 DEF Build, Types
  <2>4. Types' /\ \A s \in Slots : pc'[s] = "idle" <=> pc[s] = "idle"
    BY <1>6, <2>3 DEF Build, Types, process, request
  <2>5. QED
    BY <1>6, <2>4, SlotsKept DEF Build, process, request
<1>7. ASSUME NEW r \in Slots, NEW s \in BOOLEAN, ProbeReturns(r, s)
      PROVE  Types' /\ \A t \in Slots : Slot(t)'
  <2>1. Types' /\ \A t \in Slots : pc'[t] = "idle" <=> pc[t] = "idle"
    BY <1>7 DEF ProbeReturns, Probing, Types, process, request
  <2>2. QED
    BY <1>7, <2>1, SlotsKept DEF ProbeReturns, process, request
<1>8. ASSUME NEW r \in Slots, ProbeTimesOut(r)
      PROVE  Types' /\ \A s \in Slots : Slot(s)'
  <2>1. Types' /\ \A s \in Slots : pc'[s] = "idle" <=> pc[s] = "idle"
    BY <1>8 DEF ProbeTimesOut, Probing, Types, process, request, probe
  <2>2. QED
    BY <1>8, <2>1, SlotsKept DEF ProbeTimesOut, process, request
<1>9. ASSUME NEW r \in Slots, ProbePanics(r)
      PROVE  Types' /\ \A s \in Slots : Slot(s)'
  <2>1. "aborted" \in Fates \ {"open"} /\ moduleUnknown' \in Nat /\ pc[r] # "idle"
    BY <1>9 DEF Fates, Types, ProbePanics, Probing
  <2>2. QED
    BY <1>9, <2>1, CloseTypes DEF ProbePanics
<1>10. ASSUME NEW r \in Slots, Record(r)
       PROVE  Types' /\ \A s \in Slots : Slot(s)'
  <2>1. [number |-> number[r], success |-> success[r]] \in [number: Nat, success: BOOLEAN]
    BY DEF Types
  <2>2. log' \in Seq([number: Nat, success: BOOLEAN])
    BY <1>10, <2>1 DEF Record, Types
  <2>3. Types' /\ \A s \in Slots : pc'[s] = "idle" <=> pc[s] = "idle"
    BY <1>10, <2>2 DEF Record, Types, request, probe
  <2>4. QED
    BY <1>10, <2>3, SlotsKept DEF Record, request
<1>11. ASSUME NEW r \in Slots, Answer(r)
       PROVE  Types' /\ \A s \in Slots : Slot(s)'
  <2>1. (IF success[r] THEN "success" ELSE "failure") \in Fates \ {"open"}
        /\ moduleUnknown' \in Nat
    BY <1>11 DEF Fates, Types, Answer
  <2>2. QED
    BY <1>11, <2>1, CloseTypes DEF Answer
<1>12. ASSUME NEW r \in Slots, HangUp(r)
       PROVE  Types' /\ \A s \in Slots : Slot(s)'
  <2>1. Types'
    BY <1>12 DEF HangUp, Types, process, request, probe
  <2>2. QED
    BY <1>12, <2>1, SlotsKept DEF HangUp, process, request
<1>13. CASE Reload
  <2>1. Types'
    BY <1>13 DEF Reload, Types, request, probe
  <2>2. QED
    BY <1>13, <2>1, SlotsKept DEF Reload, request
<1>14. CASE Tick
  <2>1. Types'
    BY <1>14, RequestAssumption DEF Tick, Types, process, request, probe
  <2>2. QED
    BY <1>14, <2>1, SlotsKept DEF Tick, process, request
<1>15. CASE UNCHANGED vars
  <2>1. Types'
    BY <1>15 DEF vars, Types, process, request, probe
  <2>2. QED
    BY <1>15, <2>1, SlotsKept DEF vars, process, request
<1>16. QED
  BY <1>1, <1>2, <1>3, <1>4, <1>5, <1>6, <1>7, <1>8, <1>9, <1>10, <1>11, <1>12, <1>13,
     <1>14, <1>15 DEF Next, Serve

\* Type correctness, and that no two connections serve one request.
THEOREM TypeCorrect == Spec => []TypeOK
<1>1. Init => Types /\ \A r \in Slots : Slot(r)
  BY InitTypes
<1>2. TypeOK /\ [Next]_vars => TypeOK'
  BY NextTypes, TypeParts DEF TypeOK, Types, Slot
<1>3. QED
  BY <1>1, <1>2, TypeParts, PTL DEF Spec

-----------------------------------------------------------------------------
(* One configuration for a request, and its own Host header.               *)

HostsIntact ==
  \A v \in Versions, m \in Names :
    hostOf[v][m] = IF Config[v][m] = Absent THEN Absent ELSE Config[v][m].host

Busy == {"build", "probe", "record", "answer"}

\* The Host header that the request in slot r asks for.
HostFor(r) == IF asked[r].hostname # Absent THEN asked[r].hostname
              ELSE Config[conf[r]][asked[r].module].host

Served(r) ==
  /\ pc[r] \notin Busy => headers[r] = Shared /\ sent[r] = Absent
  /\ pc[r] \in Busy => module[r] = Config[conf[r]][asked[r].module]
  /\ pc[r] = "build" =>
       /\ Config[conf[r]][asked[r].module] # Absent
       /\ IF headers[r].own THEN headers[r].host = asked[r].hostname /\ asked[r].hostname # Absent
                            ELSE asked[r].hostname = Absent
  /\ sent[r] # Absent => sent[r] = HostFor(r)

\* What a step does not touch of a slot stays as it was.
LEMMA ServedKept ==
  ASSUME NEW r \in Slots, Served(r), pc'[r] = pc[r] \/ (pc[r] \in Busy /\ pc'[r] \in Busy \ {"build"}),
         asked'[r] = asked[r], conf'[r] = conf[r], module'[r] = module[r],
         headers'[r] = headers[r], sent'[r] = sent[r]
  PROVE  Served(r)'
  BY DEF Served, HostFor, Busy

\* A slot that was closed is as good as new.
LEMMA ServedClosed ==
  ASSUME Types, \A s \in Slots : Served(s), NEW r \in Slots, Forget(r)
  PROVE  \A s \in Slots : Served(s)'
<1>1. Served(r)'
  <2>1. pc'[r] = "idle" /\ headers'[r] = Shared /\ sent'[r] = Absent
    BY DEF Types, Forget
  <2>2. QED
    BY <2>1 DEF Served, Busy
<1>2. ASSUME NEW s \in Slots, s # r PROVE Served(s)'
  <2>1. pc'[s] = pc[s] /\ asked'[s] = asked[s] /\ conf'[s] = conf[s] /\ module'[s] = module[s]
        /\ headers'[s] = headers[s] /\ sent'[s] = sent[s]
    BY <1>2 DEF Types, Forget
  <2>2. QED
    BY <2>1, ServedKept
<1>3. QED
  BY <1>1, <1>2

\* Every step keeps the maps of the configuration and serves each request by
\* its own.
LEMMA NextServed ==
  ASSUME Types, \A s \in Slots : Slot(s), HostsIntact, \A s \in Slots : Served(s), [Next]_vars
  PROVE  HostsIntact' /\ \A s \in Slots : Served(s)'
<1>1. ASSUME NEW r \in Slots, NEW q \in Requests, Arrive(r, q)
      PROVE  HostsIntact' /\ \A s \in Slots : Served(s)'
  <2>1. HostsIntact'
    BY <1>1 DEF Arrive, HostsIntact
  <2>2. Served(r)'
    <3>1. pc[r] = "idle" /\ pc'[r] = "config" /\ headers'[r] = headers[r] /\ sent'[r] = sent[r]
      BY <1>1 DEF Arrive, Types, probe
    <3>2. headers[r] = Shared /\ sent[r] = Absent
      BY <3>1 DEF Served, Busy
    <3>3. QED
      BY <3>1, <3>2 DEF Served, Busy
  <2>3. ASSUME NEW s \in Slots, s # r PROVE Served(s)'
    <3>1. pc'[s] = pc[s] /\ asked'[s] = asked[s] /\ conf'[s] = conf[s] /\ module'[s] = module[s]
          /\ headers'[s] = headers[s] /\ sent'[s] = sent[s]
      BY <1>1, <2>3 DEF Types, Arrive, probe
    <3>2. QED
      BY <3>1, ServedKept
  <2>4. QED
    BY <2>1, <2>2, <2>3
<1>2. ASSUME NEW r \in Slots, TakeConfig(r)
      PROVE  HostsIntact' /\ \A s \in Slots : Served(s)'
  <2>1. HostsIntact'
    BY <1>2 DEF TakeConfig, process, HostsIntact
  <2>2. Served(r)'
    <3>1. pc[r] = "config" /\ pc'[r] = "handle" /\ headers'[r] = headers[r] /\ sent'[r] = sent[r]
      BY <1>2 DEF TakeConfig, Types
    <3>2. headers[r] = Shared /\ sent[r] = Absent
      BY <3>1 DEF Served, Busy
    <3>3. QED
      BY <3>1, <3>2 DEF Served, Busy
  <2>3. ASSUME NEW s \in Slots, s # r PROVE Served(s)'
    <3>1. pc'[s] = pc[s] /\ asked'[s] = asked[s] /\ conf'[s] = conf[s] /\ module'[s] = module[s]
          /\ headers'[s] = headers[s] /\ sent'[s] = sent[s]
      BY <1>2, <2>3 DEF Types, TakeConfig, request
    <3>2. QED
      BY <3>1, ServedKept
  <2>4. QED
    BY <2>1, <2>2, <2>3
<1>3. ASSUME NEW r \in Slots, RefuseModule(r) \/ Refuse(r) \/ ProbePanics(r) \/ Answer(r)
      PROVE  HostsIntact' /\ \A s \in Slots : Served(s)'
  <2>1. Forget(r) /\ hostOf' = hostOf
    BY <1>3 DEF RefuseModule, Refuse, ProbePanics, Answer, Close
  <2>2. QED
    BY <2>1, ServedClosed DEF HostsIntact
<1>4. ASSUME NEW r \in Slots, Begin(r)
      PROVE  HostsIntact' /\ \A s \in Slots : Served(s)'
  <2>1. pc[r] = "handle" /\ ModuleOf(r) # Absent /\ headers[r] = Shared /\ sent[r] = Absent
    BY <1>4 DEF Begin, Served, Busy
  <2>2. /\ asked'[r] = asked[r] /\ conf'[r] = conf[r] /\ sent'[r] = Absent
        /\ module'[r] = Config[conf[r]][asked[r].module]
        /\ pc'[r] = IF ModuleOf(r).prober = "http" THEN "build" ELSE "probe"
    BY <1>4, <2>1 DEF Begin, Types, ModuleOf, request
  <2>3. CASE NamesHost(r)
    <3>1. headers' = [headers EXCEPT ![r] = [own |-> TRUE, host |-> asked[r].hostname]]
          /\ hostOf' = hostOf
      BY <1>4, <2>3 DEF Begin, SetHTTPHost
    <3>2. headers'[r] = [own |-> TRUE, host |-> asked[r].hostname]
      BY <3>1 DEF Types
    <3>3. headers'[r].own /\ headers'[r].host = asked[r].hostname
      BY <3>2
    <3>4. asked[r].hostname # Absent
      BY <2>3 DEF NamesHost
    <3>5. Served(r)'
      BY <2>1, <2>2, <3>3, <3>4 DEF Served, Busy, ModuleOf
    <3>6. \A s \in Slots : s # r => headers'[s] = headers[s]
      BY <3>1 DEF Types
    <3>7. QED
      <4>1. ASSUME NEW s \in Slots, s # r PROVE Served(s)'
        <5>1. pc'[s] = pc[s] /\ asked'[s] = asked[s] /\ conf'[s] = conf[s]
              /\ module'[s] = module[s] /\ sent'[s] = sent[s]
          BY <1>4, <4>1 DEF Types, Begin, request
        <5>2. QED
          BY <3>6, <4>1, <5>1, ServedKept
      <4>2. QED
        BY <3>1, <3>5, <4>1 DEF HostsIntact
  <2>4. CASE ~NamesHost(r)
    <3>1. headers' = headers /\ hostOf' = hostOf
      BY <1>4, <2>4 DEF Begin
    <3>2. headers'[r] = Shared /\ ~headers'[r].own
      BY <2>1, <3>1 DEF Shared
    <3>3. ModuleOf(r).prober = "http" => asked[r].hostname = Absent
      BY <2>4 DEF NamesHost
    <3>4. Served(r)'
      BY <2>1, <2>2, <3>2, <3>3 DEF Served, Busy, ModuleOf
    <3>5. ASSUME NEW s \in Slots, s # r PROVE Served(s)'
      <4>1. pc'[s] = pc[s] /\ asked'[s] = asked[s] /\ conf'[s] = conf[s]
            /\ module'[s] = module[s] /\ sent'[s] = sent[s]
        BY <1>4, <3>5 DEF Types, Begin, request
      <4>2. QED
        BY <3>1, <4>1, ServedKept
    <3>6. QED
      BY <3>1, <3>4, <3>5 DEF HostsIntact
  <2>5. QED
    BY <2>3, <2>4
<1>5. ASSUME NEW r \in Slots, Build(r)
      PROVE  HostsIntact' /\ \A s \in Slots : Served(s)'
  <2>1. HostsIntact'
    BY <1>5 DEF Build, process, HostsIntact
  <2>2. pc[r] = "build" /\ asked[r].module \in Names /\ conf[r] \in Versions
    BY <1>5, RequestAssumption DEF Build, Slot, Types
  <2>3. hostOf[conf[r]][asked[r].module] = Config[conf[r]][asked[r].module].host
    BY <2>2 DEF HostsIntact, Served
  <2>4. sent'[r] = HostFor(r)
    <3>1. sent'[r] = IF headers[r].own THEN headers[r].host
                     ELSE hostOf[conf[r]][asked[r].module]
      BY <1>5 DEF Build, Types
    <3>2. CASE headers[r].own
      BY <2>2, <3>1, <3>2 DEF Served, HostFor
    <3>3. CASE ~headers[r].own
      BY <2>2, <2>3, <3>1, <3>3 DEF Served, HostFor
    <3>4. QED
      BY <3>2, <3>3
  <2>5. pc'[r] = "probe" /\ asked'[r] = asked[r] /\ conf'[r] = conf[r] /\ module'[r] = module[r]
    BY <1>5 DEF Build, Types, request
  <2>6. Served(r)'
    BY <2>2, <2>4, <2>5 DEF Served, Busy, HostFor
  <2>7. ASSUME NEW s \in Slots, s # r PROVE Served(s)'
    <3>1. pc'[s] = pc[s] /\ asked'[s] = asked[s] /\ conf'[s] = conf[s] /\ module'[s] = module[s]
          /\ headers'[s] = headers[s] /\ sent'[s] = sent[s]
      BY <1>5, <2>7 DEF Types, Build, request
    <3>2. QED
      BY <3>1, ServedKept
  <2>8. QED
    BY <2>1, <2>6, <2>7
<1>6. ASSUME NEW r \in Slots, ProbeTimesOut(r) \/ Record(r) \/ \E s \in BOOLEAN : ProbeReturns(r, s)
      PROVE  HostsIntact' /\ \A s \in Slots : Served(s)'
  <2>1. hostOf' = hostOf /\ UNCHANGED <<asked, conf, module, headers, sent>>
    BY <1>6 DEF ProbeTimesOut, Record, ProbeReturns, process, request, probe
  <2>2. pc[r] \in Busy /\ pc'[r] \in Busy \ {"build"}
    BY <1>6 DEF ProbeTimesOut, Record, ProbeReturns, Probing, Busy, Types
  <2>3. \A s \in Slots : s # r => pc'[s] = pc[s]
    BY <1>6 DEF ProbeTimesOut, Record, ProbeReturns, Types
  <2>4. QED
    BY <2>1, <2>2, <2>3, ServedKept DEF HostsIntact
<1>7. CASE (\E r \in Slots : HangUp(r)) \/ Reload \/ Tick \/ UNCHANGED vars
  <2>1. UNCHANGED <<hostOf, pc, asked, conf, module, headers, sent>>
    BY <1>7 DEF HangUp, Reload, Tick, vars, process, request, probe
  <2>2. QED
    BY <2>1, ServedKept DEF HostsIntact
<1>8. QED
  BY <1>1, <1>2, <1>3, <1>4, <1>5, <1>6, <1>7 DEF Next, Serve

\* A request is served by one configuration, and its probe carries the Host
\* header it asked for, whatever is loaded and asked for meanwhile.
THEOREM ServedAsConfigured == Spec => []AsConfigured
<1>1. Init => HostsIntact /\ \A r \in Slots : Served(r)
  BY DEF Init, HostsIntact, Served, Busy
<1>2. TypeOK /\ HostsIntact /\ (\A r \in Slots : Served(r)) /\ [Next]_vars
        => HostsIntact' /\ (\A r \in Slots : Served(r))'
  BY NextServed, TypeParts
<1>3. HostsIntact /\ (\A r \in Slots : Served(r)) => AsConfigured
  BY DEF Served, HostFor, Busy, AsConfigured
<1>4. QED
  BY <1>1, <1>2, <1>3, TypeCorrect, PTL DEF Spec

-----------------------------------------------------------------------------
(* In time.                                                                *)

\* Every prober but those of grpc and of websockets stops when its context is
\* done.
AllStop ==
  \A v \in Versions, m \in Names :
    Config[v][m] # Absent => Config[v][m].prober \notin {"grpc", "websocket"}

\* Up to the call of the prober no time passes; from then on the clock does
\* not go past the deadline.
Timed(r) ==
  /\ pc[r] \in {"config", "handle"} => clock = arrived[r]
  /\ pc[r] \in Busy =>
       /\ asked[r].header \in {Absent} \cup Int
       /\ module[r].timeout \in Nat /\ HonoursContext(r)
       /\ deadline[r] = arrived[r] + GetTimeout(asked[r].header, module[r].timeout)
       /\ clock = arrived[r] \/ clock <= deadline[r]

\* The timeout is none of the three that is too long.
LEMMA TimeoutBounds ==
  ASSUME NEW header \in {Absent} \cup Int, NEW timeout \in Nat
  PROVE  LET scrape == IF header \in {Absent, 0} THEN Default ELSE header
         IN  /\ scrape \in Int
             /\ scrape >= Offset => GetTimeout(header, timeout) <= scrape - Offset
             /\ timeout > 0 => GetTimeout(header, timeout) <= timeout
<1> DEFINE scrape == IF header \in {Absent, 0} THEN Default ELSE header
<1>1. scrape \in Int
  BY RequestAssumption
<1>2. GetTimeout(header, timeout) =
        IF (timeout < scrape - Offset /\ timeout > 0) \/ scrape - Offset < 0
        THEN timeout ELSE scrape - Offset
  BY DEF GetTimeout
<1> HIDE DEF scrape
<1>3. /\ scrape >= Offset => GetTimeout(header, timeout) <= scrape - Offset
      /\ timeout > 0 => GetTimeout(header, timeout) <= timeout
  BY <1>1, <1>2, RequestAssumption
<1>4. QED
  BY <1>1, <1>3 DEF scrape

\* What a step does not touch of a slot stays as it was.
LEMMA TimedKept ==
  ASSUME NEW r \in Slots, Timed(r), clock' = clock,
         arrived'[r] = arrived[r], asked'[r] = asked[r], module'[r] = module[r],
         deadline'[r] = deadline[r],
         \/ pc'[r] = pc[r]
         \/ pc[r] = "config" /\ pc'[r] = "handle"
         \/ pc[r] \in Busy /\ pc'[r] \in Busy
  PROVE  Timed(r)'
  BY DEF Timed, Busy, HonoursContext

\* Every step keeps the probes in time.
LEMMA NextTimed ==
  ASSUME AllStop, Types, \A s \in Slots : Slot(s), \A s \in Slots : Timed(s), [Next]_vars
  PROVE  \A s \in Slots : Timed(s)'
<1>1. ASSUME NEW r \in Slots, NEW q \in Requests, Arrive(r, q)
      PROVE  \A s \in Slots : Timed(s)'
  <2>1. Timed(r)'
    <3>1. pc'[r] = "config" /\ arrived'[r] = clock /\ clock' = clock
      BY <1>1 DEF Arrive, Types
    <3>2. QED
      BY <3>1 DEF Timed, Busy
  <2>2. ASSUME NEW s \in Slots, s # r PROVE Timed(s)'
    <3>1. pc'[s] = pc[s] /\ asked'[s] = asked[s] /\ arrived'[s] = arrived[s]
          /\ module'[s] = module[s] /\ deadline'[s] = deadline[s] /\ clock' = clock
      BY <1>1, <2>2 DEF Types, Arrive, probe
    <3>2. QED
      BY <3>1, TimedKept
  <2>3. QED
    BY <2>1, <2>2
<1>2. ASSUME NEW r \in Slots,
             \/ TakeConfig(r) \/ Build(r) \/ ProbeTimesOut(r) \/ Record(r)
             \/ \E s \in BOOLEAN : ProbeReturns(r, s)
      PROVE  \A s \in Slots : Timed(s)'
  <2>1. UNCHANGED <<clock, asked, arrived, module, deadline>>
    BY <1>2 DEF TakeConfig, Build, ProbeTimesOut, Record, ProbeReturns, process, request, probe
  <2>2. \/ pc[r] = "config" /\ pc'[r] = "handle"
        \/ pc[r] \in Busy /\ pc'[r] \in Busy
    BY <1>2 DEF TakeConfig, Build, ProbeTimesOut, Record, ProbeReturns, Probing, Busy, Types
  <2>3. \A s \in Slots : s # r => pc'[s] = pc[s]
    BY <1>2 DEF TakeConfig, Build, ProbeTimesOut, Record, ProbeReturns, Types
  <2>4. QED
    BY <2>1, <2>2, <2>3, TimedKept
<1>3. ASSUME NEW r \in Slots, RefuseModule(r) \/ Refuse(r) \/ ProbePanics(r) \/ Answer(r)
      PROVE  \A s \in Slots : Timed(s)'
  <2>1. Forget(r) /\ clock' = clock
    BY <1>3 DEF RefuseModule, Refuse, ProbePanics, Answer, Close
  <2>2. Timed(r)'
    <3>1. pc'[r] = "idle"
      BY <2>1 DEF Forget, Types
    <3>2. QED
      BY <3>1 DEF Timed, Busy
  <2>3. ASSUME NEW s \in Slots, s # r PROVE Timed(s)'
    <3>1. pc'[s] = pc[s] /\ asked'[s] = asked[s] /\ arrived'[s] = arrived[s]
          /\ module'[s] = module[s] /\ deadline'[s] = deadline[s]
      BY <2>1, <2>3 DEF Types, Forget
    <3>2. QED
      BY <2>1, <3>1, TimedKept
  <2>4. QED
    BY <2>2, <2>3
<1>4. ASSUME NEW r \in Slots, Begin(r)
      PROVE  \A s \in Slots : Timed(s)'
  <2>1. asked[r].module \in Names /\ conf[r] \in Versions
        /\ asked[r].header \in {Absent} \cup Int
    BY <1>4, RequestAssumption DEF Begin, Slot, Types, Unacceptable
  <2>2. ModuleOf(r) # Absent /\ ModuleOf(r).timeout \in Nat /\ ModuleOf(r).prober \notin {"grpc", "websocket"}
    BY <1>4, <2>1, RequestAssumption DEF Begin, ModuleOf, AllStop
  <2>3. clock' = clock /\ clock = arrived[r] /\ arrived'[r] = arrived[r]
        /\ asked'[r] = asked[r] /\ module'[r] = ModuleOf(r)
        /\ deadline'[r] = clock + GetTimeout(asked[r].header, ModuleOf(r).timeout)
        /\ pc'[r] \in {"build", "probe"}
    BY <1>4 DEF Begin, Types, Timed, request
  <2>4. Timed(r)'
    BY <2>1, <2>2, <2>3 DEF Timed, Busy, HonoursContext
  <2>5. ASSUME NEW s \in Slots, s # r PROVE Timed(s)'
    <3>1. pc'[s] = pc[s] /\ asked'[s] = asked[s] /\ arrived'[s] = arrived[s]
          /\ module'[s] = module[s] /\ deadline'[s] = deadline[s] /\ clock' = clock
      BY <1>4, <2>5 DEF Types, Begin, request
    <3>2. QED
      BY <3>1, TimedKept
  <2>6. QED
    BY <2>4, <2>5
<1>5. ASSUME Tick, NEW s \in Slots PROVE Timed(s)'
  <2>1. clock' = clock + 1 /\ Waiting(s)
        /\ UNCHANGED <<pc, asked, arrived, module, deadline>>
    BY <1>5 DEF Tick, request, probe
  <2>2. CASE pc[s] = "idle"
    BY <2>1, <2>2 DEF Timed, Busy
  <2>3. CASE pc[s] \in {"build", "probe"}
    <3>1. HonoursContext(s) /\ Timed(s)
      BY <2>3 DEF Timed, Busy
    <3>2. ~(clock >= deadline[s])
      BY <2>1, <2>3, <3>1 DEF Waiting, Overdue
    <3>3. clock \in Int /\ deadline[s] \in Int
      BY RequestAssumption DEF Types
    <3>4. clock' <= deadline'[s]
      BY <2>1, <3>2, <3>3
    <3>5. QED
      BY <2>1, <2>3, <3>1, <3>4 DEF Timed, Busy, HonoursContext
  <2>4. QED
    BY <2>1, <2>2, <2>3 DEF Waiting
<1>6. CASE (\E r \in Slots : HangUp(r)) \/ Reload \/ UNCHANGED vars
  <2>1. UNCHANGED <<clock, pc, asked, arrived, module, deadline>>
    BY <1>6 DEF HangUp, Reload, vars, process, request, probe
  <2>2. QED
    BY <2>1, TimedKept
<1>7. QED
  BY <1>1, <1>2, <1>3, <1>4, <1>5, <1>6 DEF Next, Serve

\* What the invariant says of the deadline is what the property asks for.
LEMMA TimedInTime == Types /\ (\A r \in Slots : Timed(r)) => InTime
<1> SUFFICES ASSUME Types, \A s \in Slots : Timed(s), NEW r \in Slots, pc[r] \in Busy
             PROVE  /\ Scrape(r) >= Offset => clock <= arrived[r] + Scrape(r) - Offset
                    /\ module[r].timeout > 0 => clock <= arrived[r] + module[r].timeout
  BY DEF InTime, Busy
<1> DEFINE limit == GetTimeout(asked[r].header, module[r].timeout)
<1>1. asked[r].header \in {Absent} \cup Int /\ module[r].timeout \in Nat
      /\ deadline[r] = arrived[r] + limit /\ (clock = arrived[r] \/ clock <= deadline[r])
  BY DEF Timed
<1>2. /\ Scrape(r) \in Int
      /\ Scrape(r) >= Offset => limit <= Scrape(r) - Offset
      /\ module[r].timeout > 0 => limit <= module[r].timeout
  BY <1>1, TimeoutBounds DEF Scrape
<1>3. limit \in Int
  BY <1>1, TimeoutType
<1>4. clock \in Int /\ arrived[r] \in Nat /\ Offset \in Nat
  BY RequestAssumption DEF Types
<1> HIDE DEF limit
<1>5. QED
  BY <1>1, <1>2, <1>3, <1>4

\* A probe is over in time, whichever of the timeouts is the shortest, as long
\* as no module uses the grpc or the websocket prober.
THEOREM OverInTime ==
  ASSUME AllStop
  PROVE  Spec => []InTime
<1>1. Init => \A r \in Slots : Timed(r)
  BY DEF Init, Timed, Busy
<1>2. TypeOK /\ (\A r \in Slots : Timed(r)) /\ [Next]_vars => (\A r \in Slots : Timed(r))'
  BY AllStop, NextTimed, TypeParts
<1>3. TypeOK /\ (\A r \in Slots : Timed(r)) => InTime
  BY TimedInTime, TypeParts
<1>4. QED
  BY <1>1, <1>2, <1>3, TypeCorrect, PTL DEF Spec

-----------------------------------------------------------------------------
(* Recorded once.                                                          *)

\* Only requests are recorded, and none of them twice.
LogDistinct ==
  /\ \A j \in 1 .. Len(log) : log[j].number \in 1 .. Len(fate)
  /\ \A j, k \in 1 .. Len(log) : log[j].number = log[k].number => j = k

InLog(n) == \E j \in 1 .. Len(log) : log[j].number = n

InLogAs(n, s) == \E j \in 1 .. Len(log) : log[j].number = n /\ log[j].success = s

\* A request that is being served stands in the log once it has been recorded.
Logged(r) ==
  /\ pc[r] = "answer" => InLogAs(number[r], success[r])
  /\ pc[r] \notin {"idle", "answer"} => ~InLog(number[r])

\* A request that is closed stands there as it was answered.
FatesTrue ==
  \A n \in 1 .. Len(fate) :
    /\ fate[n] = "success" => InLogAs(n, TRUE)
    /\ fate[n] = "failure" => InLogAs(n, FALSE)
    /\ fate[n] \in {"unknown module", "refused", "aborted"} => ~InLog(n)

RInv == LogDistinct /\ FatesTrue /\ \A r \in Slots : Logged(r)

\* Who is in the log depends on the log alone.
LEMMA LogSame ==
  ASSUME log' = log
  PROVE  \A n, s : (InLog(n)' <=> InLog(n)) /\ (InLogAs(n, s)' <=> InLogAs(n, s))
  BY DEF InLog, InLogAs

\* A step before the recording, or after it, leaves the log as it is.
LEMMA LogKept ==
  ASSUME RInv, UNCHANGED <<log, fate, number>>,
         \A s \in Slots : /\ success'[s] = success[s] \/ pc[s] # "answer"
                          /\ \/ pc'[s] = pc[s]
                             \/ {pc[s], pc'[s]} \cap {"idle", "answer"} = {}
  PROVE  RInv'
<1>1. LogDistinct' /\ FatesTrue'
  BY DEF RInv, LogDistinct, FatesTrue, InLog, InLogAs
<1>2. ASSUME NEW s \in Slots PROVE Logged(s)'
  <2>1. CASE pc'[s] = "answer"
    BY <2>1 DEF RInv, Logged, InLog, InLogAs
  <2>2. CASE pc'[s] # "answer"
    BY <2>2 DEF RInv, Logged, InLog, InLogAs
  <2>3. QED
    BY <2>1, <2>2
<1>3. QED
  BY <1>1, <1>2 DEF RInv

\* A request that is closed as the log has it.
LEMMA LogClosed ==
  ASSUME Types, \A s \in Slots : Slot(s), RInv, NEW r \in Slots, NEW f \in Fates \ {"open"},
         pc[r] # "idle", Close(r, f), log' = log,
         f = "success" => InLogAs(number[r], TRUE),
         f = "failure" => InLogAs(number[r], FALSE),
         f \in {"unknown module", "refused", "aborted"} => ~InLog(number[r])
  PROVE  RInv'
<1>1. fate \in Seq(Fates) /\ number[r] \in 1 .. Len(fate)
  BY DEF Types, Slot
<1>2. Len(fate') = Len(fate) /\ fate'[number[r]] = f
      /\ \A n \in 1 .. Len(fate) : n # number[r] => fate'[n] = fate[n]
  <2>1. fate' = [fate EXCEPT ![number[r]] = f]
    BY DEF Close
  <2>2. QED
    BY ONLY <1>1, <2>1
<1>3. LogDistinct'
  BY <1>2 DEF RInv, LogDistinct
<1>4. FatesTrue'
  <2> SUFFICES ASSUME NEW n \in 1 .. Len(fate)
               PROVE  /\ fate'[n] = "success" => InLogAs(n, TRUE)
                      /\ fate'[n] = "failure" => InLogAs(n, FALSE)
                      /\ fate'[n] \in {"unknown module", "refused", "aborted"} => ~InLog(n)
    BY <1>2, LogSame DEF FatesTrue
  <2>1. CASE n = number[r]
    BY <1>2, <2>1
  <2>2. CASE n # number[r]
    BY <1>2, <2>2 DEF RInv, FatesTrue
  <2>3. QED
    BY <2>1, <2>2
<1>5. Logged(r)'
  <2>1. pc'[r] = "idle"
    BY DEF Close, Forget, Types
  <2>2. QED
    BY <2>1 DEF Logged
<1>6. ASSUME NEW s \in Slots, s # r PROVE Logged(s)'
  <2>1. pc'[s] = pc[s] /\ number'[s] = number[s] /\ success'[s] = success[s]
    BY <1>6 DEF Types, Close, Forget
  <2>2. Logged(s)
    BY DEF RInv
  <2>3. QED
    BY <2>1, <2>2 DEF Logged, InLog, InLogAs
<1>7. QED
  BY <1>3, <1>4, <1>5, <1>6 DEF RInv

\* Every step keeps the history true.
LEMMA NextLogged ==
  ASSUME Types, \A s \in Slots : Slot(s), RInv, [Next]_vars
  PROVE  RInv'
<1>1. ASSUME NEW r \in Slots, NEW q \in Requests, Arrive(r, q)
      PROVE  RInv'
  <2>1. fate \in Seq(Fates) /\ "open" \in Fates
    BY DEF Types, Fates
  <2>2. fate' = Append(fate, "open") /\ log' = log /\ Len(fate) \in Nat
    BY <1>1, <2>1 DEF Arrive
  <2>3. Len(fate') = Len(fate) + 1 /\ fate'[Len(fate) + 1] = "open"
        /\ \A n \in 1 .. Len(fate) : fate'[n] = fate[n]
    BY <2>1, <2>2
  <2>4. LogDistinct'
    BY <2>2, <2>3 DEF RInv, LogDistinct
  <2>5. ~InLog(Len(fate) + 1)
    BY <2>2 DEF RInv, LogDistinct, InLog
  <2>6. FatesTrue'
    <3> SUFFICES ASSUME NEW n \in 1 .. Len(fate) + 1
                 PROVE  /\ fate'[n] = "success" => InLogAs(n, TRUE)
                        /\ fate'[n] = "failure" => InLogAs(n, FALSE)
                        /\ fate'[n] \in {"unknown module", "refused", "aborted"} => ~InLog(n)
      BY <2>2, <2>3, LogSame DEF FatesTrue
    <3>1. CASE n = Len(fate) + 1
      BY <2>3, <3>1
    <3>2. CASE n # Len(fate) + 1
      <4>1. n \in 1 .. Len(fate)
        BY <2>2, <3>2
      <4>2. QED
        BY <2>3, <4>1 DEF RInv, FatesTrue
    <3>3. QED
      BY <3>1, <3>2
  <2>7. Logged(r)'
    <3>1. pc'[r] = "config" /\ number'[r] = Len(fate) + 1
      BY <1>1 DEF Arrive, Types
    <3>2. QED
      BY <2>2, <2>5, <3>1 DEF Logged, InLog
  <2>8. ASSUME NEW s \in Slots, s # r PROVE Logged(s)'
    <3>1. pc'[s] = pc[s] /\ number'[s] = number[s] /\ success'[s] = success[s]
      BY <1>1, <2>8 DEF Types, Arrive, probe
    <3>2. Logged(s)
      BY DEF RInv
    <3>3. QED
      BY <2>2, <3>1, <3>2 DEF Logged, InLog, InLogAs
  <2>9. QED
    BY <2>4, <2>6, <2>7, <2>8 DEF RInv
<1>2. ASSUME NEW r \in Slots,
             \/ TakeConfig(r) \/ Begin(r) \/ Build(r) \/ ProbeTimesOut(r)
             \/ \E s \in BOOLEAN : ProbeReturns(r, s)
      PROVE  RInv'
  <2>1. UNCHANGED <<log, fate, number>>
    BY <1>2 DEF TakeConfig, Begin, Build, ProbeTimesOut, ProbeReturns, process, request
  <2>2. pc[r] \notin {"idle", "answer"} /\ pc'[r] \notin {"idle", "answer"}
    BY <1>2 DEF TakeConfig, Begin, Build, ProbeTimesOut, ProbeReturns, Probing, Types
  <2>3. \A s \in Slots : s # r => pc'[s] = pc[s] /\ success'[s] = success[s]
    BY <1>2 DEF TakeConfig, Begin, Build, ProbeTimesOut, ProbeReturns, Types, probe
  <2>4. QED
    BY <2>1, <2>2, <2>3, LogKept
<1>3. ASSUME NEW r \in Slots, Record(r)
      PROVE  RInv'
  <2> DEFINE entry == [number |-> number[r], success |-> success[r]]
  <2>1. log \in Seq([number: Nat, success: BOOLEAN]) /\ entry \in [number: Nat, success: BOOLEAN]
        /\ Len(log) \in Nat
    BY DEF Types
  <2>2. log' = Append(log, entry) /\ UNCHANGED <<fate, number, success>>
    BY <1>3 DEF Record, request, probe
  <2>3. entry.number = number[r] /\ entry.success = success[r]
    OBVIOUS
  <2> HIDE DEF entry
  <2>4. Len(log') = Len(log) + 1 /\ log'[Len(log) + 1] = entry
        /\ \A j \in 1 .. Len(log) : log'[j] = log[j]
    BY <2>1, <2>2
  <2>5. pc[r] = "record" /\ pc'[r] = "answer" /\ \A s \in Slots : s # r => pc'[s] = pc[s]
    BY <1>3 DEF Record, Types
  <2>6. number[r] \in 1 .. Len(fate) /\ fate[number[r]] = "open"
        /\ \A s \in Slots : number[s] = number[r] => s = r
    BY <2>5 DEF Slot
  <2>7. ~InLog(number[r])
    BY <2>5 DEF RInv, Logged
  <2>8. \A n, s : /\ InLog(n)' <=> InLog(n) \/ n = number[r]
                  /\ InLogAs(n, s)' <=> InLogAs(n, s) \/ (n = number[r] /\ s = success[r])
    <3>1. \A j \in 1 .. Len(log) + 1 : j \in 1 .. Len(log) \/ j = Len(log) + 1
      BY <2>1
    <3>2. 1 .. Len(log) \subseteq 1 .. Len(log) + 1 /\ Len(log) + 1 \in 1 .. Len(log) + 1
      BY <2>1
    <3>3. QED
      BY <2>3, <2>4, <3>1, <3>2 DEF InLog, InLogAs
  <2>9. LogDistinct'
    <3>1. \A j \in 1 .. Len(log) + 1 : j \in 1 .. Len(log) \/ j = Len(log) + 1
      BY <2>1
    <3>2. \A j \in 1 .. Len(log) + 1 : log'[j].number \in 1 .. Len(fate')
      BY <2>2, <2>3, <2>4, <2>6, <3>1 DEF RInv, LogDistinct
    <3>3. \A j \in 1 .. Len(log) : log'[j].number # number[r]
      BY <2>4, <2>7 DEF InLog
    <3>4. log'[Len(log) + 1].number = number[r]
      BY <2>3, <2>4
    <3>5. \A j, k \in 1 .. Len(log) : log'[j].number = log'[k].number => j = k
      BY <2>4 DEF RInv, LogDistinct
    <3>6. QED
      BY <2>4, <3>1, <3>2, <3>3, <3>4, <3>5 DEF LogDistinct
  <2>10. FatesTrue'
    <3> SUFFICES ASSUME NEW n \in 1 .. Len(fate)
                 PROVE  /\ fate[n] = "success" => InLogAs(n, TRUE)'
                        /\ fate[n] = "failure" => InLogAs(n, FALSE)'
                        /\ fate[n] \in {"unknown module", "refused", "aborted"} => ~InLog(n)'
      BY <2>2 DEF FatesTrue, InLog, InLogAs
    <3>1. CASE n = number[r]
      BY <2>6, <3>1
    <3>2. CASE n # number[r]
      <4>1. /\ fate[n] = "success" => InLogAs(n, TRUE)
            /\ fate[n] = "failure" => InLogAs(n, FALSE)
            /\ fate[n] \in {"unknown module", "refused", "aborted"} => ~InLog(n)
        BY DEF RInv, FatesTrue
      <4>2. QED
        BY ONLY <2>8, <3>2, <4>1
    <3>3. QED
      BY <3>1, <3>2
  <2>11. Logged(r)'
    <3>1. InLogAs(number[r], success[r])'
      BY <2>1, <2>3, <2>4, <2>2 DEF InLogAs
    <3>2. QED
      BY <2>2, <2>5, <3>1 DEF Logged, InLogAs
  <2>12. ASSUME NEW s \in Slots, s # r PROVE Logged(s)'
    <3>1. pc'[s] = pc[s] /\ number'[s] = number[s] /\ success'[s] = success[s]
      BY <2>2, <2>5, <2>12
    <3>2. number[s] # number[r]
      BY <2>6, <2>12
    <3>3. Logged(s)
      BY DEF RInv
    <3>4. CASE pc[s] = "answer"
      <4>1. PICK j \in 1 .. Len(log) : log[j].number = number[s] /\ log[j].success = success[s]
        BY <3>3, <3>4 DEF Logged, InLogAs
      <4>2. j \in 1 .. Len(log') /\ log'[j] = log[j]
        BY <2>1, <2>4
      <4>3. QED
        BY <3>1, <3>4, <4>1, <4>2 DEF Logged, InLogAs
    <3>5. CASE pc[s] \notin {"idle", "answer"}
      <4>1. ~InLog(number[s])
        BY <3>3, <3>5 DEF Logged
      <4>2. \A j \in 1 .. Len(log') : log'[j].number # number[s]
        BY <2>1, <2>3, <2>4, <3>2, <4>1 DEF InLog
      <4>3. QED
        BY <3>1, <3>5, <4>2 DEF Logged, InLog
    <3>6. CASE pc[s] = "idle"
      BY <3>1, <3>6 DEF Logged
    <3>7. QED
      BY <3>4, <3>5, <3>6
  <2>13. QED
    BY <2>9, <2>10, <2>11, <2>12 DEF RInv
<1>4. ASSUME NEW r \in Slots, RefuseModule(r) \/ Refuse(r) \/ ProbePanics(r)
      PROVE  RInv'
  <2>1. PICK f \in {"unknown module", "refused", "aborted"} : Close(r, f) /\ log' = log
    BY <1>4 DEF RefuseModule, Refuse, ProbePanics
  <2>2. pc[r] \notin {"idle", "answer"}
    BY <1>4 DEF RefuseModule, Refuse, ProbePanics, Probing
  <2>3. ~InLog(number[r])
    BY <2>2 DEF RInv, Logged
  <2>4. f \in Fates \ {"open"} /\ f \notin {"success", "failure"}
    BY DEF Fates
  <2>5. QED
    BY <2>1, <2>2, <2>3, <2>4, LogClosed
<1>5. ASSUME NEW r \in Slots, Answer(r)
      PROVE  RInv'
  <2> DEFINE f == IF success[r] THEN "success" ELSE "failure"
  <2>1. pc[r] = "answer" /\ Close(r, f) /\ log' = log
    BY <1>5 DEF Answer
  <2>2. InLogAs(number[r], success[r]) /\ success[r] \in BOOLEAN
    BY <2>1 DEF RInv, Logged, Types
  <2>3. f \in Fates \ {"open"} /\ f \notin {"unknown module", "refused", "aborted"}
        /\ (f = "success" => success[r] = TRUE) /\ (f = "failure" => success[r] = FALSE)
    BY <2>2 DEF Fates
  <2> HIDE DEF f
  <2>4. (f = "success" => InLogAs(number[r], TRUE)) /\ (f = "failure" => InLogAs(number[r], FALSE))
    BY <2>2, <2>3
  <2>5. QED
    BY <2>1, <2>3, <2>4, LogClosed
<1>6. CASE (\E r \in Slots : HangUp(r)) \/ Reload \/ Tick \/ UNCHANGED vars
  <2>1. UNCHANGED <<log, fate, number, pc, success>>
    BY <1>6 DEF HangUp, Reload, Tick, vars, process, request, probe
  <2>2. QED
    BY <2>1, LogKept
<1>7. QED
  BY <1>1, <1>2, <1>3, <1>4, <1>5, <1>6 DEF Next, Serve

\* What a scraper was told stands in the history exactly once, as it was told.
THEOREM IsRecordedOnce == Spec => []RecordedOnce
<1>1. Init => RInv
  BY DEF Init, RInv, LogDistinct, FatesTrue, Logged
<1>2. TypeOK /\ RInv /\ [Next]_vars => RInv'
  BY NextLogged, TypeParts
<1>3. RInv => RecordedOnce
  <2> SUFFICES ASSUME RInv, NEW n \in 1 .. Len(fate)
               PROVE  LET entries == {j \in 1 .. Len(log) : log[j].number = n} IN
                        /\ \A j, k \in entries : j = k
                        /\ fate[n] \in {"success", "failure"} =>
                             \E j \in entries : log[j].success = (fate[n] = "success")
                        /\ fate[n] \in {"unknown module", "refused", "aborted"} => entries = {}
    BY DEF RecordedOnce
  <2>1. CASE fate[n] = "success"
    <3>1. (fate[n] = "success") = TRUE
      BY <2>1
    <3>2. PICK j \in 1 .. Len(log) : log[j].number = n /\ log[j].success = TRUE
      BY <2>1 DEF RInv, FatesTrue, InLogAs
    <3>3. log[j].success = (fate[n] = "success")
      BY ONLY <3>1, <3>2, Zenon
    <3>4. \A k, l \in 1 .. Len(log) : log[k].number = n /\ log[l].number = n => k = l
      BY DEF RInv, LogDistinct
    <3>5. fate[n] \notin {"unknown module", "refused", "aborted"}
      BY <2>1
    <3>6. QED
      BY ONLY <3>2, <3>3, <3>4, <3>5, Zenon
  <2>2. CASE fate[n] = "failure"
    <3>1. (fate[n] = "success") = FALSE
      BY <2>2
    <3>2. PICK j \in 1 .. Len(log) : log[j].number = n /\ log[j].success = FALSE
      BY <2>2 DEF RInv, FatesTrue, InLogAs
    <3>3. log[j].success = (fate[n] = "success")
      BY ONLY <3>1, <3>2, Zenon
    <3>4. \A k, l \in 1 .. Len(log) : log[k].number = n /\ log[l].number = n => k = l
      BY DEF RInv, LogDistinct
    <3>5. fate[n] \notin {"unknown module", "refused", "aborted"}
      BY <2>2
    <3>6. QED
      BY ONLY <3>2, <3>3, <3>4, <3>5, Zenon
  <2>3. CASE fate[n] \notin {"success", "failure"}
    BY <2>3 DEF RInv, LogDistinct, FatesTrue, InLog
  <2>4. QED
    BY <2>1, <2>2, <2>3
<1>4. QED
  BY <1>1, <1>2, <1>3, TypeCorrect, PTL DEF Spec
=============================================================================
