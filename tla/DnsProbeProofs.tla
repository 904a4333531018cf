--------------------------- MODULE DnsProbeProofs ---------------------------
(***************************************************************************)
(* Proofs about DnsProbe, for any modules, regular expressions and answers *)
(* of any length.                                                          *)
(***************************************************************************)
EXTENDS DnsProbe, WellFoundedInduction, SequenceTheorems, TLAPS

-----------------------------------------------------------------------------
(* Numbers and sequences.                                                  *)

LEMMA LeastNumber ==
  ASSUME NEW T \in SUBSET Nat, T # {}
  PROVE  \E k \in T : \A j \in T : k <= j
<1> DEFINE R == {p \in Nat \X Nat : p[1] < p[2]}
<1>1. IsWellFoundedOn(R, Nat)
  BY NatLessThanWellFounded DEF OpToRel
<1> HIDE DEF R
<1>2. PICK k \in T : \A j \in T : ~(<<j, k>> \in R)
  BY <1>1, WFMin
<1>3. \A j \in T : ~(j < k)
  BY <1>2 DEF R
<1> QED
  BY <1>3

LEMMA LastIndex ==
  ASSUME NEW n \in Nat, NEW S \in SUBSET (1 .. n), S # {}
  PROVE  \E j \in S : \A k \in S : k <= j
<1> DEFINE T == {n - j : j \in S}
<1>1. T \in SUBSET Nat /\ T # {}
  <2>1. \A j \in S : n - j \in Nat
    OBVIOUS
  <2> QED
    BY <2>1
<1>2. PICK t \in T : \A u \in T : t <= u
  BY <1>1, LeastNumber
<1>3. PICK j \in S : t = n - j
  BY <1>2
<1>4. ASSUME NEW k \in S PROVE k <= j
  <2>1. n - j <= n - k
    BY <1>2, <1>3
  <2> QED
    BY <2>1
<1> QED
  BY <1>4

\* The address that is chosen, if one is, is one of the resolution.
LEMMA ChosenAddress ==
  ASSUME NEW protocol, NEW fallback, NEW ips \in Seq(Addresses),
         ChooseProtocol(protocol, fallback, ips) # NoIP
  PROVE  ChooseProtocol(protocol, fallback, ips) \in Addresses
<1> DEFINE I == {i \in 1 .. Len(ips) : FamilyOf[ips[i]] = Preferred(protocol)}
           first == IF I # {} THEN Min(I) ELSE 0
<1>1. ChooseProtocol(protocol, fallback, ips) =
        CASE first # 0 -> ips[first]
          [] first = 0 /\ fallback /\ ips # <<>> -> ips[Len(ips)]
          [] OTHER -> NoIP
  BY DEF ChooseProtocol, SelectInSeq, Last
<1>2. Len(ips) \in Nat /\ \A i \in 1 .. Len(ips) : ips[i] \in Addresses
  BY LenProperties
<1>3. first # 0 => first \in 1 .. Len(ips)
  <2> I \in SUBSET Nat
    BY <1>2
  <2>1. I # {} => \E k \in I : \A j \in I : k <= j
    BY LeastNumber
  <2>2. I # {} => Min(I) \in I
    BY <2>1 DEF Min
  <2>3. 0 \notin I
    BY <1>2
  <2> QED
    BY <2>2, <2>3
<1>4. ips # <<>> => Len(ips) \in 1 .. Len(ips)
  BY <1>2, EmptySeq
<1> HIDE DEF first
<1> QED
  BY <1>1, <1>2, <1>3, <1>4

-----------------------------------------------------------------------------
(* Types.                                                                  *)

\* A response that has come has three sequences of records, and the module a
\* validator for each.
LEMMA Parts ==
  ASSUME module \in Modules, NEW r \in Responses, NEW s \in 1 .. 3
  PROVE  /\ r # None
         /\ r.sections[s] \in Seq(Records)
         /\ Len(r.sections[s]) \in Nat
         /\ module.validate[s] \in Validator
<1>1. r \in Response /\ module \in Module
  BY DnsAssumption
<1>2. r.sections[s] \in Seq(Records) /\ module.validate[s] \in Validator
  BY <1>1 DEF Response, Module
<1> QED
  BY <1>1, <1>2, LenProperties, DnsAssumption

LEMMA SerialType ==
  ASSUME NEW r \in Responses
  PROVE  SerialOf(r.sections[1]) \in SOA \cup {None}
<1> DEFINE answer == r.sections[1]
           soas == {j \in DOMAIN answer : answer[j] \in SOA}
<1>1. answer \in Seq(Records)
  BY DnsAssumption DEF Response
<1>2. Len(answer) \in Nat /\ DOMAIN answer = 1 .. Len(answer)
  BY <1>1, LenProperties
<1>3. soas # {} => \E j \in soas : \A k \in soas : k <= j
  BY <1>2, LastIndex
<1> HIDE DEF answer
<1>4. soas # {} => answer[CHOOSE j \in soas : \A k \in soas : k <= j] \in SOA
  BY <1>3
<1> QED
  BY <1>4 DEF SerialOf, answer

LEMMA InitTypes == Init => TypeOK
<1> SUFFICES ASSUME Init PROVE TypeOK
  OBVIOUS
<1>1. counts \in [1 .. 3 -> Nat] /\ query = None
  BY DEF Init
<1>2. anyMatch \in BOOLEAN /\ allMatch \in BOOLEAN
  BY DEF Init
<1>3. (verdict = "none") = (pc # "done")
  BY DEF Init
<1> QED
  BY <1>1, <1>2, <1>3 DEF Init, TypeOK

LEMMA NextTypes == TypeOK /\ [Next]_vars => TypeOK'
<1> SUFFICES ASSUME TypeOK, [Next]_vars PROVE TypeOK'
  OBVIOUS
<1>1. CASE Send
  <2>1. IP \in Addresses
    <3>1. target \in Target
      BY DnsAssumption DEF TypeOK
    <3> QED
      BY <1>1, <3>1, ChosenAddress DEF Send, Sendable, IP, Target
  <2>2. Port \in {"own", "53", "853"}
    BY DnsAssumption DEF TypeOK, Target, Port
  <2>3. module.dnsOverTLS \in BOOLEAN
    BY DnsAssumption DEF TypeOK, Module
  <2>4. /\ query'.transport \in {"udp", "tcp"} /\ query'.tls \in BOOLEAN
        /\ query'.port \in {"own", "53", "853"} /\ query'.ip \in Addresses
    BY <1>1, <2>1, <2>2, <2>3 DEF Send, Sendable
  <2> QED
    BY <1>1, <2>4 DEF TypeOK, Send, settings, metrics, place
<1>2. CASE Refuse \/ ExchangeFails
  BY <1>2 DEF TypeOK, Refuse, ExchangeFails, Return, settings, metrics, place
<1>3. ASSUME NEW r \in Responses, Answered(r) PROVE TypeOK'
  <2>1. counts' \in [1 .. 3 -> Nat]
    BY <1>3, Parts DEF Answered, TypeOK
  <2>2. serial' \in SOA \cup {None}
    BY <1>3, SerialType DEF Answered
  <2> QED
    BY <1>3, <2>1, <2>2 DEF TypeOK, Answered, settings, place
<1>4. CASE CheckRcode
  BY <1>4 DEF TypeOK, CheckRcode, Return, settings, metrics, place
<1>5. CASE BeginSection
  <2>1. anyMatch' \in BOOLEAN /\ allMatch' \in BOOLEAN
    BY <1>5, Zenon DEF BeginSection
  <2>3. at' \in Nat \ {0}
    BY <1>5 DEF BeginSection
  <2>2. /\ pc' \in {"records", "done"} /\ verdict' \in {"none", "success", "failure"}
        /\ (verdict' = "none") = (pc' # "done")
    BY <1>5 DEF TypeOK, BeginSection, Return
  <2> QED
    BY <1>5, <2>1, <2>2, <2>3 DEF TypeOK, BeginSection, settings, metrics
<1>6. CASE CheckRecord
  <2>1. CASE Breaks(RRs[at])
    BY <1>6, <2>1 DEF TypeOK, CheckRecord, Return, settings, metrics
  <2>2. CASE ~Breaks(RRs[at])
    <3>1. allMatch' \in BOOLEAN /\ anyMatch' \in BOOLEAN /\ at' \in Nat \ {0}
      BY <1>6, <2>2 DEF TypeOK, CheckRecord
    <3> QED
      BY <1>6, <2>2, <3>1 DEF TypeOK, CheckRecord, settings, metrics
  <2> QED
    BY <2>1, <2>2
<1>7. CASE EndSection
  <2>1. section' \in 1 .. 3
    BY <1>7 DEF TypeOK, EndSection, Return
  <2>2. /\ pc' \in {"section", "done"} /\ verdict' \in {"none", "success", "failure"}
        /\ (verdict' = "none") = (pc' # "done")
    BY <1>7 DEF TypeOK, EndSection, Return
  <2> QED
    BY <1>7, <2>1, <2>2 DEF TypeOK, EndSection, settings, metrics
<1>8. CASE UNCHANGED vars
  BY <1>8 DEF TypeOK, vars, settings, metrics, place
<1> QED
  BY <1>1, <1>2, <1>3, <1>4, <1>5, <1>6, <1>7, <1>8 DEF Next

\* Type correctness, for servers that answer records in any number.
THEOREM TypeCorrect == Spec => []TypeOK
<1> QED
  BY InitTypes, NextTypes, PTL DEF Spec

-----------------------------------------------------------------------------
(* The judgement.                                                          *)

\* What the loop of validRRs knows when it has gone through the records before
\* the one it looks at.
Gone ==
  /\ at <= Len(RRs) + 1
  /\ RRs = <<>> => Rules.notMatches = {} /\ Rules.noneMatches = {}
  /\ \A j \in 1 .. at - 1 : ~Breaks(RRs[j])
  /\ allMatch => \A j \in 1 .. at - 1 : \A re \in Rules.allMatch : RRs[j] \in re.of
  /\ ~allMatch => \E j \in 1 .. at - 1 : \E re \in Rules.allMatch : RRs[j] \notin re.of
  /\ anyMatch => \E j \in 1 .. at - 1 : \E re \in Rules.noneMatches : RRs[j] \in re.of
  /\ ~anyMatch => \A j \in 1 .. at - 1 : \A re \in Rules.noneMatches : RRs[j] \notin re.of

\* The code and the sections behind the probe were met.
Met ==
  /\ ValidRcode(response.rcode)
  /\ \A s \in 1 .. section - 1 : Meets(response.sections[s], module.validate[s])

Judged ==
  /\ pc \in {"start", "exchange"} => response = None /\ succeeded = 0
  /\ pc \in {"rcode", "section", "records"} => response \in Responses /\ succeeded = 1
  /\ pc \in {"start", "exchange", "rcode"} => section = 1
  /\ pc \in {"section", "records"} => Met
  /\ pc = "records" => Gone
  /\ AnswerJudged

\* A section whose loop has come to its end.
LEMMA EndMeets ==
  ASSUME RRs \in Seq(Records), at \in Nat \ {0}, Gone, at > Len(RRs),
         ~(Rules.allMatch # {} /\ ~allMatch), ~(Rules.noneMatches # {} /\ ~anyMatch)
  PROVE  Meets(RRs, Rules)
<1> DEFINE among == {RRs[j] : j \in DOMAIN RRs}
<1>1. DOMAIN RRs = 1 .. Len(RRs) /\ Len(RRs) \in Nat
  BY LenProperties
<1>2. at - 1 = Len(RRs)
  BY <1>1 DEF Gone
<1>3. \A x \in among : \E j \in 1 .. at - 1 : x = RRs[j]
  BY <1>1, <1>2
<1>4. \A j \in 1 .. at - 1 : RRs[j] \in among
  BY <1>1, <1>2
<1>5. RRs # <<>> => among # {}
  <2>1. RRs # <<>> => 1 \in DOMAIN RRs
    BY <1>1, EmptySeq
  <2> QED
    BY <2>1
<1>6. \A x \in among : ~Breaks(x)
  BY <1>3 DEF Gone
<1> HIDE DEF among
<1>7. among # {} => \A re \in Rules.matches \cup Rules.allMatch \cup Rules.notMatches
                                \cup Rules.noneMatches : re.compiles
  BY <1>6 DEF Breaks
<1>8. \A re \in Rules.matches : among \cap re.of = {}
  BY <1>6 DEF Breaks
<1>9. \A re \in Rules.allMatch : among \subseteq re.of
  <2> SUFFICES ASSUME NEW re \in Rules.allMatch, NEW x \in among PROVE x \in re.of
    OBVIOUS
  <2>1. allMatch
    OBVIOUS
  <2>2. PICK j \in 1 .. at - 1 : x = RRs[j]
    BY <1>3
  <2> QED
    BY <2>1, <2>2 DEF Gone
<1>10. \A re \in Rules.notMatches : among # {} /\ among \subseteq re.of
  <2>1. Rules.notMatches # {} => RRs # <<>>
    BY DEF Gone
  <2>2. \A re \in Rules.notMatches : among \subseteq re.of
    BY <1>6 DEF Breaks
  <2> QED
    BY <1>5, <2>1, <2>2
<1>11. Rules.noneMatches # {} => \E re \in Rules.noneMatches : among \cap re.of # {}
  <2> SUFFICES ASSUME Rules.noneMatches # {}
               PROVE  \E re \in Rules.noneMatches : among \cap re.of # {}
    OBVIOUS
  <2>1. anyMatch
    OBVIOUS
  <2>2. PICK j \in 1 .. at - 1, re \in Rules.noneMatches : RRs[j] \in re.of
    BY <2>1 DEF Gone
  <2>3. RRs[j] \in among
    BY <1>4
  <2> QED
    BY <2>2, <2>3
<1> QED
  BY <1>7, <1>8, <1>9, <1>10, <1>11 DEF Meets, among

\* A section that fails at its end.
LEMMA EndFails ==
  ASSUME RRs \in Seq(Records), at \in Nat \ {0}, Gone, at > Len(RRs),
         \/ Rules.allMatch # {} /\ ~allMatch
         \/ Rules.noneMatches # {} /\ ~anyMatch
  PROVE  ~Meets(RRs, Rules)
<1> DEFINE among == {RRs[j] : j \in DOMAIN RRs}
<1>1. DOMAIN RRs = 1 .. Len(RRs) /\ Len(RRs) \in Nat
  BY LenProperties
<1>2. at - 1 = Len(RRs)
  BY <1>1 DEF Gone
<1>3. CASE Rules.allMatch # {} /\ ~allMatch
  <2>1. PICK j \in 1 .. at - 1, re \in Rules.allMatch : RRs[j] \notin re.of
    BY <1>3 DEF Gone
  <2>2. RRs[j] \in among
    BY <1>1, <1>2
  <2> QED
    BY <2>1, <2>2 DEF Meets
<1>4. CASE Rules.noneMatches # {} /\ ~anyMatch
  <2>1. \A x \in among : \E j \in 1 .. at - 1 : x = RRs[j]
    BY <1>1, <1>2
  <2>2. \A re \in Rules.noneMatches : among \cap re.of = {}
    BY <1>4, <2>1 DEF Gone
  <2> QED
    BY <1>4, <2>2 DEF Meets
<1> QED
  BY <1>3, <1>4

\* A record that breaks a rule, and a section that is empty but must not be.
LEMMA RecordFails ==
  ASSUME RRs \in Seq(Records), NEW j \in 1 .. Len(RRs), Breaks(RRs[j])
  PROVE  ~Meets(RRs, Rules)
<1> DEFINE among == {RRs[k] : k \in DOMAIN RRs}
<1>1. RRs[j] \in among
  BY LenProperties
<1> HIDE DEF among
<1>2. Meets(RRs, Rules) =>
        /\ \A re \in Rules.matches \cup Rules.allMatch \cup Rules.notMatches
                        \cup Rules.noneMatches : re.compiles
        /\ \A re \in Rules.matches : RRs[j] \notin re.of
        /\ \A re \in Rules.notMatches : RRs[j] \in re.of
  BY <1>1 DEF Meets, among
<1> QED
  BY <1>2 DEF Breaks

LEMMA EmptyFails ==
  ASSUME RRs = <<>>, Rules.notMatches # {} \/ Rules.noneMatches # {}
  PROVE  ~Meets(RRs, Rules)
<1>1. {RRs[j] : j \in DOMAIN RRs} = {}
  OBVIOUS
<1> QED
  BY <1>1 DEF Meets

\* One unmet section is enough to refuse the answer.
LEMMA OneUnmet ==
  ASSUME TypeOK, ~Meets(RRs, Rules)
  PROVE  ~Acceptable(response)
  BY DEF TypeOK, Acceptable, RRs, Rules

LEMMA InitJudged == Init => Judged
  BY DEF Init, Judged, AnswerJudged

\* A step that leaves the answer alone and ends with a failure.
LEMMA Failing ==
  ASSUME pc' = "done", verdict' = "failure", response' = response, module' = module,
         (succeeded' = 1) = (response' # None), response # None => ~Acceptable(response)
  PROVE  Judged'
<1>1. response # None => ~(Acceptable(response))'
  BY DEF Acceptable, ValidRcode
<1>2. AnswerJudged'
  BY <1>1 DEF AnswerJudged
<1> QED
  BY <1>2 DEF Judged

LEMMA NextJudged == TypeOK /\ Judged /\ [Next]_vars => Judged'
<1> SUFFICES ASSUME TypeOK, Judged, [Next]_vars PROVE Judged'
  OBVIOUS
<1>1. CASE Send
  BY <1>1 DEF Send, Judged, AnswerJudged, metrics, place
<1>2. CASE Refuse \/ ExchangeFails
  <2>1. response = None /\ succeeded = 0
    BY <1>2 DEF Refuse, ExchangeFails, Judged
  <2>2. /\ pc' = "done" /\ verdict' = "failure" /\ response' = response
        /\ module' = module /\ succeeded' = succeeded
    BY <1>2 DEF Refuse, ExchangeFails, Return, settings, metrics
  <2> QED
    BY <2>1, <2>2, Failing
<1>3. ASSUME NEW r \in Responses, Answered(r) PROVE Judged'
  <2>1. pc' = "rcode" /\ response' = r /\ succeeded' = 1 /\ section' = section
    BY <1>3 DEF Answered, place
  <2>2. section = 1
    BY <1>3 DEF Answered, Judged
  <2> QED
    BY <2>1, <2>2 DEF Judged, AnswerJudged
<1>4. CASE CheckRcode
  <2>1. response \in Responses /\ response # None /\ succeeded = 1 /\ section = 1
    BY <1>4, Parts DEF CheckRcode, Judged, TypeOK
  <2>2. UNCHANGED <<module, response, succeeded, section, at, anyMatch, allMatch>>
    BY <1>4 DEF CheckRcode, settings, metrics, place
  <2>3. CASE ValidRcode(response.rcode)
    <3>1. pc' = "section" /\ (ValidRcode(response.rcode))'
      BY <1>4, <2>2, <2>3 DEF CheckRcode, ValidRcode
    <3>2. Met'
      BY <2>1, <2>2, <3>1 DEF Met
    <3> QED
      BY <2>1, <2>2, <3>1, <3>2 DEF Judged, AnswerJudged
  <2>4. CASE ~ValidRcode(response.rcode)
    <3>1. pc' = "done" /\ verdict' = "failure"
      BY <1>4, <2>4 DEF CheckRcode, Return
    <3> QED
      BY <2>1, <2>2, <2>4, <3>1, Failing DEF Acceptable
  <2> QED
    BY <2>3, <2>4
<1>5. CASE BeginSection
  <2>1. response \in Responses /\ response # None /\ succeeded = 1 /\ Met
    BY <1>5, Parts DEF BeginSection, Judged, TypeOK
  <2>2. /\ UNCHANGED <<module, response, succeeded, section>>
        /\ at' = 1 /\ anyMatch' = FALSE /\ allMatch' = TRUE
    BY <1>5 DEF BeginSection, settings, metrics
  <2>3. CASE RRs = <<>> /\ (Rules.notMatches # {} \/ Rules.noneMatches # {})
    <3>1. pc' = "done" /\ verdict' = "failure"
      BY <1>5, <2>3 DEF BeginSection, Return
    <3>2. ~Acceptable(response)
      BY <2>3, EmptyFails, OneUnmet
    <3> QED
      BY <2>1, <2>2, <3>1, <3>2, Failing
  <2>4. CASE ~(RRs = <<>> /\ (Rules.notMatches # {} \/ Rules.noneMatches # {}))
    <3>1. pc' = "records" /\ Rules' = Rules /\ RRs' = RRs
      BY <1>5, <2>2, <2>4 DEF BeginSection, Rules, RRs
    <3>2. Met'
      BY <2>1, <2>2 DEF Met, ValidRcode
    <3>3. Len(RRs) \in Nat
      BY <2>1, Parts DEF RRs, TypeOK
    <3>4. Gone'
      BY <2>2, <2>4, <3>1, <3>3 DEF Gone
    <3> QED
      BY <2>1, <2>2, <3>1, <3>2, <3>4 DEF Judged, AnswerJudged
  <2> QED
    BY <2>3, <2>4
<1>6. CASE CheckRecord
  <2>1. /\ response \in Responses /\ response # None /\ succeeded = 1 /\ Met /\ Gone
        /\ RRs \in Seq(Records) /\ Len(RRs) \in Nat /\ at \in 1 .. Len(RRs)
    BY <1>6, Parts DEF CheckRecord, Judged, TypeOK, RRs
  <2>2. UNCHANGED <<module, response, succeeded, section>>
    BY <1>6 DEF CheckRecord, settings, metrics
  <2>3. CASE Breaks(RRs[at])
    <3>1. pc' = "done" /\ verdict' = "failure"
      BY <1>6, <2>3 DEF CheckRecord, Return
    <3>2. ~Acceptable(response)
      BY <2>1, <2>3, RecordFails, OneUnmet
    <3> QED
      BY <2>1, <2>2, <3>1, <3>2, Failing
  <2>4. CASE ~Breaks(RRs[at])
    <3>1. /\ pc' = pc /\ pc = "records" /\ at' = at + 1
          /\ Rules' = Rules /\ RRs' = RRs
      BY <1>6, <2>2, <2>4 DEF CheckRecord, Rules, RRs
    <3>2. Met'
      BY <2>1, <2>2 DEF Met, ValidRcode
    <3>3. /\ allMatch' => allMatch /\ \A re \in Rules.allMatch : RRs[at] \in re.of
          /\ ~allMatch' => ~allMatch \/ \E re \in Rules.allMatch : RRs[at] \notin re.of
          /\ anyMatch' => anyMatch \/ \E re \in Rules.noneMatches : RRs[at] \in re.of
          /\ ~anyMatch' => ~anyMatch /\ \A re \in Rules.noneMatches : RRs[at] \notin re.of
      BY <1>6, <2>4, Zenon DEF CheckRecord
    <3>4. \A j \in 1 .. at' - 1 : j \in 1 .. at - 1 \/ j = at
      BY <2>1, <3>1
    <3>5. at \in 1 .. at' - 1 /\ 1 .. at - 1 \subseteq 1 .. at' - 1 /\ at' <= Len(RRs) + 1
      BY <2>1, <3>1
    <3>6. Gone'
      <4>1. \A j \in 1 .. at' - 1 : ~Breaks(RRs[j])
        BY <2>1, <2>4, <3>4 DEF Gone
      <4>7. ASSUME NEW j \in 1 .. at' - 1 PROVE ~(Breaks(RRs[j]))'
        BY <3>1, <4>1 DEF Breaks
      <4>2. allMatch' => \A j \in 1 .. at' - 1 : \A re \in Rules.allMatch : RRs[j] \in re.of
        BY <2>1, <3>3, <3>4 DEF Gone
      <4>3. ~allMatch' => \E j \in 1 .. at' - 1 : \E re \in Rules.allMatch : RRs[j] \notin re.of
        BY <2>1, <3>3, <3>5 DEF Gone
      <4>4. anyMatch' => \E j \in 1 .. at' - 1 : \E re \in Rules.noneMatches : RRs[j] \in re.of
        BY <2>1, <3>3, <3>5 DEF Gone
      <4>5. ~anyMatch' => \A j \in 1 .. at' - 1 : \A re \in Rules.noneMatches : RRs[j] \notin re.of
        BY <2>1, <3>3, <3>4 DEF Gone
      <4>6. RRs = <<>> => Rules.notMatches = {} /\ Rules.noneMatches = {}
        BY <2>1 DEF Gone
      <4> QED
        BY <3>1, <3>5, <4>7, <4>2, <4>3, <4>4, <4>5, <4>6 DEF Gone
    <3> QED
      BY <2>1, <2>2, <3>1, <3>2, <3>6 DEF Judged, AnswerJudged
  <2> QED
    BY <2>3, <2>4
<1>7. CASE EndSection
  <2>1. /\ response \in Responses /\ response # None /\ succeeded = 1 /\ Met /\ Gone
        /\ RRs \in Seq(Records) /\ at \in Nat \ {0} /\ at > Len(RRs) /\ section \in 1 .. 3
    BY <1>7, Parts DEF EndSection, Judged, TypeOK, RRs
  <2>2. UNCHANGED <<module, response, succeeded>>
    BY <1>7 DEF EndSection, settings, metrics
  <2>3. CASE (Rules.allMatch # {} /\ ~allMatch) \/ (Rules.noneMatches # {} /\ ~anyMatch)
    <3>1. pc' = "done" /\ verdict' = "failure"
      BY <1>7, <2>3 DEF EndSection, Return
    <3>2. ~Acceptable(response)
      BY <2>1, <2>3, EndFails, OneUnmet
    <3> QED
      BY <2>1, <2>2, <3>1, <3>2, Failing
  <2>4. CASE ~((Rules.allMatch # {} /\ ~allMatch) \/ (Rules.noneMatches # {} /\ ~anyMatch))
    <3>1. Meets(response.sections[section], module.validate[section])
      BY <2>1, <2>4, EndMeets DEF RRs, Rules
    <3>2. CASE section < 3
      <4>1. pc' = "section" /\ section' = section + 1
        BY <1>7, <2>4, <3>2 DEF EndSection
      <4>2. \A s \in 1 .. section' - 1 : s \in 1 .. section - 1 \/ s = section
        BY <2>1, <4>1
      <4>3. Met'
        BY <2>1, <2>2, <3>1, <4>2 DEF Met, ValidRcode
      <4> QED
        BY <2>1, <2>2, <4>1, <4>3 DEF Judged, AnswerJudged
    <3>3. CASE ~(section < 3)
      <4>1. pc' = "done" /\ verdict' = "success"
        BY <1>7, <2>4, <3>3 DEF EndSection, Return
      <4>2. \A s \in 1 .. 3 : s \in 1 .. section - 1 \/ s = section
        BY <2>1, <3>3
      <4>3. Acceptable(response)
        BY <2>1, <3>1, <4>2 DEF Met, Acceptable
      <4>4. (Acceptable(response))'
        BY <2>2, <4>3 DEF Acceptable, ValidRcode
      <4>5. AnswerJudged'
        BY <2>1, <2>2, <4>1, <4>4 DEF AnswerJudged
      <4> QED
        BY <4>1, <4>5 DEF Judged
    <3> QED
      BY <3>2, <3>3
  <2> QED
    BY <2>3, <2>4
<1>8. CASE UNCHANGED vars
  <2>1. UNCHANGED <<module, pc, response, succeeded, section, at, anyMatch, allMatch, verdict>>
    BY <1>8 DEF vars, settings, metrics, place
  <2> QED
    BY <2>1 DEF Judged, Met, Gone, AnswerJudged, Acceptable, ValidRcode, Breaks, RRs, Rules
<1> QED
  BY <1>1, <1>2, <1>3, <1>4, <1>5, <1>6, <1>7, <1>8 DEF Next

\* A probe succeeds exactly if the answer meets every rule of its module, for
\* any rules and any number of records.
THEOREM AnswerIsJudged == Spec => []AnswerJudged
<1>1. Judged => AnswerJudged
  BY DEF Judged
<1> QED
  BY <1>1, InitJudged, NextJudged, TypeCorrect, PTL DEF Spec
=============================================================================
