-------------------------- MODULE HttpProbeProofs --------------------------
(***************************************************************************)
(* Proofs about HttpProbe, for any modules, servers, answers and redirects *)
(* in any number.                                                          *)
(***************************************************************************)
EXTENDS HttpProbe, TLAPS

\* No module asks for regular expressions and for CEL expressions of a body.
NotBoth == \A m \in Modules : ~(BodyRules(m) /\ JSONRules(m))

\* What Acceptable asks for but whether TLS was used.
Judgeable ==
  /\ StatusMeets(module, response)
  /\ HeadersMeet(module, response)
  /\ module.compression # "other"
  /\ (refused /\ ~AsksForBody(module)) \/ BodyMeets(module, response)
  /\ module.validHTTPVersions # {} => response.version \in module.validHTTPVersions

\* What CheckHead has found if the probe goes on, given that nothing was lost.
HeadMeets ==
  /\ StatusMeets(module, response)
  /\ HeadersMeet(module, response)
  /\ module.compression # "other"
  /\ module.compression = "gzip" => ~Closed(response) /\ response.body.encoding = "gzip"
  /\ decoded <=> module.compression \in {"gzip", "br"}

WordsKnown ==
  IF BodyRules(module)
  THEN unread = "none" /\ WordsMeet(module, WordsIn(module, response))
  ELSE unread = "all"

ValueKnown ==
  IF JSONRules(module)
  THEN unread = "none" /\ JSONMeets(module, ValueIn(module, response))
  ELSE TRUE

Judging == {"body", "json", "drain"}

\* Before there is an answer nothing is known, and nothing is blamed.
Unanswered ==
  /\ response = None /\ ~refused /\ ~success /\ ~lost /\ unread = "all"
  /\ failedDueToRegex = 0 /\ failedDueToCEL = 0

\* The reader has given the body only if it had all arrived.
Reading ==
  /\ response \in Site[host].answers
  /\ unread \in {"all", "none"}
  /\ lost => response.body.size > 0
  /\ unread = "none" => Arrived(module, response)

VerdictIsRight ==
  pc = "done" => (verdict = "success") = (response # None /\ Acceptable(module, response))

Judged ==
  /\ module \in Modules /\ host \in Hosts
  /\ pc \in {"start", "send", "trip"} => Unanswered
  /\ pc = "head" => Reading /\ ~success /\ unread = "all"
  /\ pc \in Judging =>
       /\ Reading
       /\ success => HeadMeets
       /\ ~success => ~Judgeable
  /\ pc = "body" => unread = "all"
  /\ pc = "json" /\ success => WordsKnown
  /\ pc = "drain" /\ success =>
       /\ BodyRules(module) => unread = "none"
       /\ WordsMeet(module, WordsIn(module, response)) /\ ValueKnown
  /\ pc = "measure" =>
       \/ Unanswered
       \/ response \in Site[host].answers /\ (success <=> Judgeable)
  /\ VerdictIsRight
  /\ pc = "done" => verdict \in {"success", "failure"}

HeadersBlamed ==
  (failedDueToRegex = 1) = (StatusMeets(module, response) /\ ~HeadersMeet(module, response))

RegexBlamed == (failedDueToRegex = 1) = (response # None /\ RegexFails(module, response))

CELBlamed == (failedDueToCEL = 1) = (response # None /\ CELFails(module, response))

\* A body that was asked for and is still unread could not be read, whatever is
\* lost of it now.
WordsTried ==
  unread = "all" /\ BodyChecked(module, response) /\ BodyRules(module) => failedDueToRegex = 1

ValueTried ==
  unread = "all" /\ BodyChecked(module, response) /\ JSONRules(module) => failedDueToCEL = 1

\* The gauges blame the checks made so far that failed.
Blamed ==
  /\ failedDueToRegex \in {0, 1} /\ failedDueToCEL \in {0, 1}
  /\ pc \in {"head", "body", "json"} => failedDueToCEL = 0
  /\ pc = "head" => failedDueToRegex = 0
  /\ pc = "body" => HeadersBlamed /\ (success <=> BodyChecked(module, response))
  /\ pc = "json" => success <=> BodyChecked(module, response) /\ failedDueToRegex = 0
  /\ pc \in {"json", "drain"} => WordsTried
  /\ pc \in {"json", "drain", "measure", "done"} => RegexBlamed
  /\ pc = "drain" => ValueTried
  /\ pc \in {"drain", "measure", "done"} => CELBlamed

-----------------------------------------------------------------------------
(* What a step says of the reader, of the gauges and of the verdict.       *)

LEMMA Sizes ==
  ASSUME module \in Modules, response \in Site[host].answers, host \in Hosts
  PROVE  /\ response # None
         /\ response.body.size \in Nat /\ module.bodySizeLimit \in Nat
         /\ module.compression \in {"", "identity", "gzip", "br", "other"}
<1>1. response \in Response /\ module \in Module
  BY HttpAssumption
<1>2. response.body \in Body
  BY <1>1 DEF Response
<1> QED
  BY <1>1, <1>2, HttpAssumption DEF Body, Module

\* Untouched: a step that leaves alone what the judgement is about.
LEMMA Untouched ==
  ASSUME Judged,
         UNCHANGED <<module, pc, host, response, refused, unread, lost, decoded, success,
                     failedDueToRegex, failedDueToCEL, verdict>>
  PROVE  Judged'
BY DEF Judged, Unanswered, Reading, HeadMeets, WordsKnown, ValueKnown, Judgeable,
       VerdictIsRight, Acceptable, SSLMeets, Arrived, Closed, BodyMeets

\* Until something is lost, reading the body to its end fails exactly if it
\* has not arrived.
LEMMA ReadingFails ==
  ASSUME unread = "all", HeadMeets, module \in Modules, response \in Site[host].answers,
         host \in Hosts
  PROVE  ReadFails <=> ~Arrived(module, response)
<1> DEFINE size == response.body.size
           limit == module.bodySizeLimit
<1>1. size \in Nat /\ limit \in Nat
  BY Sizes
<1>2. (limit > 0 /\ size > limit) <=> ~(limit > 0 => size <= limit)
  BY <1>1
<1>3. (decoded /\ response.body.encoding # module.compression) <=>
        ~(module.compression \in {"gzip", "br"} => response.body.encoding = module.compression)
  BY DEF HeadMeets
<1> QED
  BY <1>2, <1>3, Zenon DEF ReadFails, Arrived

LEMMA InitJudged == Init => Judged
BY HttpAssumption DEF Init, Judged, Unanswered, Judging, VerdictIsRight

LEMMA SetupJudged ==
  ASSUME Judged, Setup
  PROVE  Judged'
BY DEF Judged, Setup, Unanswered, Judging, VerdictIsRight, client, answer, outcome

LEMMA SetupFailsJudged ==
  ASSUME Judged, SetupFails
  PROVE  Judged'
BY DEF Judged, SetupFails, Unanswered, Judging, VerdictIsRight, client, answer

LEMMA RoundTripJudged ==
  ASSUME Judged, RoundTrip
  PROVE  Judged'
BY DEF Judged, RoundTrip, Unanswered, Judging, VerdictIsRight, client, answer, outcome

LEMMA TripFailsJudged ==
  ASSUME Judged, TripFails
  PROVE  Judged'
BY DEF Judged, TripFails, Unanswered, Judging, VerdictIsRight, client, answer, outcome

LEMMA AnsweredJudged ==
  ASSUME Judged, NEW r \in Site[host].answers, Answered(r)
  PROVE  Judged'
<1>0. r \in Response
  BY HttpAssumption DEF Judged
<1>1. CASE r.location # None /\ Follows(Last)
  <2>1. r.location \in Hosts
    BY <1>0, <1>1 DEF Response
  <2> QED
    BY <1>1, <2>1 DEF Judged, Answered, Unanswered, Judging, VerdictIsRight, outcome
<1>2. CASE ~(r.location # None /\ Follows(Last))
  BY <1>2 DEF Judged, Answered, Unanswered, Reading, Judging, VerdictIsRight, outcome
<1> QED
  BY <1>1, <1>2

LEMMA BodyLostJudged ==
  ASSUME Judged, BodyLost
  PROVE  Judged'
<1>1. module \in Modules /\ host \in Hosts
  BY DEF Judged
<1>2. CASE pc = "head"
  BY <1>1, <1>2 DEF Judged, BodyLost, Reading, Judging, VerdictIsRight, client, outcome
<1>3. CASE pc \in Judging
  <2>1. Reading' /\ ~Arrived(module, response)' /\ unread' = "all"
    BY <1>3 DEF Judged, BodyLost, Reading, Arrived, client, Judging
  <2>3. success => HeadMeets'
    BY <1>3 DEF Judged, BodyLost, HeadMeets, Closed
  <2>4. ~success => ~Judgeable'
    BY <1>3, <2>1 DEF Judged, BodyLost, Judgeable, BodyMeets, Arrived, Closed
  <2>5. WordsKnown => WordsKnown'
    BY DEF BodyLost, WordsKnown
  <2>6. ValueKnown => ValueKnown'
    BY DEF BodyLost, ValueKnown
  <2> QED
    BY <1>3, <2>1, <2>3, <2>4, <2>5, <2>6
    DEF Judged, BodyLost, Judging, VerdictIsRight, client, outcome
<1> QED
  BY <1>2, <1>3 DEF BodyLost, Judging

LEMMA CheckHeadJudged ==
  ASSUME Judged, CheckHead
  PROVE  Judged'
<1> DEFINE status == StatusMeets(module, response)
           headers == HeaderRules(module) => HeadersMeet(module, response)
<1>1. /\ module \in Modules /\ host \in Hosts /\ Reading /\ unread = "all"
  BY DEF Judged, CheckHead
<1>2. headers <=> HeadersMeet(module, response)
  BY DEF HeaderRules, HeadersMeet
<1>3. success' <=> status /\ HeadersMeet(module, response) /\ ~NoDecompressor
  BY <1>2 DEF CheckHead
<1>5. Reading'
  BY <1>1 DEF Reading, CheckHead, Arrived, Closed, client
<1>7. success' => HeadMeets'
  BY <1>1, <1>3, Sizes DEF HeadMeets, CheckHead, NoDecompressor, Closed
<1>8. ~success' => ~Judgeable'
  <2>1. NoDecompressor => \/ module.compression = "other"
                          \/ module.compression = "gzip" /\ ~Arrived(module, response)
    BY DEF NoDecompressor, Arrived
  <2>2. Judgeable' <=> Judgeable
    BY DEF Judgeable, CheckHead, BodyMeets, Arrived, Closed
  <2> QED
    BY <1>3, <2>1, <2>2 DEF Judgeable, AsksForBody, BodyMeets
<1> QED
  BY <1>1, <1>5, <1>7, <1>8 DEF Judged, CheckHead, Judging, VerdictIsRight, client

LEMMA CheckBodyJudged ==
  ASSUME NotBoth, Judged, CheckBody
  PROVE  Judged'
<1> DEFINE meets == WordsMeet(module, WordsIn(module, response))
<1>1. /\ module \in Modules /\ host \in Hosts /\ Reading
      /\ success => HeadMeets
      /\ ~success => ~Judgeable
      /\ unread = "all"
  BY DEF Judged, CheckBody, Judging
<1>2. response \in Site[host].answers
  BY <1>1 DEF Reading
<1>3. Text = WordsIn(module, response)
  BY <1>1 DEF Text
<1>4. (HeadMeets' <=> HeadMeets) /\ (Judgeable' <=> Judgeable)
  BY DEF HeadMeets, Judgeable, BodyMeets, Arrived, Closed, CheckBody
<1>5. /\ pc' = "json"
      /\ UNCHANGED <<module, host, response, refused, lost, failedDueToCEL, verdict>>
      /\ Arrived(module, response)' <=> Arrived(module, response)
  BY DEF CheckBody, client, Arrived, Closed
<1>6. CASE success /\ BodyRules(module)
  <2>1. ReadFails <=> ~Arrived(module, response)
    BY <1>1, <1>2, <1>6, ReadingFails
  <2>2. success' <=> Arrived(module, response) /\ meets
    BY <1>3, <1>6, <2>1 DEF CheckBody
  <2>4. unread' = IF ReadFails THEN unread ELSE "none"
    BY <1>6 DEF CheckBody
  <2>5. Reading'
    BY <1>1, <1>5, <2>1, <2>4 DEF Reading
  <2>8. ~success' => ~Judgeable'
    BY <1>4, <1>6, <2>2 DEF Judgeable, BodyMeets, AsksForBody
  <2>9. success' => WordsKnown'
    BY <1>5, <1>6, <2>1, <2>2, <2>4 DEF WordsKnown
  <2> QED
    BY <1>1, <1>4, <1>5, <1>6, <2>5, <2>8, <2>9 DEF Judged, Judging, VerdictIsRight
<1>7. CASE ~(success /\ BodyRules(module))
  <2>1. UNCHANGED <<success, unread>>
    BY <1>7 DEF CheckBody
  <2>2. Reading'
    BY <1>1, <1>5, <2>1 DEF Reading
  <2>3. success => WordsKnown'
    BY <1>1, <1>5, <1>7, <2>1 DEF WordsKnown
  <2> QED
    BY <1>1, <1>4, <1>5, <2>1, <2>2, <2>3 DEF Judged, Judging, VerdictIsRight
<1> QED
  BY <1>6, <1>7

LEMMA CheckJSONJudged ==
  ASSUME NotBoth, Judged, CheckJSON
  PROVE  Judged'
<1> DEFINE meets == JSONMeets(module, ValueIn(module, response))
<1>1. /\ module \in Modules /\ host \in Hosts /\ Reading
      /\ success => HeadMeets
      /\ ~success => ~Judgeable
      /\ success => WordsKnown
  BY DEF Judged, CheckJSON, Judging
<1>2. response \in Site[host].answers
  BY <1>1 DEF Reading
<1>3. (HeadMeets' <=> HeadMeets) /\ (Judgeable' <=> Judgeable)
  BY DEF HeadMeets, Judgeable, BodyMeets, Arrived, Closed, CheckJSON
<1>4. /\ pc' = "drain"
      /\ UNCHANGED <<module, host, response, refused, lost, failedDueToRegex, verdict>>
      /\ Arrived(module, response)' <=> Arrived(module, response)
  BY DEF CheckJSON, client, Arrived, Closed
<1>5. success => /\ WordsMeet(module, WordsIn(module, response))
                 /\ BodyRules(module) => unread = "none"
  BY <1>1 DEF WordsKnown, WordsMeet, BodyRules
<1>6. CASE success /\ JSONRules(module)
  <2>1. unread = "all" /\ ~BodyRules(module)
    BY <1>1, <1>6 DEF NotBoth, WordsKnown
  <2>2. ReadFails <=> ~Arrived(module, response)
    BY <1>1, <1>2, <1>6, <2>1, ReadingFails
  <2>3. Value = ValueIn(module, response)
    BY <2>1 DEF Value
  <2>4. success' <=> Arrived(module, response) /\ meets
    BY <1>6, <2>2, <2>3 DEF CheckJSON
  <2>6. unread' = IF ReadFails THEN unread ELSE "none"
    BY <1>6 DEF CheckJSON
  <2>7. Reading'
    BY <1>1, <1>4, <2>2, <2>6 DEF Reading
  <2>10. ~success' => ~Judgeable'
    BY <1>3, <1>6, <2>4 DEF Judgeable, BodyMeets, AsksForBody
  <2>11. success' => ValueKnown'
    BY <1>4, <2>2, <2>4, <2>6 DEF ValueKnown
  <2> QED
    BY <1>1, <1>3, <1>4, <1>5, <1>6, <2>1, <2>7, <2>10, <2>11
    DEF Judged, Judging, VerdictIsRight
<1>7. CASE ~(success /\ JSONRules(module))
  <2>1. UNCHANGED <<success, unread>>
    BY <1>7 DEF CheckJSON
  <2>2. Reading'
    BY <1>1, <1>4, <2>1 DEF Reading
  <2>3. success => ValueKnown'
    BY <1>4, <1>7 DEF ValueKnown
  <2> QED
    BY <1>1, <1>3, <1>4, <1>5, <2>1, <2>2, <2>3 DEF Judged, Judging, VerdictIsRight
<1> QED
  BY <1>6, <1>7

\* If the body has not been read yet, reading it now decides; if it has, it had
\* arrived. Of a redirect that is not followed nothing is read without a rule.
LEMMA DrainJudged ==
  ASSUME Judged, Drain
  PROVE  Judged'
<1> DEFINE versions == module.validHTTPVersions # {} =>
                         response.version \in module.validHTTPVersions
<1>1. /\ module \in Modules /\ host \in Hosts /\ Reading
      /\ success => HeadMeets
      /\ ~success => ~Judgeable
      /\ success => WordsMeet(module, WordsIn(module, response)) /\ ValueKnown
      /\ success /\ BodyRules(module) => unread = "none"
  BY DEF Judged, Drain, Judging
<1>2. response \in Site[host].answers
  BY <1>1 DEF Reading
<1>3. /\ pc' = "measure"
      /\ UNCHANGED <<module, host, response, refused, lost, verdict>>
      /\ Arrived(module, response)' <=> Arrived(module, response)
      /\ Judgeable' <=> Judgeable
  BY DEF Drain, Judgeable, BodyMeets, Arrived, Closed
<1>4. success' <=> success /\ (refused \/ ~ReadFails) /\ versions
  BY DEF Drain
<1>6. success => (Judgeable <=> (refused \/ ~ReadFails) /\ versions)
  <2> SUFFICES ASSUME success PROVE Judgeable <=> (refused \/ ~ReadFails) /\ versions
    OBVIOUS
  <2>1. Judgeable <=> ((refused /\ ~AsksForBody(module)) \/ Arrived(module, response)) /\ versions
    <3>1. JSONRules(module) => JSONMeets(module, ValueIn(module, response))
      BY <1>1 DEF ValueKnown
    <3> QED
      BY <1>1, <3>1 DEF Judgeable, BodyMeets, HeadMeets
  <2>2. CASE unread = "all"
    <3>1. ReadFails <=> ~Arrived(module, response)
      BY <1>1, <1>2, <2>2, ReadingFails
    <3>2. refused /\ AsksForBody(module) => Arrived(module, response)
      <4> SUFFICES ASSUME refused, AsksForBody(module) PROVE Arrived(module, response)
        OBVIOUS
      <4>1. ~BodyRules(module) /\ ~JSONRules(module)
        BY <1>1, <2>2 DEF ValueKnown
      <4>2. module.compression = "gzip"
        BY <4>1 DEF AsksForBody
      <4>3. ~Closed(response) /\ response.body.encoding = "gzip"
        BY <1>1, <4>2 DEF HeadMeets
      <4>4. response.body.size = 0 /\ ~lost
        <5>1. response.body.size \in Nat /\ ~(response.body.size > 0)
          BY <1>1, <1>2, <4>3, Sizes DEF Closed
        <5>2. lost => response.body.size > 0
          BY <1>1 DEF Reading
        <5> QED
          BY <5>1, <5>2
      <4> QED
        BY <1>1, <1>2, <4>2, <4>3, <4>4, Sizes DEF Arrived
    <3> QED
      BY <2>1, <3>1, <3>2
  <2>3. CASE unread = "none"
    BY <1>1, <2>1, <2>3 DEF Reading, ReadFails
  <2> QED
    BY <1>1, <2>2, <2>3 DEF Reading
<1> QED
  BY <1>1, <1>2, <1>3, <1>4, <1>6 DEF Judged, Judging, VerdictIsRight

LEMMA MeasureJudged ==
  ASSUME Judged, Measure
  PROVE  Judged'
<1>1. /\ module \in Modules /\ host \in Hosts
      /\ \/ Unanswered
         \/ response \in Site[host].answers /\ (success <=> Judgeable)
  BY DEF Judged, Measure, Judging
<1>2. /\ pc' = "done"
      /\ UNCHANGED <<module, host, response, refused, lost>>
      /\ success' <=> success /\ SSLMeets(module)
      /\ verdict' = IF success' THEN "success" ELSE "failure"
  BY DEF Measure, client, answer
<1>3. VerdictIsRight'
  <2>1. CASE Unanswered
    BY <1>2, <2>1 DEF Unanswered, VerdictIsRight
  <2>2. CASE response \in Site[host].answers /\ (success <=> Judgeable)
    <3>1. Acceptable(module, response)' <=> Judgeable /\ SSLMeets(module)
      BY <1>2 DEF Acceptable, Judgeable, SSLMeets, BodyMeets, Arrived, Closed
    <3>2. response # None
      BY <1>1, <2>2, Sizes
    <3> QED
      BY <1>2, <2>2, <3>1, <3>2 DEF VerdictIsRight
  <2> QED
    BY <1>1, <2>1, <2>2
<1> QED
  BY <1>1, <1>2, <1>3 DEF Judged, Judging

LEMMA NextJudged == NotBoth /\ Judged /\ [Next]_vars => Judged'
<1> SUFFICES ASSUME NotBoth, Judged, [Next]_vars PROVE Judged'
  OBVIOUS
<1>1. CASE Request
  BY <1>1, SetupJudged, SetupFailsJudged, RoundTripJudged, TripFailsJudged, AnsweredJudged
  DEF Request
<1>2. CASE Callback
  <2>1. UNCHANGED <<module, pc, host, response, refused, unread, lost, decoded, success,
                    failedDueToRegex, failedDueToCEL, verdict>>
    BY <1>2
    DEF Callback, DNSStart, DNSDone, ConnectStart, ConnectDone, TLSHandshakeStart,
        TLSHandshakeDone, GotConn, GotFirstResponseByte, DialAgain, StrayConnectStart,
        StrayConnectDone, Own, client, answer, outcome
  <2> QED
    BY <2>1, Untouched
<1>3. CASE Check
  BY <1>3, CheckHeadJudged, CheckBodyJudged, CheckJSONJudged, DrainJudged, MeasureJudged DEF Check
<1>4. CASE BodyLost
  BY <1>4, BodyLostJudged
<1>5. CASE UNCHANGED vars
  BY <1>5, Untouched DEF vars
<1> QED
  BY <1>1, <1>2, <1>3, <1>4, <1>5 DEF Next

-----------------------------------------------------------------------------
(* What a step says of the gauges.                                         *)

LEMMA UntouchedBlamed ==
  ASSUME Blamed,
         UNCHANGED <<module, pc, host, response, refused, unread, lost, decoded, success,
                     failedDueToRegex, failedDueToCEL, verdict>>
  PROVE  Blamed'
BY DEF Blamed, HeadersBlamed, RegexBlamed, CELBlamed, WordsTried, ValueTried, RegexFails,
       CELFails, BodyChecked, Arrived, Closed

\* Until there is an answer nothing is blamed.
LEMMA RequestBlamed ==
  ASSUME Judged, Request
  PROVE  Blamed'
<1>1. Unanswered
  BY DEF Judged, Request, Setup, SetupFails, RoundTrip, TripFails, Answered
<1>2. /\ UNCHANGED <<failedDueToRegex, failedDueToCEL>>
      /\ pc' \in {"send", "trip", "head", "measure", "done"}
      /\ pc' \in {"measure", "done"} => response' = response
  BY DEF Request, Setup, SetupFails, RoundTrip, TripFails, Answered, answer, outcome
<1> QED
  BY <1>1, <1>2 DEF Unanswered, Blamed, RegexBlamed, CELBlamed

\* Where a check was made and nothing was read, losing the rest changes nothing.
LEMMA BodyLostBlamed ==
  ASSUME NotBoth, Judged, Blamed, BodyLost
  PROVE  Blamed'
<1>1. /\ UNCHANGED <<module, pc, response, refused, unread, decoded, success,
                     failedDueToRegex, failedDueToCEL>>
      /\ unread = "all" /\ lost' /\ pc \in {"head", "body", "json", "drain"}
  BY DEF BodyLost, client, outcome
<1>2. module \in Modules /\ (BodyChecked(module, response)' <=> BodyChecked(module, response))
  BY <1>1 DEF BodyChecked, Judged
<1>3. ~Arrived(module, response)'
  BY <1>1 DEF Arrived
<1>4. WordsTried => WordsTried'
  BY <1>1, <1>2 DEF WordsTried
<1>5. ValueTried => ValueTried'
  BY <1>1, <1>2 DEF ValueTried
<1>6. WordsTried /\ RegexBlamed => RegexBlamed'
  BY <1>1, <1>2, <1>3 DEF WordsTried, RegexBlamed, RegexFails
<1>7. ValueTried /\ CELBlamed => CELBlamed'
  <2>1. CASE BodyChecked(module, response) /\ JSONRules(module)
    <3>1. ~RegexFails(module, response)'
      BY <1>1, <1>2, <2>1 DEF NotBoth, RegexFails, BodyChecked
    <3>2. ValueTried => failedDueToCEL' = 1
      BY <1>1, <2>1 DEF ValueTried
    <3>3. CELFails(module, response)'
      BY <1>1, <1>2, <1>3, <2>1, <3>1 DEF CELFails
    <3>4. ValueTried /\ CELBlamed => response # None
      BY <1>1, <3>2 DEF CELBlamed
    <3> QED
      BY <1>1, <3>2, <3>3, <3>4 DEF CELBlamed
  <2>2. CASE ~(BodyChecked(module, response) /\ JSONRules(module))
    BY <1>1, <1>2, <2>2 DEF CELBlamed, CELFails
  <2> QED
    BY <2>1, <2>2
<1> QED
  BY <1>1, <1>2, <1>4, <1>5, <1>6, <1>7 DEF Blamed, HeadersBlamed

LEMMA CheckHeadBlamed ==
  ASSUME Judged, Blamed, CheckHead
  PROVE  Blamed'
<1> DEFINE status == StatusMeets(module, response)
           headers == HeaderRules(module) => HeadersMeet(module, response)
<1>1. failedDueToRegex = 0 /\ failedDueToCEL = 0
  BY DEF Blamed, CheckHead
<1>2. headers <=> HeadersMeet(module, response)
  BY DEF HeaderRules, HeadersMeet
<1>3. UNCHANGED <<module, response, failedDueToCEL>> /\ pc' = "body"
  BY DEF CheckHead
<1>4. /\ failedDueToRegex' \in {0, 1}
      /\ (failedDueToRegex' = 1) = (status /\ ~HeadersMeet(module, response))
  <2>1. ~headers => HeaderRules(module)
    OBVIOUS
  <2>2. failedDueToRegex' = IF status /\ HeaderRules(module) THEN Gauge(headers)
                            ELSE failedDueToRegex
    BY DEF CheckHead
  <2>3. CASE headers
    BY <1>1, <1>2, <2>2, <2>3 DEF Gauge
  <2>4. CASE ~headers
    BY <1>1, <1>2, <2>1, <2>2, <2>4 DEF Gauge
  <2> QED
    BY <2>3, <2>4
<1>5. success' <=> BodyChecked(module, response)'
  <2>1. success' <=> status /\ HeadersMeet(module, response) /\ ~NoDecompressor
    BY <1>2 DEF CheckHead
  <2>2. ~NoDecompressor <=> /\ module.compression # "other"
                            /\ module.compression \in {"gzip", "br"} => decoded'
    BY DEF NoDecompressor, CheckHead
  <2> QED
    BY <1>3, <2>1, <2>2 DEF BodyChecked
<1> QED
  BY <1>1, <1>3, <1>4, <1>5 DEF Blamed, HeadersBlamed

LEMMA CheckBodyBlamed ==
  ASSUME Judged, Blamed, CheckBody
  PROVE  Blamed'
<1> DEFINE meets == WordsMeet(module, WordsIn(module, response))
           made == BodyChecked(module, response)
<1>1. /\ module \in Modules /\ host \in Hosts /\ response \in Site[host].answers
      /\ success => HeadMeets
      /\ unread = "all" /\ failedDueToCEL = 0
      /\ failedDueToRegex \in {0, 1} /\ HeadersBlamed /\ (success <=> made)
  BY DEF Judged, Blamed, CheckBody, Judging, Reading
<1>2. response # None
  BY <1>1, Sizes
<1>3. /\ pc' = "json"
      /\ UNCHANGED <<module, response, failedDueToCEL>>
      /\ made' <=> made
      /\ RegexFails(module, response)' <=> RegexFails(module, response)
  BY DEF CheckBody, RegexFails, BodyChecked, Arrived, Closed
<1>4. CASE success /\ BodyRules(module)
  <2>1. ReadFails <=> ~Arrived(module, response)
    BY <1>1, <1>4, ReadingFails
  <2>2. Text = WordsIn(module, response)
    BY <1>1 DEF Text
  <2>3. /\ success' <=> Arrived(module, response) /\ meets
        /\ failedDueToRegex' = Gauge(~ReadFails /\ meets)
        /\ unread' = IF ReadFails THEN unread ELSE "none"
    BY <1>4, <2>1, <2>2 DEF CheckBody
  <2>4. RegexFails(module, response) <=> ~(Arrived(module, response) /\ meets)
    BY <1>1, <1>4 DEF RegexFails, BodyChecked
  <2>5. /\ failedDueToRegex' \in {0, 1}
        /\ failedDueToRegex' = 1 <=> ~(Arrived(module, response) /\ meets)
    BY <2>1, <2>3 DEF Gauge
  <2>6. RegexBlamed'
    BY <1>2, <1>3, <2>4, <2>5 DEF RegexBlamed
  <2>7. WordsTried'
    BY <2>1, <2>3, <2>5 DEF WordsTried
  <2>8. success' <=> made' /\ failedDueToRegex' = 0
    BY <1>1, <1>3, <1>4, <2>3, <2>5
  <2> QED
    BY <1>1, <1>3, <2>5, <2>6, <2>7, <2>8 DEF Blamed
<1>5. CASE ~(success /\ BodyRules(module))
  <2>1. UNCHANGED <<success, failedDueToRegex, unread>>
    BY <1>5 DEF CheckBody
  <2>2. made => ~BodyRules(module) /\ failedDueToRegex = 0
    BY <1>1, <1>5 DEF HeadersBlamed, BodyChecked
  <2>3. RegexBlamed'
    BY <1>1, <1>2, <1>3, <2>1, <2>2 DEF RegexBlamed, HeadersBlamed, RegexFails
  <2>4. WordsTried'
    BY <1>3, <2>2 DEF WordsTried
  <2>5. success' <=> made' /\ failedDueToRegex' = 0
    BY <1>1, <1>3, <2>1, <2>2
  <2> QED
    BY <1>1, <1>3, <2>1, <2>3, <2>4, <2>5 DEF Blamed
<1> QED
  BY <1>4, <1>5

LEMMA CheckJSONBlamed ==
  ASSUME NotBoth, Judged, Blamed, CheckJSON
  PROVE  Blamed'
<1> DEFINE meets == JSONMeets(module, ValueIn(module, response))
           made == BodyChecked(module, response)
<1>1. /\ module \in Modules /\ host \in Hosts /\ response \in Site[host].answers
      /\ success => HeadMeets /\ WordsKnown
      /\ failedDueToCEL = 0 /\ failedDueToRegex \in {0, 1} /\ RegexBlamed /\ WordsTried
      /\ success <=> made /\ failedDueToRegex = 0
  BY DEF Judged, Blamed, CheckJSON, Judging, Reading
<1>2. response # None
  BY <1>1, Sizes
<1>3. /\ pc' = "drain"
      /\ UNCHANGED <<module, response, failedDueToRegex>>
      /\ made' <=> made
      /\ RegexFails(module, response)' <=> RegexFails(module, response)
      /\ CELFails(module, response)' <=> CELFails(module, response)
  BY DEF CheckJSON, CELFails, RegexFails, BodyChecked, Arrived, Closed
<1>4. RegexBlamed'
  BY <1>1, <1>3 DEF RegexBlamed
<1>5. WordsTried'
  <2>1. unread' \in {unread, "none"}
    BY DEF CheckJSON
  <2> QED
    BY <1>1, <1>3, <2>1 DEF WordsTried
<1>6. CASE success /\ JSONRules(module)
  <2>1. unread = "all"
    BY <1>1, <1>6 DEF NotBoth, WordsKnown
  <2>2. ReadFails <=> ~Arrived(module, response)
    BY <1>1, <1>6, <2>1, ReadingFails
  <2>3. Value = ValueIn(module, response)
    BY <2>1 DEF Value
  <2>4. failedDueToCEL' = Gauge(~ReadFails /\ meets)
    BY <1>6, <2>3 DEF CheckJSON
  <2>5. unread' = IF ReadFails THEN unread ELSE "none"
    BY <1>6 DEF CheckJSON
  <2>6. CELFails(module, response) <=> ~(Arrived(module, response) /\ meets)
    BY <1>1, <1>2, <1>6 DEF CELFails, RegexBlamed
  <2>7. /\ failedDueToCEL' \in {0, 1}
        /\ failedDueToCEL' = 1 <=> ~(Arrived(module, response) /\ meets)
    BY <2>2, <2>4 DEF Gauge
  <2>8. CELBlamed'
    BY <1>2, <1>3, <2>6, <2>7 DEF CELBlamed
  <2>9. ValueTried'
    BY <2>2, <2>5, <2>7 DEF ValueTried
  <2> QED
    BY <1>1, <1>3, <1>4, <1>5, <2>7, <2>8, <2>9 DEF Blamed
<1>7. CASE ~(success /\ JSONRules(module))
  <2>1. UNCHANGED <<success, failedDueToCEL, unread>>
    BY <1>7 DEF CheckJSON
  <2>2. ~(made /\ JSONRules(module))
    <3> SUFFICES ASSUME made, JSONRules(module) PROVE FALSE
      OBVIOUS
    <3>1. ~BodyRules(module)
      BY <1>1 DEF NotBoth
    <3>2. ~RegexFails(module, response)
      BY <3>1 DEF RegexFails, BodyChecked
    <3> QED
      BY <1>1, <1>7, <3>2 DEF RegexBlamed
  <2>3. CELBlamed' /\ ValueTried'
    BY <1>1, <1>3, <2>1, <2>2 DEF CELBlamed, ValueTried, CELFails
  <2> QED
    BY <1>1, <1>3, <1>4, <1>5, <2>1, <2>3 DEF Blamed
<1> QED
  BY <1>6, <1>7

\* What is read and judged afterwards is blamed on neither.
LEMMA EndBlamed ==
  ASSUME Judged, Blamed, Drain \/ Measure
  PROVE  Blamed'
<1>1. pc \in {"drain", "measure"} /\ pc' \in {"measure", "done"}
  BY DEF Drain, Measure
<1>2. UNCHANGED <<module, response, refused, lost, decoded, failedDueToRegex, failedDueToCEL>>
  BY DEF Drain, Measure, client, answer
<1> QED
  BY <1>1, <1>2
  DEF Blamed, RegexBlamed, CELBlamed, RegexFails, CELFails, BodyChecked, Arrived, Closed

LEMMA NextBlamed == NotBoth /\ Judged /\ Blamed /\ [Next]_vars => Blamed'
<1> SUFFICES ASSUME NotBoth, Judged, Blamed, [Next]_vars PROVE Blamed'
  OBVIOUS
<1>1. CASE Request
  BY <1>1, RequestBlamed
<1>2. CASE Callback \/ UNCHANGED vars
  <2>1. UNCHANGED <<module, pc, host, response, refused, unread, lost, decoded, success,
                    failedDueToRegex, failedDueToCEL, verdict>>
    BY <1>2
    DEF Callback, DNSStart, DNSDone, ConnectStart, ConnectDone, TLSHandshakeStart,
        TLSHandshakeDone, GotConn, GotFirstResponseByte, DialAgain, StrayConnectStart,
        StrayConnectDone, Own, client, answer, outcome, vars
  <2> QED
    BY <2>1, UntouchedBlamed
<1>3. CASE Check
  BY <1>3, CheckHeadBlamed, CheckBodyBlamed, CheckJSONBlamed, EndBlamed DEF Check
<1>4. CASE BodyLost
  BY <1>4, BodyLostBlamed
<1> QED
  BY <1>1, <1>2, <1>3, <1>4 DEF Next

-----------------------------------------------------------------------------
\* A probe succeeds exactly if its last answer came and meets every rule of the
\* module (http.go:557-763), and the gauges blame the regular expressions, or
\* CEL, exactly if that check was made and failed (http.go:574-657), whatever
\* the answers are and whenever a connection breaks, as long as no module has
\* rules of both kinds for the body. With one that has, MCHttpProbeBody.cfg
\* shows the contrary.
THEOREM AnswerIsJudged == ASSUME NotBoth PROVE Spec => []AnswerJudged
<1>1. Init => Judged /\ Blamed
  <2>1. Init => Blamed
    BY DEF Init, Blamed
  <2> QED
    BY <2>1, InitJudged
<1>2. Judged /\ Blamed /\ [Next]_vars => Judged' /\ Blamed'
  BY NextJudged, NextBlamed
<1>3. Judged /\ Blamed => AnswerJudged
  BY DEF Judged, Blamed, VerdictIsRight, RegexBlamed, CELBlamed, AnswerJudged
<1> QED
  BY <1>1, <1>2, <1>3, PTL DEF Spec

-----------------------------------------------------------------------------
(* Types.                                                                  *)

TraceOf(T) == [tls : BOOLEAN, start : T, dnsDone : T, connectDone : T, tlsStart : T,
               tlsDone : T, gotConn : T, responseStart : T, end : T]

Trace == TraceOf(Time)

Events == {"start", "dnsDone", "connectDone", "tlsStart", "tlsDone", "gotConn", "responseStart",
           "end"}

Trip == [host : Hosts, begun : Time, ended : Time, named : BOOLEAN]

\* TypeOK with what keeps it: there is no answer before the last request, a
\* request is sent only if there may be one more, and has a trace then.
Typed ==
  /\ TypeOK
  /\ pc \in {"start", "send", "trip"} => response = None
  /\ pc = "start" => Len(traces) = 0
  /\ pc \notin {"start", "send", "done"} => Len(traces) > 0
  /\ pc = "send" => Len(traces) <= MaxRedirects

\* The clock advances, and what was a time remains one.
LEMMA TimeGoesOn ==
  ASSUME TypeOK, now' \in {now, now + 1}
  PROVE  /\ now' \in Nat \ {0}
         /\ now \in Time /\ now \in Time'
         /\ traces \in Seq(Trace') /\ trips \in Seq(Trip')
         /\ traces \in Seq(Trace) /\ trips \in Seq(Trip)
         /\ Len(traces) \in Nat /\ Len(trips) \in Nat
         /\ DOMAIN traces = 1 .. Len(traces) /\ DOMAIN trips = 1 .. Len(trips)
<1>1. now \in Nat \ {0} /\ traces \in Seq(Trace) /\ trips \in Seq(Trip)
  BY DEF TypeOK, Trace, TraceOf, Trip
<1>2. Time \subseteq Time' /\ now \in Time /\ now' \in Nat \ {0}
  BY <1>1 DEF Time
<1>3. Trace \subseteq Trace' /\ Trip \subseteq Trip'
  BY <1>2 DEF Trace, TraceOf, Trip
<1> HIDE DEF Trace, Trip
<1>4. Len(traces) \in Nat /\ DOMAIN traces = 1 .. Len(traces)
      /\ Len(trips) \in Nat /\ DOMAIN trips = 1 .. Len(trips)
  BY <1>1
<1>5. traces \in Seq(Trace') /\ trips \in Seq(Trip')
  BY <1>1, <1>3
<1> QED
  BY <1>1, <1>2, <1>4, <1>5

Stamped(S, k, event, t) == [S EXCEPT ![k][event] = t]

\* Stamping an event of a trace gives traces again, as many as before.
LEMMA StampTypes ==
  ASSUME NEW T, NEW S \in Seq(TraceOf(T)), NEW k, NEW t \in T, NEW event \in Events
  PROVE  /\ Stamped(S, k, event, t) \in Seq(TraceOf(T))
         /\ Len(Stamped(S, k, event, t)) = Len(S)
<1> DEFINE R == TraceOf(T)
<1>1. \A r \in R : [r EXCEPT ![event] = t] \in R
  BY DEF TraceOf, Events
<1> HIDE DEF R
<1>2. S \in Seq(R)
  BY DEF R
<1> DEFINE U == [S EXCEPT ![k] = [S[k] EXCEPT ![event] = t]]
<1>3. Len(S) \in Nat /\ S \in [1 .. Len(S) -> R]
  BY <1>2
<1>4. DOMAIN U = 1 .. Len(S)
  BY <1>3
<1>5. ASSUME NEW j \in 1 .. Len(S) PROVE U[j] \in R
  BY <1>1, <1>3
<1>6. U \in [1 .. Len(S) -> R]
  BY <1>3, <1>4, <1>5
<1>7. U \in Seq(R) /\ Len(U) = Len(S)
  BY <1>3, <1>6
<1> QED
  BY <1>7 DEF Stamped, R

Stages == {"none", "name", "lookup", "dial", "connect", "tls", "handshake", "connected",
           "sent", "answered"}

\* A step that stamps at most a trace: the callbacks, and those of the dial
\* that lost.
LEMMA CallbackTypes ==
  ASSUME Typed, now' \in {now, now + 1}, stage' \in Stages,
         stray' \in {"none", "launched", "connecting", "over"}, seen' \in Nat \ {0},
         traces' \in Seq(Trace'), Len(traces') = Len(traces),
         UNCHANGED <<module, pc, client, answer, outcome>>
  PROVE  Typed'
<1>1. /\ now' \in Nat \ {0} /\ trips \in Seq(Trip')
  BY TimeGoesOn DEF Typed
<1>2. UNCHANGED <<module, pc, host, trips, redirects, response, refused, unread, lost, decoded,
                  success, failedDueToRegex, failedDueToCEL, measured, verdict>>
  BY DEF client, answer, outcome
<1>3. TypeOK'
  BY <1>1, <1>2 DEF Typed, TypeOK, Trace, TraceOf, Trip, Stages
<1> QED
  BY <1>2, <1>3 DEF Typed

LEMMA StampedTypes ==
  ASSUME Typed, now' = now + 1, NEW S \in Seq(Trace'), NEW k, NEW event \in Events
  PROVE  /\ Stamped(S, k, event, now) \in Seq(Trace')
         /\ Len(Stamped(S, k, event, now)) = Len(S)
<1> DEFINE T == Time'
<1>1. S \in Seq(TraceOf(T)) /\ now \in T
  BY TimeGoesOn DEF Typed, Trace
<1> HIDE DEF T
<1>2. Stamped(S, k, event, now) \in Seq(TraceOf(T)) /\ Len(Stamped(S, k, event, now)) = Len(S)
  BY <1>1, StampTypes
<1> QED
  BY <1>2 DEF Trace, T

LEMMA BeginConnectTypes ==
  ASSUME Typed, now' = now + 1, NEW k, BeginConnect(k)
  PROVE  traces' \in Seq(Trace') /\ Len(traces') = Len(traces)
<1>1. traces \in Seq(Trace') /\ "start" \in Events /\ "dnsDone" \in Events
  BY TimeGoesOn DEF Typed, Events
<1>2. CASE traces[k].dnsDone = 0
  <2> DEFINE first == Stamped(traces, k, "start", now)
  <2>1. first \in Seq(Trace') /\ Len(first) = Len(traces)
    BY <1>1, StampedTypes
  <2>2. traces' = Stamped(first, k, "dnsDone", now)
    BY <1>2 DEF BeginConnect, Stamped
  <2> HIDE DEF first
  <2>3. Stamped(first, k, "dnsDone", now) \in Seq(Trace')
        /\ Len(Stamped(first, k, "dnsDone", now)) = Len(first)
    BY <1>1, <2>1, StampedTypes
  <2> QED
    BY <2>1, <2>2, <2>3
<1>3. CASE traces[k].dnsDone # 0
  BY <1>1, <1>3 DEF BeginConnect
<1> QED
  BY <1>2, <1>3

LEMMA StampTyped ==
  ASSUME Typed, now' = now + 1, NEW k, NEW event \in Events, Stamp(k, event)
  PROVE  traces' \in Seq(Trace') /\ Len(traces') = Len(traces)
<1>1. traces \in Seq(Trace')
  BY TimeGoesOn DEF Typed
<1>2. traces' = Stamped(traces, k, event, now)
  BY DEF Stamp, Stamped
<1> QED
  BY <1>1, <1>2, StampedTypes

\* The callback of a request that is being made: it leaves the trace as it is,
\* or stamps one of its events.
LEMMA OwnTyped ==
  ASSUME Typed, NEW from, NEW to \in Stages, NEW running, Own(from, to, running),
         running \subseteq Running, traces' \in Seq(Trace'), Len(traces') = Len(traces)
  PROVE  Typed'
<1>1. /\ now \in Nat /\ Len(traces) \in Nat
      /\ stray \in {"none", "launched", "connecting", "over"}
  BY TimeGoesOn DEF Typed, TypeOK, Own
<1>2. Len(traces) > 0
  BY DEF Own, Typed, Running
<1> QED
  BY <1>1, <1>2, CallbackTypes DEF Own, Last

LEMMA OwnStamped ==
  ASSUME Typed, NEW from, NEW to \in Stages, NEW running, Own(from, to, running),
         running \subseteq Running, NEW event \in Events, NEW k, Stamp(k, event)
  PROVE  Typed'
<1>1. now' = now + 1
  BY DEF Own
<1>2. traces' \in Seq(Trace') /\ Len(traces') = Len(traces)
  BY <1>1, StampTyped
<1> QED
  BY <1>2, OwnTyped

LEMMA CallbacksTyped ==
  ASSUME Typed, Callback
  PROVE  Typed'
<1>1. /\ now \in Nat /\ seen \in Nat \ {0} /\ stage \in Stages
      /\ stray \in {"none", "launched", "connecting", "over"}
  BY DEF Typed, TypeOK, Stages
<1>2. {"trip"} \subseteq Running
  BY DEF Running
<1>3. PICK last : last = Last
  OBVIOUS
<1>4. CASE DNSStart
  BY <1>3, <1>4, OwnStamped DEF DNSStart, Stages, Events
<1>5. CASE DNSDone
  BY <1>3, <1>5, OwnStamped DEF DNSDone, Stages, Events
<1>6. CASE ConnectStart
  <2>1. now' = now + 1 /\ BeginConnect(last)
    BY <1>3, <1>6 DEF ConnectStart, Own
  <2>2. traces' \in Seq(Trace') /\ Len(traces') = Len(traces)
    BY <2>1, BeginConnectTypes
  <2> QED
    BY <1>6, <2>2, OwnTyped DEF ConnectStart, Stages
<1>7. CASE ConnectDone
  BY <1>3, <1>7, OwnStamped DEF ConnectDone, Stages, Events
<1>8. CASE TLSHandshakeStart
  BY <1>3, <1>8, OwnStamped DEF TLSHandshakeStart, Stages, Events
<1>9. CASE TLSHandshakeDone
  BY <1>3, <1>9, OwnStamped DEF TLSHandshakeDone, Stages, Events
<1>10. CASE GotConn
  BY <1>2, <1>3, <1>10, OwnStamped DEF GotConn, Stages, Events
<1>11. CASE GotFirstResponseByte
  BY <1>2, <1>3, <1>11, OwnStamped DEF GotFirstResponseByte, Stages, Events
<1>12. CASE DialAgain
  <2>1. traces \in Seq(Trace')
    BY <1>12, TimeGoesOn DEF Typed, DialAgain
  <2> QED
    BY <1>1, <1>12, <2>1, CallbackTypes DEF DialAgain
<1>13. CASE StrayConnectStart
  <2>1. PICK k \in seen .. Last : BeginConnect(k)
    BY <1>13 DEF StrayConnectStart
  <2>2. traces' \in Seq(Trace') /\ Len(traces') = Len(traces)
    BY <1>13, <2>1, BeginConnectTypes DEF StrayConnectStart
  <2> QED
    BY <1>1, <1>13, <2>2, CallbackTypes DEF StrayConnectStart
<1>14. CASE StrayConnectDone
  <2>1. PICK k \in seen .. Last : Stamp(k, "connectDone")
    BY <1>14 DEF StrayConnectDone
  <2>2. traces' \in Seq(Trace') /\ Len(traces') = Len(traces)
    BY <1>14, <2>1, StampTyped DEF StrayConnectDone, Events
  <2> QED
    BY <1>1, <1>14, <2>2, CallbackTypes DEF StrayConnectDone
<1> QED
  BY <1>4, <1>5, <1>6, <1>7, <1>8, <1>9, <1>10, <1>11, <1>12, <1>13, <1>14 DEF Callback

LEMMA InitTyped == Init => Typed
<1> SUFFICES ASSUME Init PROVE Typed
  OBVIOUS
<1>1. host \in Hosts
  BY HttpAssumption DEF Init
<1>2. traces = <<>> /\ trips = <<>> /\ Len(traces) = 0 /\ Len(trips) = 0
      /\ traces \in Seq(Trace) /\ trips \in Seq(Trip)
  BY DEF Init
<1>3. (verdict = "none") = (pc # "done") /\ 0 \in 0 .. Len(traces)
  BY <1>2 DEF Init
<1>4. TypeOK
  <2>1. /\ module \in Modules
        /\ now \in Nat \ {0} /\ seen \in Nat \ {0} /\ redirects \in 0 .. Len(traces)
    BY <1>2, HttpAssumption DEF Init
  <2>2. Len(traces) <= MaxRedirects + 1
    BY <1>2, HttpAssumption
  <2>3. refused \in BOOLEAN /\ lost \in BOOLEAN /\ decoded \in BOOLEAN /\ success \in BOOLEAN
    BY DEF Init
  <2>4. verdict \in {"none", "success", "failure"} /\ unread \in {"all", "none"}
    BY DEF Init
  <2> QED
    BY <1>1, <1>2, <1>3, <2>1, <2>2, <2>3, <2>4 DEF Init, TypeOK, Trace, TraceOf, Trip
<1> QED
  BY <1>2, <1>4 DEF Init, Typed

\* Ending a trip gives trips again.
LEMMA TripEndTypes ==
  ASSUME Typed, now' = now + 1, NEW k, trips' = [trips EXCEPT ![k].ended = now]
  PROVE  trips' \in Seq(Trip') /\ Len(trips') = Len(trips)
<1>1. trips \in Seq(Trip') /\ now \in Time' /\ Len(trips) \in Nat
  BY TimeGoesOn DEF Typed
<1>2. \A t \in Trip' : [t EXCEPT !.ended = now] \in Trip'
  BY <1>1 DEF Trip
<1>3. trips \in [1 .. Len(trips) -> Trip']
  BY <1>1
<1>4. DOMAIN trips' = 1 .. Len(trips)
  BY <1>3
<1>5. ASSUME NEW j \in 1 .. Len(trips) PROVE trips'[j] \in Trip'
  <2>1. trips'[j] = IF j = k THEN [trips[j] EXCEPT !.ended = now] ELSE trips[j]
    BY <1>3
  <2> QED
    BY <1>2, <1>3, <2>1
<1>6. trips' \in [1 .. Len(trips) -> Trip']
  BY <1>3, <1>4, <1>5
<1> QED
  BY <1>1, <1>6

\* A request is sent: one more trace, one more trip.
LEMMA RoundTripTyped ==
  ASSUME Typed, RoundTrip
  PROVE  Typed'
<1>1. /\ now' = now + 1 /\ now' \in Nat \ {0} /\ now \in Time /\ now \in Time'
      /\ traces \in Seq(Trace') /\ trips \in Seq(Trip') /\ Len(traces) \in Nat
      /\ Len(trips) = Len(traces)
  BY TimeGoesOn DEF Typed, TypeOK, RoundTrip
<1>2. 0 \in Time'
  BY <1>1 DEF Time
<1>3. host \in Hosts /\ Site[host].https \in BOOLEAN
  BY HttpAssumption DEF Typed, TypeOK
<1>4. NewTrace(Site[host].https) \in Trace'
  BY <1>2, <1>3 DEF NewTrace, Trace, TraceOf
<1>5. [host |-> host, begun |-> now, ended |-> 0, named |-> Named] \in Trip'
  <2>1. Named \in BOOLEAN
    BY Zenon DEF Named
  <2> QED
    BY <1>1, <1>2, <1>3, <2>1 DEF Trip
<1> HIDE DEF Trace, Trip
<1>6. /\ traces' \in Seq(Trace') /\ Len(traces') = Len(traces) + 1
  BY <1>1, <1>4 DEF RoundTrip
<1>7. /\ trips' \in Seq(Trip') /\ Len(trips') = Len(trips) + 1
  BY <1>1, <1>5 DEF RoundTrip
<1>8. redirects' \in 0 .. Len(traces') /\ Len(traces') <= MaxRedirects + 1
  BY <1>1, <1>6, HttpAssumption DEF RoundTrip, Typed, TypeOK
<1>9. stray' \in {"none", "launched", "connecting", "over"} /\ stage' \in Stages
  BY DEF RoundTrip, Typed, TypeOK, Stages
<1>10. response' = None
  BY DEF RoundTrip, Typed, answer
<1>11. UNCHANGED <<module, host, redirects, seen, response, refused, unread, lost, decoded,
                   success, failedDueToRegex, failedDueToCEL, measured, verdict>>
       /\ pc = "send" /\ pc' = "trip"
  BY DEF RoundTrip, answer, outcome
<1>12. TypeOK'
  BY <1>1, <1>6, <1>7, <1>8, <1>9, <1>11 DEF Typed, TypeOK, Trace, TraceOf, Trip, Stages
<1> QED
  BY <1>1, <1>6, <1>10, <1>11, <1>12 DEF Typed

LEMMA RequestsTyped ==
  ASSUME Typed, Request
  PROVE  Typed'
<1>1. /\ now \in Nat /\ seen \in Nat \ {0} /\ stage \in Stages
      /\ stray \in {"none", "launched", "connecting", "over"}
      /\ traces \in Seq(Trace) /\ trips \in Seq(Trip) /\ Len(traces) \in Nat
      /\ Len(traces) = Len(trips)
  BY DEF Typed, TypeOK, Stages, Trace, TraceOf, Trip
<1>2. CASE Setup
  BY <1>1, <1>2, HttpAssumption DEF Setup, Typed, TypeOK, Time, client, tracing, answer, outcome
<1>3. CASE SetupFails
  BY <1>1, <1>3 DEF SetupFails, Typed, TypeOK, Time, client, tracing, answer
<1>4. CASE RoundTrip
  BY <1>4, RoundTripTyped
<1>5. CASE TripFails
  <2>1. trips' \in Seq(Trip') /\ Len(trips') = Len(trips)
    BY <1>5, TripEndTypes DEF TripFails
  <2>2. now' \in Nat \ {0} /\ traces \in Seq(Trace')
    BY <1>5, TimeGoesOn DEF Typed, TripFails
  <2> QED
    BY <1>1, <1>5, <2>1, <2>2
    DEF TripFails, Typed, TypeOK, Trace, TraceOf, Trip, tracing, answer, outcome
<1>6. ASSUME NEW r \in Site[host].answers, Answered(r) PROVE Typed'
  <2>1. trips' \in Seq(Trip') /\ Len(trips') = Len(trips)
    BY <1>6, TripEndTypes DEF Answered
  <2>2. now' \in Nat \ {0} /\ traces \in Seq(Trace')
    BY <1>6, TimeGoesOn DEF Typed, Answered
  <2>3. host \in Hosts /\ r \in Response
    BY HttpAssumption DEF Typed, TypeOK
  <2>4. redirects' \in 0 .. Len(traces) /\ Len(traces) > 0
    BY <1>1, <1>6 DEF Answered, Typed, TypeOK, Last
  <2>5. CASE r.location # None /\ Follows(Last)
    <3>1. r.location \in Hosts
      BY <2>3, <2>5 DEF Response
    <3>2. Len(traces) <= MaxRedirects
      BY <2>5 DEF Follows, Last
    <3> QED
      BY <1>1, <1>6, <2>1, <2>2, <2>4, <2>5, <3>1, <3>2
      DEF Answered, Typed, TypeOK, Trace, TraceOf, Trip, tracing, outcome
  <2>6. CASE ~(r.location # None /\ Follows(Last))
    <3>1. refused' \in BOOLEAN
      BY <1>6, <2>6 DEF Answered
    <3> QED
      BY <1>1, <1>6, <2>1, <2>2, <2>3, <2>4, <2>6, <3>1
      DEF Answered, Typed, TypeOK, Trace, TraceOf, Trip, tracing, outcome
  <2> QED
    BY <2>5, <2>6
<1> QED
  BY <1>2, <1>3, <1>4, <1>5, <1>6 DEF Request

LEMMA Gauges ==
  ASSUME Typed, NEW ok
  PROVE  Gauge(ok) \in {0, 1} /\ failedDueToRegex \in {0, 1}
BY DEF Gauge, Typed, TypeOK

LEMMA ChecksTyped ==
  ASSUME Typed, Check
  PROVE  Typed'
<1>1. /\ now \in Nat /\ traces \in Seq(Trace) /\ trips \in Seq(Trip) /\ Len(traces) \in Nat
      /\ stage \in Stages
  BY DEF Typed, TypeOK, Trace, TraceOf, Trip, Stages
<1>2. CASE CheckHead
  <2>1. success' \in BOOLEAN /\ decoded' \in BOOLEAN
    BY <1>2, Zenon DEF CheckHead
  <2>2. failedDueToRegex' \in {0, 1}
    BY <1>2, Gauges DEF CheckHead
  <2> QED
    BY <1>2, <2>1, <2>2 DEF CheckHead, Typed, TypeOK, Time, client, tracing
<1>3. CASE CheckBody
  <2>1. success' \in BOOLEAN
    BY <1>3, Zenon DEF CheckBody, Typed, TypeOK
  <2>2. failedDueToRegex' \in {0, 1} /\ unread' \in {"all", "none"}
    BY <1>3, Gauges DEF CheckBody, Typed, TypeOK
  <2> QED
    BY <1>3, <2>1, <2>2 DEF CheckBody, Typed, TypeOK, Time, client, tracing
<1>4. CASE CheckJSON
  <2>1. success' \in BOOLEAN
    BY <1>4, Zenon DEF CheckJSON, Typed, TypeOK
  <2>2. failedDueToCEL' \in {0, 1} /\ unread' \in {"all", "none"}
    BY <1>4, Gauges DEF CheckJSON, Typed, TypeOK
  <2> QED
    BY <1>4, <2>1, <2>2 DEF CheckJSON, Typed, TypeOK, Time, client, tracing
<1>5. CASE Drain
  <2>1. success' \in BOOLEAN
    BY <1>5, Zenon DEF Drain
  <2>2. trips' \in Seq(Trip') /\ Len(trips') = Len(trips)
    BY <1>5, TripEndTypes DEF Drain
  <2>3. now' \in Nat \ {0} /\ traces \in Seq(Trace') /\ "end" \in Events
    BY <1>5, TimeGoesOn DEF Typed, Drain, Events
  <2>4. traces' \in Seq(Trace') /\ Len(traces') = Len(traces)
    <3>1. PICK last : last = Last
      OBVIOUS
    <3>2. traces' = Stamped(traces, last, "end", now)
      BY <1>5, <3>1 DEF Drain, Stamped
    <3>3. now' = now + 1
      BY <1>5 DEF Drain
    <3> QED
      BY <2>3, <3>2, <3>3, StampedTypes
  <2> QED
    BY <1>5, <2>1, <2>2, <2>3, <2>4 DEF Drain, Typed, TypeOK, Trace, TraceOf, Trip
<1>6. CASE Measure
  <2>1. success' \in BOOLEAN
    BY <1>6, Zenon DEF Measure
  <2>2. verdict' \in {"success", "failure"}
    BY <1>6 DEF Measure
  <2> QED
    BY <1>6, <2>1, <2>2 DEF Measure, Typed, TypeOK, Time, client, tracing, answer
<1> QED
  BY <1>2, <1>3, <1>4, <1>5, <1>6 DEF Check

LEMMA NextTyped == Typed /\ [Next]_vars => Typed'
<1> SUFFICES ASSUME Typed, [Next]_vars PROVE Typed'
  OBVIOUS
<1>1. CASE BodyLost
  BY <1>1 DEF BodyLost, Typed, TypeOK, Time, client, tracing, outcome
<1>2. CASE UNCHANGED vars
  BY <1>2 DEF vars, Typed, TypeOK, Time
<1> QED
  BY <1>1, <1>2, RequestsTyped, CallbacksTyped, ChecksTyped DEF Next

\* The variables have their types; there is a trace for every request, and
\* never more than MaxRedirects + 1 (CheckRedirect, http.go:481-488).
THEOREM TypeCorrect == Spec => []TypeOK
<1>1. Init => Typed
  BY InitTyped
<1>2. Typed /\ [Next]_vars => Typed'
  BY NextTyped
<1>3. Typed => TypeOK
  BY DEF Typed
<1> QED
  BY <1>1, <1>2, <1>3, PTL DEF Spec

-----------------------------------------------------------------------------
(* The clock and the phases.                                               *)

InLookup(k) == k = Last /\ stage = "lookup"

\* The stamps of a trace, those that are there, are in the order of the phases.
\* A lookup that runs may follow the connection of a losing dial.
Chained(k) ==
  LET t == traces[k] IN
  /\ t.start = 0 => t.dnsDone = 0
  /\ t.start # 0 => trips[k].begun <= t.start
  /\ IF InLookup(k) THEN t.start # 0 ELSE t.start <= t.dnsDone
  /\ t.gotConn # 0 =>
       /\ t.dnsDone # 0 /\ t.dnsDone <= t.gotConn
       /\ t.tls => /\ t.dnsDone <= t.connectDone /\ t.dnsDone <= t.tlsStart
                   /\ t.tlsStart <= t.tlsDone /\ t.tlsDone <= t.gotConn
  /\ t.responseStart # 0 => t.gotConn # 0 /\ t.gotConn <= t.responseStart
  /\ t.end # 0 => t.responseStart # 0 /\ t.responseStart <= t.end

\* What counts of a trace lies before the end of its request.
Ended(k) ==
  LET t == traces[k] IN
  /\ t.start < t.dnsDone => t.dnsDone <= trips[k].ended
  /\ t.gotConn <= trips[k].ended /\ t.end <= trips[k].ended

\* An answer that was not given up began before the end of its request.
AnswerIn(k) == traces[k].responseStart # 0 /\ traces[k].responseStart <= trips[k].ended

LastIn == response # None => AnswerIn(Last) /\ stage = "answered"

\* How far the trace of the current request is.
Current ==
  LET t == traces[Last] IN
  /\ t.tls = Site[host].https
  /\ stage \in {"name", "lookup", "dial", "connect", "tls", "handshake", "connected"} =>
       t.gotConn = 0
  /\ stage # "answered" => t.responseStart = 0
  /\ stage \in {"connect", "tls", "handshake", "connected"} => t.dnsDone # 0
  /\ t.tls /\ stage \in {"tls", "handshake", "connected"} => t.dnsDone <= t.connectDone
  /\ t.tls /\ stage \in {"handshake", "connected"} => t.dnsDone <= t.tlsStart
  /\ t.tls /\ stage = "connected" => t.tlsStart <= t.tlsDone
  /\ stage = "sent" => t.gotConn # 0
  /\ stage = "answered" => t.responseStart # 0
  /\ stage # "none"

Timing ==
  /\ pc # "done" => measured = {}
  /\ \A k \in 1 .. Last : Chained(k)
  /\ \A k \in 1 .. Last : k < Last \/ pc = "send" => Ended(k) /\ AnswerIn(k)
  /\ pc = "measure" => Ended(Last) /\ LastIn /\ stage \notin {"name", "lookup"}
  /\ pc \in {"head", "body", "json", "drain"} => stage = "answered"
  /\ pc \in {"start", "send"} => stage \in {"none", "answered"}
  /\ pc \notin {"start", "send", "done"} => Current

LEMMA TraceFields ==
  ASSUME Typed
  PROVE  /\ Last \in Nat /\ Last = Len(trips) /\ now \in Nat /\ now # 0
         /\ traces \in Seq(Trace) /\ trips \in Seq(Trip)
         /\ \A k \in 1 .. Last : traces[k] \in Trace /\ trips[k] \in Trip
<1>1. /\ now \in Nat \ {0} /\ traces \in Seq(Trace) /\ trips \in Seq(Trip)
      /\ Len(traces) = Len(trips)
  BY DEF Typed, TypeOK, Trace, TraceOf, Trip
<1> HIDE DEF Trace, Trip
<1> QED
  BY <1>1 DEF Last

\* A stamp changes one event of one trace.
LEMMA StampFields ==
  ASSUME Typed, NEW k \in 1 .. Last, NEW event \in Events, Stamp(k, event)
  PROVE  /\ Last' = Last
         /\ traces'[k] = [traces[k] EXCEPT ![event] = now]
         /\ \A j \in 1 .. Last : j # k => traces'[j] = traces[j]
<1>1. /\ Last \in Nat /\ traces \in Seq(Trace) /\ Last = Len(traces)
  BY TraceFields DEF Last
<1> HIDE DEF Last
<1>2. traces \in [1 .. Last -> Trace] /\ DOMAIN traces = 1 .. Last
  BY <1>1
<1>3. traces' = [traces EXCEPT ![k] = [traces[k] EXCEPT ![event] = now]]
  BY DEF Stamp
<1>4. DOMAIN traces' = 1 .. Last
  BY <1>2, <1>3
<1>5. Len(traces') = Last
  BY <1>1, <1>4, <1>3
<1> QED
  BY <1>2, <1>3, <1>5 DEF Last

LEMMA BeginConnectFields ==
  ASSUME Typed, NEW k \in 1 .. Last, BeginConnect(k)
  PROVE  /\ Last' = Last
         /\ traces'[k] = IF traces[k].dnsDone = 0
                         THEN [traces[k] EXCEPT !.start = now, !.dnsDone = now]
                         ELSE traces[k]
         /\ \A j \in 1 .. Last : j # k => traces'[j] = traces[j]
<1>1. /\ Last \in Nat /\ traces \in Seq(Trace) /\ Last = Len(traces)
  BY TraceFields DEF Last
<1>2. CASE traces[k].dnsDone # 0
  BY <1>2 DEF BeginConnect, Last
<1>3. CASE traces[k].dnsDone = 0
  <2> HIDE DEF Last
  <2>1. traces \in [1 .. Last -> Trace] /\ DOMAIN traces = 1 .. Last
    BY <1>1
  <2>2. traces' = [traces EXCEPT ![k] = [traces[k] EXCEPT !.start = now, !.dnsDone = now]]
    BY <2>1, <1>3 DEF BeginConnect
  <2>3. DOMAIN traces' = 1 .. Last
    BY <2>1, <2>2
  <2>4. Len(traces') = Last
    BY <1>1, <2>3, <2>2
  <2> QED
    BY <1>3, <2>1, <2>2, <2>4 DEF Last
<1> QED
  BY <1>2, <1>3

\* A step that changes one trace only.
LEMMA OneTrace ==
  ASSUME Typed, Timing, NEW K \in 1 .. Last,
         UNCHANGED <<pc, trips, host, measured>>, Last' = Last,
         \A j \in 1 .. Last : j # K => traces'[j] = traces[j],
         K = Last \/ stage' = stage,
         Chained(K)',
         K < Last \/ pc = "send" => Ended(K)' /\ AnswerIn(K)',
         pc = "measure" => Ended(Last)' /\ LastIn' /\ stage' \notin {"name", "lookup"},
         pc \in {"head", "body", "json", "drain"} => stage' = "answered",
         pc \in {"start", "send"} => stage' \in {"none", "answered"},
         pc \notin {"start", "send", "done"} => Current'
  PROVE  Timing'
<1>1. ASSUME NEW j \in 1 .. Last, j # K
      PROVE  /\ Chained(j)'
             /\ j < Last \/ pc = "send" => Ended(j)' /\ AnswerIn(j)'
  <2>1. traces'[j] = traces[j] /\ trips' = trips /\ Last' = Last
    BY <1>1
  <2>2. InLookup(j)' <=> InLookup(j)
    BY <1>1 DEF InLookup
  <2>3. Chained(j)'
    BY <2>1, <2>2, <1>1 DEF Timing, Chained
  <2>4. (Ended(j) => Ended(j)') /\ (AnswerIn(j) => AnswerIn(j)')
    BY <2>1 DEF Ended, AnswerIn
  <2> QED
    BY <2>1, <2>3, <2>4, <1>1 DEF Timing
<1>2. \A j \in 1 .. Last' : Chained(j)'
  BY <1>1
<1>3. \A j \in 1 .. Last' : j < Last' \/ pc' = "send" => Ended(j)' /\ AnswerIn(j)'
  BY <1>1
<1>4. pc' # "done" => measured' = {}
  BY DEF Timing
<1>5. pc' = "measure" => Ended(Last)' /\ LastIn'
  OBVIOUS
<1> QED
  BY <1>2, <1>3, <1>4, <1>5 DEF Timing

\* The callbacks of the request that is being made.
LEMMA OwnTiming ==
  ASSUME Typed, Timing, NEW from, NEW to, NEW running, Own(from, to, running),
         from # "answered", running \subseteq Running, Last' = Last,
         \A j \in 1 .. Last : j # Last => traces'[j] = traces[j],
         Chained(Last)', Current',
         pc = "measure" => Ended(Last)' /\ to \notin {"name", "lookup"}
  PROVE  Timing'
<1>1. pc \in {"trip", "measure"} /\ stage' = to /\ Last \in 1 .. Last
  BY TraceFields DEF Own, Running, Typed, Last
<1>2. UNCHANGED <<pc, trips, host, measured>>
  BY DEF Own, client, outcome
<1>3. pc = "measure" => LastIn'
  BY DEF Timing, LastIn, Own, answer
<1> QED
  BY <1>1, <1>2, <1>3, OneTrace

\* The times of a trace lie at or before the clock.
LEMMA Times ==
  ASSUME Typed, NEW k \in 1 .. Last
  PROVE  /\ traces[k] \in Trace
         /\ traces[k].start \in Nat /\ traces[k].start <= now
         /\ traces[k].dnsDone \in Nat /\ traces[k].dnsDone <= now
         /\ traces[k].connectDone \in Nat /\ traces[k].connectDone <= now
         /\ traces[k].tlsStart \in Nat /\ traces[k].tlsStart <= now
         /\ traces[k].tlsDone \in Nat /\ traces[k].tlsDone <= now
         /\ traces[k].gotConn \in Nat /\ traces[k].gotConn <= now
         /\ traces[k].responseStart \in Nat /\ traces[k].responseStart <= now
         /\ traces[k].end \in Nat /\ traces[k].end <= now
         /\ trips[k].begun \in Nat /\ trips[k].begun <= now
         /\ trips[k].ended \in Nat /\ trips[k].ended <= now
<1>1. traces[k] \in Trace /\ trips[k] \in Trip /\ now \in Nat
  BY TraceFields
<1>2. \A x \in Time : x \in Nat /\ x <= now
  BY <1>1 DEF Time
<1> QED
  BY <1>1, <1>2 DEF Trace, TraceOf, Trip

LEMMA OwnSteps ==
  ASSUME Typed, Timing,
         \/ DNSStart \/ DNSDone \/ ConnectStart \/ ConnectDone
         \/ TLSHandshakeStart \/ TLSHandshakeDone \/ GotConn \/ GotFirstResponseByte
  PROVE  Timing'
<1> DEFINE t == traces[Last]
<1>1. pc \in {"trip", "measure"} /\ Running \subseteq {"trip", "measure"}
  BY DEF DNSStart, DNSDone, ConnectStart, ConnectDone, TLSHandshakeStart, TLSHandshakeDone,
         GotConn, GotFirstResponseByte, Own, Running
<1>2. Last \in 1 .. Last /\ now \in Nat /\ now # 0
  BY <1>1, TraceFields DEF Typed, Last
<1>3. /\ t \in Trace
      /\ t.start \in Nat /\ t.dnsDone \in Nat /\ t.connectDone \in Nat /\ t.tlsStart \in Nat
      /\ t.tlsDone \in Nat /\ t.gotConn \in Nat /\ t.responseStart \in Nat /\ t.end \in Nat
      /\ t.start <= now /\ t.dnsDone <= now /\ t.connectDone <= now /\ t.tlsStart <= now
      /\ t.tlsDone <= now /\ t.gotConn <= now /\ t.responseStart <= now
      /\ trips[Last].begun \in Nat /\ trips[Last].begun <= now
  BY <1>2, Times
<1>4. Chained(Last) /\ Current /\ (pc = "measure" => Ended(Last) /\ stage \notin {"name", "lookup"})
  BY <1>1, <1>2 DEF Timing
<1>5. "trip" \in Running
  BY DEF Running
<1>6. CASE DNSStart
  <2>1. Last' = Last /\ traces'[Last] = [t EXCEPT !.start = now]
        /\ \A j \in 1 .. Last : j # Last => traces'[j] = traces[j]
    <3>1. PICK last : last = Last
      OBVIOUS
    <3>2. Stamp(last, "start") /\ "start" \in Events
      BY <1>6, <3>1 DEF DNSStart, Events
    <3>3. /\ Last' = Last
          /\ traces'[last] = [traces[last] EXCEPT !["start"] = now]
          /\ \A j \in 1 .. Last : j # last => traces'[j] = traces[j]
      BY <1>2, <3>1, <3>2, StampFields
    <3> QED
      BY <3>1, <3>3
  <2>2. UNCHANGED <<trips, host>>
    BY <1>6 DEF DNSStart, Own, client
  <2>3. Chained(Last)'
    BY <1>2, <1>3, <1>4, <1>6, <2>1, <2>2
    DEF DNSStart, Own, Chained, Current, InLookup, Trace, TraceOf
  <2>4. Current'
    BY <1>2, <1>3, <1>4, <1>6, <2>1, <2>2
    DEF DNSStart, Own, Chained, Current, InLookup, Trace, TraceOf
  <2>5. pc = "measure" => Ended(Last)'
    BY <1>2, <1>3, <1>4, <1>6, <2>1, <2>2
    DEF DNSStart, Own, Ended, Current, Trace, TraceOf
  <2> QED
    BY <1>4, <1>5, <1>6, <2>1, <2>3, <2>4, <2>5, OwnTiming DEF DNSStart, Own
<1>7. CASE DNSDone
  <2>1. Last' = Last /\ traces'[Last] = [t EXCEPT !.dnsDone = now]
        /\ \A j \in 1 .. Last : j # Last => traces'[j] = traces[j]
    <3>1. PICK last : last = Last
      OBVIOUS
    <3>2. Stamp(last, "dnsDone") /\ "dnsDone" \in Events
      BY <1>7, <3>1 DEF DNSDone, Events
    <3>3. /\ Last' = Last
          /\ traces'[last] = [traces[last] EXCEPT !["dnsDone"] = now]
          /\ \A j \in 1 .. Last : j # last => traces'[j] = traces[j]
      BY <1>2, <3>1, <3>2, StampFields
    <3> QED
      BY <3>1, <3>3
  <2>2. UNCHANGED <<trips, host>>
    BY <1>7 DEF DNSDone, Own, client
  <2>3. Chained(Last)'
    BY <1>2, <1>3, <1>4, <1>7, <2>1, <2>2
    DEF DNSDone, Own, Chained, Current, InLookup, Trace, TraceOf
  <2>4. Current'
    BY <1>2, <1>3, <1>4, <1>7, <2>1, <2>2
    DEF DNSDone, Own, Chained, Current, InLookup, Trace, TraceOf
  <2>5. pc = "measure" => Ended(Last)'
    BY <1>2, <1>3, <1>4, <1>7, <2>1, <2>2
    DEF DNSDone, Own, Ended, Current, Trace, TraceOf
  <2> QED
    BY <1>4, <1>5, <1>7, <2>1, <2>3, <2>4, <2>5, OwnTiming DEF DNSDone, Own
<1>8. CASE ConnectDone
  <2>1. Last' = Last /\ traces'[Last] = [t EXCEPT !.connectDone = now]
        /\ \A j \in 1 .. Last : j # Last => traces'[j] = traces[j]
    <3>1. PICK last : last = Last
      OBVIOUS
    <3>2. Stamp(last, "connectDone") /\ "connectDone" \in Events
      BY <1>8, <3>1 DEF ConnectDone, Events
    <3>3. /\ Last' = Last
          /\ traces'[last] = [traces[last] EXCEPT !["connectDone"] = now]
          /\ \A j \in 1 .. Last : j # last => traces'[j] = traces[j]
      BY <1>2, <3>1, <3>2, StampFields
    <3> QED
      BY <3>1, <3>3
  <2>2. UNCHANGED <<trips, host>>
    BY <1>8 DEF ConnectDone, Own, client
  <2>3. Chained(Last)'
    BY <1>2, <1>3, <1>4, <1>8, <2>1, <2>2
    DEF ConnectDone, Own, Chained, Current, InLookup, Trace, TraceOf
  <2>4. Current'
    BY <1>2, <1>3, <1>4, <1>8, <2>1, <2>2
    DEF ConnectDone, Own, Chained, Current, InLookup, Trace, TraceOf
  <2>5. pc = "measure" => Ended(Last)'
    BY <1>2, <1>3, <1>4, <1>8, <2>1, <2>2
    DEF ConnectDone, Own, Ended, Current, Trace, TraceOf
  <2> QED
    BY <1>4, <1>5, <1>8, <2>1, <2>3, <2>4, <2>5, OwnTiming DEF ConnectDone, Own
<1>9. CASE TLSHandshakeStart
  <2>1. Last' = Last /\ traces'[Last] = [t EXCEPT !.tlsStart = now]
        /\ \A j \in 1 .. Last : j # Last => traces'[j] = traces[j]
    <3>1. PICK last : last = Last
      OBVIOUS
    <3>2. Stamp(last, "tlsStart") /\ "tlsStart" \in Events
      BY <1>9, <3>1 DEF TLSHandshakeStart, Events
    <3>3. /\ Last' = Last
          /\ traces'[last] = [traces[last] EXCEPT !["tlsStart"] = now]
          /\ \A j \in 1 .. Last : j # last => traces'[j] = traces[j]
      BY <1>2, <3>1, <3>2, StampFields
    <3> QED
      BY <3>1, <3>3
  <2>2. UNCHANGED <<trips, host>>
    BY <1>9 DEF TLSHandshakeStart, Own, client
  <2>3. Chained(Last)'
    BY <1>2, <1>3, <1>4, <1>9, <2>1, <2>2
    DEF TLSHandshakeStart, Own, Chained, Current, InLookup, Trace, TraceOf
  <2>4. Current'
    BY <1>2, <1>3, <1>4, <1>9, <2>1, <2>2
    DEF TLSHandshakeStart, Own, Chained, Current, InLookup, Trace, TraceOf
  <2>5. pc = "measure" => Ended(Last)'
    BY <1>2, <1>3, <1>4, <1>9, <2>1, <2>2
    DEF TLSHandshakeStart, Own, Ended, Current, Trace, TraceOf
  <2> QED
    BY <1>4, <1>5, <1>9, <2>1, <2>3, <2>4, <2>5, OwnTiming DEF TLSHandshakeStart, Own
<1>10. CASE TLSHandshakeDone
  <2>1. Last' = Last /\ traces'[Last] = [t EXCEPT !.tlsDone = now]
        /\ \A j \in 1 .. Last : j # Last => traces'[j] = traces[j]
    <3>1. PICK last : last = Last
      OBVIOUS
    <3>2. Stamp(last, "tlsDone") /\ "tlsDone" \in Events
      BY <1>10, <3>1 DEF TLSHandshakeDone, Events
    <3>3. /\ Last' = Last
          /\ traces'[last] = [traces[last] EXCEPT !["tlsDone"] = now]
          /\ \A j \in 1 .. Last : j # last => traces'[j] = traces[j]
      BY <1>2, <3>1, <3>2, StampFields
    <3> QED
      BY <3>1, <3>3
  <2>2. UNCHANGED <<trips, host>>
    BY <1>10 DEF TLSHandshakeDone, Own, client
  <2>3. Chained(Last)'
    BY <1>2, <1>3, <1>4, <1>10, <2>1, <2>2
    DEF TLSHandshakeDone, Own, Chained, Current, InLookup, Trace, TraceOf
  <2>4. Current'
    BY <1>2, <1>3, <1>4, <1>10, <2>1, <2>2
    DEF TLSHandshakeDone, Own, Chained, Current, InLookup, Trace, TraceOf
  <2>5. pc = "measure" => Ended(Last)'
    BY <1>2, <1>3, <1>4, <1>10, <2>1, <2>2
    DEF TLSHandshakeDone, Own, Ended, Current, Trace, TraceOf
  <2> QED
    BY <1>4, <1>5, <1>10, <2>1, <2>3, <2>4, <2>5, OwnTiming DEF TLSHandshakeDone, Own
<1>11. CASE GotConn
  <2>1. Last' = Last /\ traces'[Last] = [t EXCEPT !.gotConn = now]
        /\ \A j \in 1 .. Last : j # Last => traces'[j] = traces[j]
    <3>1. PICK last : last = Last
      OBVIOUS
    <3>2. Stamp(last, "gotConn") /\ "gotConn" \in Events
      BY <1>11, <3>1 DEF GotConn, Events
    <3>3. /\ Last' = Last
          /\ traces'[last] = [traces[last] EXCEPT !["gotConn"] = now]
          /\ \A j \in 1 .. Last : j # last => traces'[j] = traces[j]
      BY <1>2, <3>1, <3>2, StampFields
    <3> QED
      BY <3>1, <3>3
  <2>2. UNCHANGED <<trips, host>>
    BY <1>11 DEF GotConn, Own, client
  <2>3. Chained(Last)'
    BY <1>2, <1>3, <1>4, <1>11, <2>1, <2>2
    DEF GotConn, Own, Chained, Current, InLookup, Trace, TraceOf
  <2>4. Current'
    BY <1>2, <1>3, <1>4, <1>11, <2>1, <2>2
    DEF GotConn, Own, Chained, Current, InLookup, Trace, TraceOf
  <2>5. pc = "measure" => Ended(Last)'
    BY <1>2, <1>3, <1>4, <1>11, <2>1, <2>2
    DEF GotConn, Own, Ended, Current, Trace, TraceOf
  <2> QED
    BY <1>4, <1>5, <1>11, <2>1, <2>3, <2>4, <2>5, OwnTiming DEF GotConn, Own
<1>12. CASE GotFirstResponseByte
  <2>1. Last' = Last /\ traces'[Last] = [t EXCEPT !.responseStart = now]
        /\ \A j \in 1 .. Last : j # Last => traces'[j] = traces[j]
    <3>1. PICK last : last = Last
      OBVIOUS
    <3>2. Stamp(last, "responseStart") /\ "responseStart" \in Events
      BY <1>12, <3>1 DEF GotFirstResponseByte, Events
    <3>3. /\ Last' = Last
          /\ traces'[last] = [traces[last] EXCEPT !["responseStart"] = now]
          /\ \A j \in 1 .. Last : j # last => traces'[j] = traces[j]
      BY <1>2, <3>1, <3>2, StampFields
    <3> QED
      BY <3>1, <3>3
  <2>2. UNCHANGED <<trips, host>>
    BY <1>12 DEF GotFirstResponseByte, Own, client
  <2>3. Chained(Last)'
    BY <1>2, <1>3, <1>4, <1>12, <2>1, <2>2
    DEF GotFirstResponseByte, Own, Chained, Current, InLookup, Trace, TraceOf
  <2>4. Current'
    BY <1>2, <1>3, <1>4, <1>12, <2>1, <2>2
    DEF GotFirstResponseByte, Own, Chained, Current, InLookup, Trace, TraceOf
  <2>5. pc = "measure" => Ended(Last)'
    BY <1>2, <1>3, <1>4, <1>12, <2>1, <2>2
    DEF GotFirstResponseByte, Own, Ended, Current, Trace, TraceOf
  <2> QED
    BY <1>4, <1>5, <1>12, <2>1, <2>3, <2>4, <2>5, OwnTiming DEF GotFirstResponseByte, Own
<1>13. CASE ConnectStart
  <2>1. Last' = Last
        /\ traces'[Last] = (IF t.dnsDone = 0 THEN [t EXCEPT !.start = now, !.dnsDone = now] ELSE t)
        /\ \A j \in 1 .. Last : j # Last => traces'[j] = traces[j]
    <3>1. PICK last : last = Last
      OBVIOUS
    <3>2. BeginConnect(last)
      BY <1>13, <3>1 DEF ConnectStart
    <3>3. /\ Last' = Last
          /\ traces'[last] = IF traces[last].dnsDone = 0
                             THEN [traces[last] EXCEPT !.start = now, !.dnsDone = now]
                             ELSE traces[last]
          /\ \A j \in 1 .. Last : j # last => traces'[j] = traces[j]
      BY <1>2, <3>1, <3>2, BeginConnectFields
    <3> QED
      BY <3>1, <3>3
  <2>2. UNCHANGED <<trips, host>>
    BY <1>13 DEF ConnectStart, Own, client
  <2>3. Chained(Last)'
    BY <1>2, <1>3, <1>4, <1>13, <2>1, <2>2
    DEF ConnectStart, Own, Chained, Current, InLookup, Trace, TraceOf
  <2>4. Current'
    BY <1>2, <1>3, <1>4, <1>13, <2>1, <2>2
    DEF ConnectStart, Own, Chained, Current, InLookup, Trace, TraceOf
  <2>5. pc = "measure" => Ended(Last)'
    BY <1>2, <1>3, <1>4, <1>13, <2>1, <2>2
    DEF ConnectStart, Own, Ended, Current, Trace, TraceOf
  <2> QED
    BY <1>4, <1>5, <1>13, <2>1, <2>3, <2>4, <2>5, OwnTiming DEF ConnectStart, Own
<1> QED
  BY <1>6, <1>7, <1>8, <1>9, <1>10, <1>11, <1>12, <1>13

\* A trace with an answer has a connection, and is begun.
LEMMA Begun ==
  ASSUME Timing, NEW k \in 1 .. Last, traces[k].responseStart # 0 \/ traces[k].gotConn # 0
  PROVE  traces[k].dnsDone # 0
<1>1. Chained(k)
  BY DEF Timing
<1> QED
  BY <1>1 DEF Chained

\* The losing dial stamps only what is loose.
LEMMA StraySteps ==
  ASSUME Typed, Timing, StrayConnectStart \/ StrayConnectDone
  PROVE  Timing'
<1>1. UNCHANGED <<pc, trips, host, measured, stage, response>> /\ pc # "done"
  BY DEF StrayConnectStart, StrayConnectDone, client, outcome, answer
<1>2. /\ Last \in Nat /\ seen \in Nat \ {0} /\ now \in Nat /\ now # 0
  BY TraceFields DEF Typed, TypeOK
<1>3. PICK k \in seen .. Last : BeginConnect(k) \/ Stamp(k, "connectDone")
  BY DEF StrayConnectStart, StrayConnectDone
<1>4. k \in 1 .. Last
  BY <1>2, <1>3
<1> DEFINE t == traces[k]
<1>5. /\ Last' = Last
      /\ \/ t.dnsDone = 0 /\ traces'[k] = [t EXCEPT !.start = now, !.dnsDone = now]
         \/ traces'[k] = t
         \/ traces'[k] = [t EXCEPT !.connectDone = now]
      /\ \A j \in 1 .. Last : j # k => traces'[j] = traces[j]
  <2>1. CASE BeginConnect(k)
    BY <1>4, <2>1, BeginConnectFields
  <2>2. CASE Stamp(k, "connectDone")
    <3>1. "connectDone" \in Events
      BY DEF Events
    <3>2. traces'[k] = [t EXCEPT !["connectDone"] = now]
      BY <1>4, <2>2, <3>1, StampFields
    <3> QED
      BY <1>4, <2>2, <3>1, <3>2, StampFields
  <2> QED
    BY <1>3, <2>1, <2>2
<1>6. /\ t \in Trace
      /\ t.start \in Nat /\ t.dnsDone \in Nat /\ t.connectDone \in Nat /\ t.tlsStart \in Nat
      /\ t.tlsDone \in Nat /\ t.gotConn \in Nat /\ t.responseStart \in Nat /\ t.end \in Nat
      /\ t.start <= now /\ t.dnsDone <= now /\ t.connectDone <= now /\ t.tlsStart <= now
      /\ t.tlsDone <= now /\ t.gotConn <= now /\ t.responseStart <= now
      /\ trips[k].begun \in Nat /\ trips[k].begun <= now
  BY <1>4, Times
<1>7. t.responseStart # 0 \/ t.gotConn # 0 => t.dnsDone # 0
  BY <1>4, Begun
<1>8. Chained(k)
  BY <1>4 DEF Timing
<1>9. trips' = trips /\ (InLookup(k)' <=> InLookup(k))
  BY <1>1, <1>5 DEF InLookup
<1>10. Chained(k)'
  <2>1. CASE t.dnsDone = 0 /\ traces'[k] = [t EXCEPT !.start = now, !.dnsDone = now]
    BY <1>2, <1>6, <1>7, <1>8, <1>9, <2>1 DEF Chained, Trace, TraceOf
  <2>2. CASE traces'[k] = t
    BY <1>8, <1>9, <2>2 DEF Chained
  <2>3. CASE traces'[k] = [t EXCEPT !.connectDone = now]
    BY <1>2, <1>6, <1>8, <1>9, <2>3 DEF Chained, Trace, TraceOf
  <2> QED
    BY <1>5, <2>1, <2>2, <2>3
<1>11. traces'[k].responseStart = t.responseStart
  BY <1>5, <1>6 DEF Trace, TraceOf
<1>11a. AnswerIn(k) => AnswerIn(k)'
  BY <1>9, <1>11 DEF AnswerIn
<1>12. Ended(k) => Ended(k)'
  <2>1. CASE traces'[k] = [t EXCEPT !.start = now, !.dnsDone = now]
    <3>1. ~(traces'[k].start < traces'[k].dnsDone)
      BY <1>2, <1>6, <2>1 DEF Trace, TraceOf
    <3>2. /\ traces'[k].gotConn = t.gotConn /\ traces'[k].responseStart = t.responseStart
          /\ traces'[k].end = t.end
      BY <1>6, <2>1 DEF Trace, TraceOf
    <3> QED
      BY <1>9, <3>1, <3>2 DEF Ended
  <2>2. CASE traces'[k] = t
    BY <1>9, <2>2 DEF Ended
  <2>3. CASE traces'[k] = [t EXCEPT !.connectDone = now]
    <3>1. /\ traces'[k].gotConn = t.gotConn /\ traces'[k].responseStart = t.responseStart
          /\ traces'[k].end = t.end /\ traces'[k].start = t.start
          /\ traces'[k].dnsDone = t.dnsDone
      BY <1>6, <2>3 DEF Trace, TraceOf
    <3> QED
      BY <1>9, <3>1 DEF Ended
  <2> QED
    BY <1>5, <2>1, <2>2, <2>3
<1>13. ASSUME NEW j \in 1 .. Last
       PROVE  (Ended(j) => Ended(j)') /\ (AnswerIn(j) => AnswerIn(j)')
  <2>1. CASE j = k
    BY <1>12, <1>11a, <2>1
  <2>2. CASE j # k
    BY <1>5, <1>9, <2>2 DEF Ended, AnswerIn
  <2> QED
    BY <2>1, <2>2
<1>14. Last \in 1 .. Last
  BY <1>2, <1>4
<1>14a. LastIn => LastIn'
  <2>1. AnswerIn(Last) => AnswerIn(Last)'
    BY <1>5, <1>13, <1>14
  <2> QED
    BY <1>1, <2>1 DEF LastIn
<1>15. pc = "measure" => Ended(Last)' /\ LastIn' /\ stage' \notin {"name", "lookup"}
  BY <1>1, <1>5, <1>13, <1>14, <1>14a DEF Timing
<1>16. k < Last \/ pc = "send" => Ended(k)' /\ AnswerIn(k)'
  BY <1>4, <1>12, <1>11a DEF Timing
<1>17. Current => Current'
  <2>1. CASE k = Last
    BY <1>1, <1>2, <1>5, <1>6, <2>1 DEF Current, Trace, TraceOf
  <2>2. CASE k # Last
    BY <1>1, <1>5, <1>14, <2>2 DEF Current
  <2> QED
    BY <2>1, <2>2
<1> QED
  BY <1>1, <1>4, <1>5, <1>10, <1>15, <1>16, <1>17, OneTrace DEF Timing

\* The steps that touch neither traces nor requests.
LEMMA QuietSteps ==
  ASSUME Typed, Timing,
         \/ Setup \/ SetupFails \/ DialAgain \/ BodyLost \/ CheckHead \/ CheckBody \/ CheckJSON
         \/ Measure \/ UNCHANGED vars
  PROVE  Timing'
<1>1. UNCHANGED <<traces, trips, stage, host, response>>
  BY DEF Setup, SetupFails, DialAgain, BodyLost, CheckHead, CheckBody, CheckJSON, Measure, vars,
         client, tracing, answer
<1>2. pc' # "done" => UNCHANGED measured
  BY DEF Setup, SetupFails, DialAgain, BodyLost, CheckHead, CheckBody, CheckJSON, Measure, vars,
         outcome
<1>3. Last' = Last
  BY <1>1 DEF Last
<1>4. \A k : (Chained(k)' <=> Chained(k)) /\ (Ended(k)' <=> Ended(k))
                   /\ (AnswerIn(k)' <=> AnswerIn(k))
  BY <1>1, <1>3 DEF Chained, Ended, AnswerIn, InLookup
<1>5. (Current' <=> Current) /\ (LastIn' <=> LastIn)
  BY <1>1, <1>3 DEF Current, LastIn, AnswerIn
<1>6. pc = "start" => \A k \in 1 .. Last : FALSE
  BY DEF Typed, Last
<1>7. \/ pc' = pc
      \/ pc = "start" /\ pc' = "send"
      \/ pc' = "done"
      \/ pc \in {"head", "body", "json"} /\ pc' \in {"body", "json", "drain"}
  BY DEF Setup, SetupFails, DialAgain, BodyLost, CheckHead, CheckBody, CheckJSON, Measure, vars
<1>8. Timing /\ pc # "done" => measured = {}
  BY DEF Timing
<1>9. pc' # "done" => pc # "done"
  BY DEF Setup, SetupFails, DialAgain, BodyLost, CheckHead, CheckBody, CheckJSON, Measure, vars
<1>10. CASE pc' = pc
  BY <1>1, <1>2, <1>3, <1>4, <1>5, <1>10 DEF Timing
<1>11. CASE pc = "start" /\ pc' = "send"
  BY <1>1, <1>2, <1>3, <1>4, <1>6, <1>11 DEF Timing
<1>12. ASSUME pc' = "done" PROVE Timing'
  <2>1. CASE pc = "done"
    BY <1>10, <1>12, <2>1
  <2>2. CASE pc = "start"
    BY <1>1, <1>3, <1>4, <1>6, <1>12, <2>2 DEF Timing
  <2>3. CASE pc \notin {"start", "done"}
    BY <1>1, <1>3, <1>4, <1>12, <2>3 DEF Timing
  <2> QED
    BY <2>1, <2>2, <2>3
<1>13. CASE pc \in {"head", "body", "json"} /\ pc' \in {"body", "json", "drain"}
  BY <1>1, <1>2, <1>3, <1>4, <1>5, <1>13 DEF Timing
<1> QED
  BY <1>7, <1>10, <1>11, <1>12, <1>13

\* The last request ends.
LEMMA TripEnds ==
  ASSUME Typed, Last > 0, trips' = [trips EXCEPT ![Last].ended = now]
  PROVE  /\ Last \in 1 .. Last
         /\ trips'[Last].begun = trips[Last].begun /\ trips'[Last].ended = now
         /\ \A j \in 1 .. Last : j # Last => trips'[j] = trips[j]
<1>1. PICK last : last = Last
  OBVIOUS
<1>2. last \in Nat /\ last > 0 /\ last = Len(trips) /\ trips \in Seq(Trip)
  BY <1>1, TraceFields
<1>3. trips \in [1 .. last -> Trip] /\ trips[last] \in Trip
  BY <1>2
<1>4. trips' = [trips EXCEPT ![last] = [trips[last] EXCEPT !.ended = now]]
  BY <1>1, <1>3
<1>5. trips'[last] = [trips[last] EXCEPT !.ended = now]
  BY <1>2, <1>3, <1>4
<1> QED
  BY <1>1, <1>2, <1>3, <1>4, <1>5 DEF Trip

\* Its trace lies before its end.
LEMMA EndIsLast ==
  ASSUME Typed, Last > 0, trips'[Last].ended = now, Last' = Last, traces' = traces
  PROVE  Ended(Last)' /\ (traces[Last].responseStart # 0 => AnswerIn(Last)')
<1>1. Last \in 1 .. Last
  BY TraceFields
<1>2. /\ traces[Last].dnsDone <= now /\ traces[Last].gotConn <= now
      /\ traces[Last].responseStart <= now /\ traces[Last].end <= now
  BY <1>1, Times
<1> QED
  BY <1>2 DEF Ended, AnswerIn

LEMMA EndSteps ==
  ASSUME Typed, Timing, ~LookupsHang,
         TripFails \/ \E r \in Site[host].answers : Answered(r)
  PROVE  Timing'
<1>1. /\ pc = "trip" /\ trips' = [trips EXCEPT ![Last].ended = now]
      /\ UNCHANGED <<stage, traces, measured>>
      /\ pc' \in {"measure", "send", "head"}
  BY DEF TripFails, Answered, tracing, outcome
<1>2. Last' = Last /\ Last \in Nat /\ Last > 0
  BY <1>1, TraceFields DEF Typed, Last
<1>3. Last \in 1 .. Last /\ trips'[Last].begun = trips[Last].begun /\ trips'[Last].ended = now
      /\ \A j \in 1 .. Last : j # Last => trips'[j] = trips[j]
  BY <1>1, <1>2, TripEnds
<1>4. ASSUME NEW j \in 1 .. Last PROVE Chained(j)'
  <2>1. Chained(j) /\ traces'[j] = traces[j] /\ trips'[j].begun = trips[j].begun
    BY <1>1, <1>3 DEF Timing
  <2>2. InLookup(j)' <=> InLookup(j)
    BY <1>1, <1>2 DEF InLookup
  <2> QED
    BY <2>1, <2>2 DEF Chained
<1>5. Ended(Last)' /\ (traces[Last].responseStart # 0 => AnswerIn(Last)')
  BY <1>1, <1>2, <1>3, EndIsLast
<1>6. ASSUME NEW j \in 1 .. Last, j < Last PROVE Ended(j)' /\ AnswerIn(j)'
  <2>1. Ended(j) /\ AnswerIn(j)
    BY <1>6 DEF Timing
  <2>2. j # Last
    BY <1>2, <1>6
  <2> QED
    BY <1>1, <1>3, <2>1, <2>2 DEF Ended, AnswerIn
<1>7. Current /\ measured = {}
  BY <1>1 DEF Timing
<1>8. CASE TripFails
  <2>1. pc' = "measure" /\ stage \notin {"name", "lookup"} /\ host' = host
    BY <1>8 DEF TripFails
  <2>2. Current'
    BY <1>1, <1>2, <1>7, <2>1 DEF Current
  <2>3. LastIn'
    BY <1>1, <1>8 DEF TripFails, Typed, LastIn, answer
  <2> QED
    BY <1>1, <1>2, <1>4, <1>5, <1>6, <1>7, <2>1, <2>2, <2>3 DEF Timing
<1>9. ASSUME NEW r \in Site[host].answers, Answered(r) PROVE Timing'
  <2>1. stage = "answered" /\ stage' = "answered" /\ AnswerIn(Last)'
    BY <1>1, <1>5, <1>7, <1>9 DEF Answered, Current
  <2>2. CASE pc' = "send"
    <3>1. \A j \in 1 .. Last : Ended(j)' /\ AnswerIn(j)'
      <4> TAKE j \in 1 .. Last
      <4>1. j = Last \/ j < Last
        BY <1>2
      <4>2. CASE j = Last
        BY <1>2, <1>5, <2>1, <4>2 DEF Ended, AnswerIn
      <4> QED
        BY <1>6, <4>1, <4>2
    <3> QED
      BY <1>1, <1>2, <1>4, <1>7, <2>1, <2>2, <3>1 DEF Timing
  <2>3. CASE pc' = "head"
    <3>1. host' = host
      BY <1>9, <2>3 DEF Answered
    <3>2. Current'
      BY <1>1, <1>2, <1>7, <3>1 DEF Current
    <3> QED
      BY <1>1, <1>2, <1>4, <1>6, <1>7, <2>1, <2>3, <3>2 DEF Timing
  <2>4. pc' \in {"send", "head"}
    BY <1>9 DEF Answered
  <2> QED
    BY <2>2, <2>3, <2>4
<1> QED
  BY <1>8, <1>9

LEMMA DrainTiming ==
  ASSUME Typed, Timing, Drain
  PROVE  Timing'
<1>1. /\ pc = "drain" /\ pc' = "measure" /\ stage = "answered"
      /\ UNCHANGED <<stage, host, measured>>
      /\ traces' = [traces EXCEPT ![Last].end = now]
      /\ trips' = [trips EXCEPT ![Last].ended = now]
  BY DEF Drain, Timing
<1>2. Last \in Nat /\ Last > 0 /\ now \in Nat /\ now # 0
  BY <1>1, TraceFields DEF Typed, Last
<1>3. Last \in 1 .. Last /\ trips'[Last].begun = trips[Last].begun /\ trips'[Last].ended = now
      /\ \A j \in 1 .. Last : j # Last => trips'[j] = trips[j]
  BY <1>1, <1>2, TripEnds
<1> DEFINE t == traces[Last]
<1>4. /\ Last' = Last /\ traces'[Last] = [t EXCEPT !.end = now]
      /\ \A j \in 1 .. Last : j # Last => traces'[j] = traces[j]
  <2>1. PICK last : last = Last
    OBVIOUS
  <2>2. Stamp(last, "end") /\ "end" \in Events
    BY <1>1, <2>1 DEF Stamp, Events
  <2>3. /\ Last' = Last
        /\ traces'[last] = [traces[last] EXCEPT !["end"] = now]
        /\ \A j \in 1 .. Last : j # last => traces'[j] = traces[j]
    BY <1>3, <2>1, <2>2, StampFields
  <2> QED
    BY <2>1, <2>3
<1>5. /\ t \in Trace
      /\ t.start \in Nat /\ t.dnsDone \in Nat /\ t.connectDone \in Nat /\ t.tlsStart \in Nat
      /\ t.tlsDone \in Nat /\ t.gotConn \in Nat /\ t.responseStart \in Nat /\ t.end \in Nat
      /\ t.start <= now /\ t.dnsDone <= now /\ t.connectDone <= now /\ t.tlsStart <= now
      /\ t.tlsDone <= now /\ t.gotConn <= now /\ t.responseStart <= now
  BY <1>3, Times
<1>6. Chained(Last) /\ Current /\ measured = {}
  BY <1>1, <1>3 DEF Timing
<1>7. Current'
  BY <1>1, <1>4, <1>5, <1>6 DEF Current, Trace, TraceOf
<1>8. Ended(Last)' /\ LastIn'
  <2>1. t.responseStart # 0
    BY <1>1, <1>6 DEF Current
  <2>2. Ended(Last)'
    BY <1>2, <1>3, <1>4, <1>5 DEF Ended, Trace, TraceOf
  <2>3. AnswerIn(Last)'
    BY <1>2, <1>3, <1>4, <1>5, <2>1 DEF AnswerIn, Trace, TraceOf
  <2> QED
    BY <1>1, <2>2, <2>3 DEF LastIn
<1>9. Chained(Last)'
  <2>1. t.responseStart # 0
    BY <1>1, <1>6 DEF Current
  <2>2. (InLookup(Last) <=> FALSE) /\ (InLookup(Last)' <=> FALSE)
    BY <1>1 DEF InLookup
  <2> QED
    BY <1>2, <1>3, <1>4, <1>5, <1>6, <2>1, <2>2 DEF Chained, Trace, TraceOf
<1>10. ASSUME NEW j \in 1 .. Last, j # Last
       PROVE  Chained(j)' /\ Ended(j)' /\ AnswerIn(j)'
  <2>1. j < Last
    BY <1>2, <1>10
  <2>2. Chained(j) /\ Ended(j) /\ AnswerIn(j)
    BY <2>1 DEF Timing
  <2>3. traces'[j] = traces[j] /\ trips'[j] = trips[j] /\ (InLookup(j)' <=> InLookup(j))
    BY <1>1, <1>3, <1>4, <1>10 DEF InLookup
  <2> QED
    BY <2>2, <2>3 DEF Chained, Ended, AnswerIn
<1>11. \A j \in 1 .. Last' : Chained(j)'
  BY <1>4, <1>9, <1>10
<1>12. \A j \in 1 .. Last' : j < Last' => Ended(j)' /\ AnswerIn(j)'
  BY <1>2, <1>4, <1>10
<1> QED
  BY <1>1, <1>4, <1>6, <1>7, <1>8, <1>11, <1>12 DEF Timing

LEMMA RoundTripTiming ==
  ASSUME Typed, Timing, RoundTrip
  PROVE  Timing'
<1>1. /\ pc = "send" /\ pc' = "trip"
      /\ stage \in {"none", "answered"} /\ stage' \in {"name", "dial"}
      /\ UNCHANGED <<host, measured>>
  BY DEF RoundTrip, Timing, outcome
<1>2. /\ Last \in Nat /\ Last = Len(trips) /\ now \in Nat
      /\ traces \in Seq(Trace) /\ trips \in Seq(Trip) /\ measured = {}
  BY <1>1, TraceFields DEF Timing
<1> DEFINE trace == NewTrace(Site[host].https)
           trip == [host |-> host, begun |-> now, ended |-> 0, named |-> Named]
<1>3. traces' = Append(traces, trace) /\ trips' = Append(trips, trip)
  BY DEF RoundTrip
<1>4. /\ Last' = Last + 1
      /\ traces'[Last'] = trace /\ trips'[Last'] = trip
      /\ \A j \in 1 .. Last : traces'[j] = traces[j] /\ trips'[j] = trips[j]
  <2>1. Last = Len(traces)
    BY DEF Last
  <2> HIDE DEF trace, trip, Trace, Trip
  <2>2. Len(traces') = Len(traces) + 1 /\ traces'[Len(traces) + 1] = trace
        /\ \A j \in 1 .. Len(traces) : traces'[j] = traces[j]
    BY <1>2, <1>3
  <2>3. trips'[Len(trips) + 1] = trip /\ \A j \in 1 .. Len(trips) : trips'[j] = trips[j]
    BY <1>2, <1>3
  <2>4. Last' = Len(traces')
    BY DEF Last
  <2> QED
    BY <1>2, <2>1, <2>2, <2>3, <2>4
<1>5. ASSUME NEW j \in 1 .. Last PROVE Chained(j)' /\ Ended(j)' /\ AnswerIn(j)'
  <2>1. Chained(j) /\ Ended(j) /\ AnswerIn(j)
    BY <1>1 DEF Timing
  <2>2. (InLookup(j)' <=> FALSE) /\ (InLookup(j) <=> FALSE)
    BY <1>1 DEF InLookup
  <2> QED
    BY <1>4, <2>1, <2>2 DEF Chained, Ended, AnswerIn
<1>6. ASSUME NEW j, j = Last' PROVE Chained(j)'
  <2>1. InLookup(j)' <=> FALSE
    BY <1>1 DEF InLookup
  <2>2. traces'[j] = trace /\ trips'[j] = trip
    BY <1>4, <1>6
  <2> QED
    BY <1>2, <2>1, <2>2 DEF Chained, NewTrace
<1>7. Current'
  BY <1>1, <1>4 DEF Current, NewTrace
<1>8. \A j \in 1 .. Last' : j = Last' \/ j \in 1 .. Last
  BY <1>2, <1>4
<1>9. \A j \in 1 .. Last' : j < Last' => j \in 1 .. Last
  BY <1>2, <1>4
<1>10. \A j \in 1 .. Last' : Chained(j)'
  <2> TAKE j \in 1 .. Last'
  <2>1. CASE j = Last'
    BY <1>6, <2>1
  <2>2. CASE j \in 1 .. Last
    BY <1>5, <2>2
  <2> QED
    BY <1>8, <2>1, <2>2
<1> QED
  BY <1>1, <1>2, <1>5, <1>7, <1>9, <1>10 DEF Timing

LEMMA InitTiming == Init => Timing
<1> SUFFICES ASSUME Init PROVE Timing
  OBVIOUS
<1>1. \A j \in 1 .. Last : FALSE
  BY DEF Init, Last
<1> QED
  BY <1>1 DEF Init, Timing

Span(k, name, from, to) == [trip |-> k, phase |-> name, from |-> from, to |-> to]

\* The phases of a trace, one by one.
LEMMA PhaseKinds ==
  ASSUME NEW k, NEW p \in Phases(k)
  PROVE  LET t == traces[k] IN
         \/ p = Span(k, "resolve", t.start, t.dnsDone)
         \/ t.gotConn # 0 /\ t.tls /\ p = Span(k, "connect", t.dnsDone, t.connectDone)
         \/ t.gotConn # 0 /\ t.tls /\ p = Span(k, "tls", t.tlsStart, t.tlsDone)
         \/ t.gotConn # 0 /\ ~t.tls /\ p = Span(k, "connect", t.dnsDone, t.gotConn)
         \/ t.gotConn # 0 /\ t.responseStart # 0
            /\ p = Span(k, "processing", t.gotConn, t.responseStart)
         \/ t.gotConn # 0 /\ t.responseStart # 0 /\ t.end # 0
            /\ p = Span(k, "transfer", t.responseStart, t.end)
BY DEF Phases, Span

\* When the durations are taken every request has ended.
LEMMA Ordered ==
  ASSUME Typed, Timing, pc = "measure", NEW k \in 1 .. Last
  PROVE  LET t == traces[k]
             begun == trips[k].begun
             ended == trips[k].ended
         IN  /\ t.start \in Nat /\ t.dnsDone \in Nat /\ t.connectDone \in Nat
             /\ t.tlsStart \in Nat /\ t.tlsDone \in Nat /\ t.gotConn \in Nat
             /\ t.responseStart \in Nat /\ t.end \in Nat /\ begun \in Nat /\ ended \in Nat
             /\ t.start <= t.dnsDone
             /\ t.start < t.dnsDone => begun <= t.start /\ t.dnsDone <= ended
             /\ t.gotConn # 0 => /\ begun <= t.dnsDone /\ t.dnsDone <= t.gotConn
                                 /\ t.gotConn <= ended
             /\ t.gotConn # 0 /\ t.tls => /\ t.dnsDone <= t.connectDone /\ t.dnsDone <= t.tlsStart
                                          /\ t.tlsStart <= t.tlsDone /\ t.tlsDone <= t.gotConn
             /\ t.responseStart # 0 => t.gotConn # 0 /\ t.gotConn <= t.responseStart
             /\ k # Last \/ response # None => t.responseStart <= ended
             /\ t.end # 0 => t.responseStart <= t.end /\ t.end <= ended
<1> DEFINE t == traces[k]
<1>1. /\ t.start \in Nat /\ t.dnsDone \in Nat /\ t.connectDone \in Nat
      /\ t.tlsStart \in Nat /\ t.tlsDone \in Nat /\ t.gotConn \in Nat
      /\ t.responseStart \in Nat /\ t.end \in Nat
      /\ trips[k].begun \in Nat /\ trips[k].ended \in Nat
  BY Times
<1>2. Chained(k) /\ Ended(k)
  <2>1. k = Last \/ k < Last
    BY TraceFields
  <2> QED
    BY <2>1 DEF Timing
<1>3. InLookup(k) <=> FALSE
  BY DEF InLookup, Timing
<1>4. k # Last \/ response # None => AnswerIn(k)
  <2>1. k = Last \/ k < Last
    BY TraceFields
  <2> QED
    BY <2>1 DEF Timing, LastIn
<1> QED
  BY <1>1, <1>2, <1>3, <1>4 DEF Chained, Ended, AnswerIn

\* Any two phases of one trace that are not loose are one after the other.
LEMMA Apart ==
  ASSUME Typed, Timing, pc = "measure", NEW k \in 1 .. Last,
         NEW p \in Phases(k), NEW q \in Phases(k), p # q,
         ~(p.phase = "connect" /\ traces[k].tls), ~(q.phase = "connect" /\ traces[k].tls)
  PROVE  p.to <= q.from \/ q.to <= p.from
<1> DEFINE t == traces[k]
           kind(r) ==
             \/ r = Span(k, "resolve", t.start, t.dnsDone)
             \/ t.gotConn # 0 /\ t.tls /\ r = Span(k, "tls", t.tlsStart, t.tlsDone)
             \/ t.gotConn # 0 /\ ~t.tls /\ r = Span(k, "connect", t.dnsDone, t.gotConn)
             \/ t.gotConn # 0 /\ t.responseStart # 0
                /\ r = Span(k, "processing", t.gotConn, t.responseStart)
             \/ t.gotConn # 0 /\ t.responseStart # 0 /\ t.end # 0
                /\ r = Span(k, "transfer", t.responseStart, t.end)
<1>1. kind(p)
  BY PhaseKinds DEF Span
<1>2. kind(q)
  BY PhaseKinds DEF Span
<1>3. /\ t.start \in Nat /\ t.dnsDone \in Nat /\ t.tlsStart \in Nat /\ t.tlsDone \in Nat
      /\ t.gotConn \in Nat /\ t.responseStart \in Nat /\ t.end \in Nat
      /\ t.start <= t.dnsDone
      /\ t.gotConn # 0 => t.dnsDone <= t.gotConn
      /\ t.gotConn # 0 /\ t.tls => /\ t.dnsDone <= t.tlsStart
                                   /\ t.tlsStart <= t.tlsDone /\ t.tlsDone <= t.gotConn
      /\ t.responseStart # 0 => t.gotConn <= t.responseStart
      /\ t.end # 0 => t.responseStart <= t.end
  BY Ordered
<1> QED
  BY <1>1, <1>2, <1>3 DEF Span

LEMMA MeasurePhases ==
  ASSUME Typed, Timing, Measure
  PROVE  PhasesMeasured'
<1>1. /\ pc = "measure" /\ UNCHANGED <<traces, trips, response>> /\ Last' = Last
      /\ measured' = UNION {Phases(k) : k \in DOMAIN traces}
  BY DEF Measure, client, tracing, answer, Last
<1>2. DOMAIN traces = 1 .. Last
  <2>1. traces \in Seq(Trace)
    BY TraceFields
  <2> QED
    BY <2>1 DEF Last
<1>3. ASSUME NEW p \in measured' PROVE p.trip \in 1 .. Last /\ p \in Phases(p.trip)
  <2>1. PICK k \in 1 .. Last : p \in Phases(k)
    BY <1>1, <1>2, <1>3
  <2>2. p.trip = k
    BY <2>1, PhaseKinds DEF Span
  <2> QED
    BY <2>1, <2>2
<1> SUFFICES ASSUME NEW p \in measured'
             PROVE  /\ p.from <= p.to
                    /\ p.from < p.to /\ ~(p.phase = "connect" /\ traces[p.trip].tls) =>
                         /\ trips[p.trip].begun <= p.from /\ p.from <= trips[p.trip].ended
                         /\ \/ p.to <= trips[p.trip].ended
                            \/ p.phase = "processing" /\ p.trip = Last /\ response = None
                         /\ \A q \in measured' \ {p} :
                              q.trip = p.trip /\ ~(q.phase = "connect" /\ traces[q.trip].tls) =>
                                p.to <= q.from \/ q.to <= p.from
  BY <1>1 DEF PhasesMeasured
<1> DEFINE k == p.trip
           t == traces[k]
<1>4. k \in 1 .. Last /\ p \in Phases(k)
  BY <1>3
<1>5. /\ t.start \in Nat /\ t.dnsDone \in Nat /\ t.connectDone \in Nat
      /\ t.tlsStart \in Nat /\ t.tlsDone \in Nat /\ t.gotConn \in Nat
      /\ t.responseStart \in Nat /\ t.end \in Nat
      /\ trips[k].begun \in Nat /\ trips[k].ended \in Nat
      /\ t.start <= t.dnsDone
      /\ t.start < t.dnsDone => trips[k].begun <= t.start /\ t.dnsDone <= trips[k].ended
      /\ t.gotConn # 0 => /\ trips[k].begun <= t.dnsDone /\ t.dnsDone <= t.gotConn
                          /\ t.gotConn <= trips[k].ended
      /\ t.gotConn # 0 /\ t.tls => /\ t.dnsDone <= t.connectDone /\ t.dnsDone <= t.tlsStart
                                   /\ t.tlsStart <= t.tlsDone /\ t.tlsDone <= t.gotConn
      /\ t.responseStart # 0 => t.gotConn <= t.responseStart
      /\ k # Last \/ response # None => t.responseStart <= trips[k].ended
      /\ t.end # 0 => t.responseStart <= t.end /\ t.end <= trips[k].ended
  BY <1>1, <1>4, Ordered
<1>6. \/ p = Span(k, "resolve", t.start, t.dnsDone)
      \/ t.gotConn # 0 /\ t.tls /\ p = Span(k, "connect", t.dnsDone, t.connectDone)
      \/ t.gotConn # 0 /\ t.tls /\ p = Span(k, "tls", t.tlsStart, t.tlsDone)
      \/ t.gotConn # 0 /\ ~t.tls /\ p = Span(k, "connect", t.dnsDone, t.gotConn)
      \/ t.gotConn # 0 /\ t.responseStart # 0
         /\ p = Span(k, "processing", t.gotConn, t.responseStart)
      \/ t.gotConn # 0 /\ t.responseStart # 0 /\ t.end # 0
         /\ p = Span(k, "transfer", t.responseStart, t.end)
  BY <1>4, PhaseKinds
<1>7. /\ p.from <= p.to
      /\ p.from < p.to /\ ~(p.phase = "connect" /\ t.tls) =>
           /\ trips[k].begun <= p.from /\ p.from <= trips[k].ended
           /\ \/ p.to <= trips[k].ended
              \/ p.phase = "processing" /\ k = Last /\ response = None
  BY <1>5, <1>6 DEF Span
<1>8. ASSUME NEW q \in measured', q # p, q.trip = k, ~(q.phase = "connect" /\ t.tls),
             ~(p.phase = "connect" /\ t.tls)
      PROVE  p.to <= q.from \/ q.to <= p.from
  <2>1. q \in Phases(k)
    BY <1>3, <1>8
  <2> QED
    BY <1>1, <1>4, <1>8, <2>1, Apart
<1> QED
  BY <1>7, <1>8

LEMMA NextTiming ==
  ~LookupsHang /\ Typed /\ Timing /\ PhasesMeasured /\ [Next]_vars => Timing' /\ PhasesMeasured'
<1> SUFFICES ASSUME ~LookupsHang, Typed, Timing, PhasesMeasured, [Next]_vars
             PROVE  Timing' /\ PhasesMeasured'
  OBVIOUS
<1>1. Timing'
  <2>1. CASE UNCHANGED vars \/ BodyLost \/ Setup \/ SetupFails
    BY <2>1, QuietSteps
  <2>2. CASE RoundTrip
    BY <2>2, RoundTripTiming
  <2>3. CASE TripFails \/ \E r \in Site[host].answers : Answered(r)
    BY <2>3, EndSteps
  <2>4. CASE Callback
    BY <2>4, OwnSteps, StraySteps, QuietSteps DEF Callback
  <2>5. CASE Check
    BY <2>5, QuietSteps, DrainTiming DEF Check
  <2> QED
    BY <2>1, <2>2, <2>3, <2>4, <2>5 DEF Next, Request
<1>2. PhasesMeasured'
  <2>1. CASE Measure
    BY <2>1, MeasurePhases
  <2>2. CASE pc' # "done"
    BY <1>1, <2>2 DEF Timing, PhasesMeasured
  <2>3. CASE UNCHANGED vars
    BY <2>3 DEF vars, PhasesMeasured, Last
  <2>4. CASE SetupFails
    BY <2>4 DEF SetupFails, Timing, PhasesMeasured
  <2>5. Measure \/ SetupFails \/ UNCHANGED vars \/ pc' # "done"
    BY DEF Next, Request, Callback, Check, Setup, RoundTrip, TripFails, Answered,
           DNSStart, DNSDone, ConnectStart, ConnectDone, TLSHandshakeStart, TLSHandshakeDone,
           GotConn, GotFirstResponseByte, Own, Running, DialAgain, StrayConnectStart,
           StrayConnectDone, CheckHead, CheckBody, CheckJSON, Drain, BodyLost
  <2> QED
    BY <2>1, <2>2, <2>3, <2>4, <2>5
<1> QED
  BY <1>1, <1>2

\* No phase that probe_http_duration_seconds adds up is negative, and those of
\* a request lie within it, one after the other, whenever the callbacks of a
\* losing dial and of the reader of the answer come (http.go:204-282, 701-748),
\* provided the name server answers a redirect before the deadline. Not held to
\* the end of its request is the first byte of an answer that was given up; the
\* phase that it ends begins within the request.
THEOREM PhasesAreMeasured ==
  ASSUME ~LookupsHang
  PROVE  Spec => []PhasesMeasured
<1>1. Init => Typed /\ Timing /\ PhasesMeasured
  BY InitTyped, InitTiming DEF Init, PhasesMeasured
<1>2. Typed /\ Timing /\ PhasesMeasured /\ [Next]_vars => (Typed /\ Timing /\ PhasesMeasured)'
  BY NextTyped, NextTiming
<1> QED
  BY <1>1, <1>2, PTL DEF Spec
=============================================================================
