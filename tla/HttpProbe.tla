----------------------------- MODULE HttpProbe -----------------------------
(***************************************************************************)
(* One probe of the http prober (prober/http.go): the requests it makes    *)
(* while it is redirected, each with a roundTripTrace that the callbacks   *)
(* of net/http/httptrace fill in, and the checks of the last answer, which *)
(* share one reader of its body.                                           *)
(*                                                                         *)
(* A host with several addresses is dialled twice at a time (net.Dialer);  *)
(* the callbacks of the dial that lost come whenever its goroutine is      *)
(* scheduled, perhaps into the trace of a later request. RoundTrip changes *)
(* the current trace without the mutex of the callbacks: until a goroutine *)
(* has taken the mutex after another that has seen the new trace, it may   *)
(* still use the old one.                                                  *)
(*                                                                         *)
(* A regular expression is the value, or the word of the body, it matches; *)
(* a CEL expression is the JSON value for which it is true, and it cannot  *)
(* be evaluated for Odd. What is said of br holds of deflate too. Proxies, *)
(* HTTP/3 and the content of requests are left out.                        *)
(***************************************************************************)
EXTENDS Naturals, Sequences

CONSTANTS
  Modules,       \* http modules
  Hosts,         \* what stands for host and port in a URL
  Site,          \* Site[h]: https, named (to be looked up), dual (several addresses), answers
  Starts,        \* hosts that are probed, by the address chooseProtocol found
  Headers, Values, Words, JSON, Odd,
  MaxRedirects,  \* 10 in the code
  LookupsHang,   \* a name server may keep a redirect waiting until the deadline
  None

HeaderMatch == [header : Headers, regexp : Values, allowMissing : BOOLEAN]

Module ==
  [followRedirects : BOOLEAN, validStatusCodes : SUBSET Nat, validHTTPVersions : SUBSET Nat,
   headerMatches : SUBSET HeaderMatch, headerNotMatches : SUBSET HeaderMatch,
   compression : {"", "identity", "gzip", "br", "other"}, bodySizeLimit : Nat,
   bodyMatches : SUBSET Words, bodyNotMatches : SUBSET Words,
   jsonMatches : JSON \cup {None}, jsonNotMatches : JSON \cup {None},
   failIfSSL : BOOLEAN, failIfNotSSL : BOOLEAN]

\* An empty body is http.NoBody.
Body == [encoding : {"identity", "gzip", "br"}, size : Nat, words : SUBSET Words,
         json : JSON \cup {Odd, None}]

Response == [status : Nat, location : Hosts \cup {None}, headers : [Headers -> SUBSET Values],
             version : Nat, body : Body]

ASSUME HttpAssumption ==
  /\ Modules \subseteq Module
  /\ Site \in [Hosts -> [https : BOOLEAN, named : BOOLEAN, dual : BOOLEAN,
                         answers : SUBSET Response]]
  /\ Starts \subseteq Hosts /\ \A h \in Starts : ~Site[h].named /\ ~Site[h].dual
  /\ MaxRedirects \in Nat /\ LookupsHang \in BOOLEAN
  /\ None \notin Hosts \cup JSON \cup Response
  /\ Odd \notin JSON \cup {None}

VARIABLES
  module,
  pc,         \* "start", "send", "trip", "head", "body", "json", "drain", "measure", "done"
  host,       \* of the request being made
  stage,      \* how far its connection is
  stray,      \* the losing dial: "none", "launched", "connecting" or "over"
  traces,     \* tt.traces, the last of which is tt.current
  seen,       \* the oldest trace a losing dial may take for the current one
  now,        \* the clock, which advances with every event
  trips,      \* history: host, beginning, end and TLS name of each request
  redirects,
  response,   \* of the last request, None if it has none
  refused,    \* a redirect was not followed: the client has closed the body
  unread,     \* what the reader of the body still holds: "all" or "none"
  lost,       \* the connection broke, or the deadline came, before it was read
  decoded,    \* the body is read through a decompressor
  success,
  failedDueToRegex, failedDueToCEL,
  measured,   \* the intervals that add up to probe_http_duration_seconds
  verdict     \* "none", "success" or "failure"

client == <<host, redirects, trips>>
tracing == <<stray, traces, seen>>
answer == <<response, refused, unread, lost, decoded>>
outcome == <<success, failedDueToRegex, failedDueToCEL, measured, verdict>>

vars == <<module, pc, host, stage, stray, traces, seen, now, trips, redirects,
          response, refused, unread, lost, decoded,
          success, failedDueToRegex, failedDueToCEL, measured, verdict>>

\* 0 is the zero time.
NewTrace(https) ==
  [tls |-> https, start |-> 0, dnsDone |-> 0, connectDone |-> 0, tlsStart |-> 0, tlsDone |-> 0,
   gotConn |-> 0, responseStart |-> 0, end |-> 0]

Init ==
  /\ module \in Modules
  /\ host \in Starts
  /\ pc = "start" /\ stage = "none" /\ stray = "none"
  /\ traces = <<>> /\ seen = 1 /\ now = 1
  /\ trips = <<>> /\ redirects = 0
  /\ response = None /\ refused = FALSE /\ unread = "all" /\ lost = FALSE /\ decoded = FALSE
  /\ success = FALSE /\ failedDueToRegex = 0 /\ failedDueToCEL = 0
  /\ measured = {} /\ verdict = "none"

-----------------------------------------------------------------------------
(* The requests.                                                           *)

Setup ==
  /\ pc = "start"
  /\ pc' = "send"
  /\ UNCHANGED <<module, stage, now, client, tracing, answer, outcome>>

\* The target is no URL, does not resolve, or something the module names
\* cannot be read.
SetupFails ==
  /\ pc = "start"
  /\ pc' = "done"
  /\ verdict' = "failure"
  /\ UNCHANGED <<module, stage, now, client, tracing, answer, success, failedDueToRegex,
                 failedDueToCEL, measured>>

\* The server name of the module goes with requests to the first host only.
Named == trips = <<>> \/ host = trips[1].host

\* RoundTrip: a new trace becomes the current one.
RoundTrip ==
  /\ pc = "send"
  /\ pc' = "trip"
  /\ stage' = IF Site[host].named THEN "name" ELSE "dial"
  /\ traces' = Append(traces, NewTrace(Site[host].https))
  /\ trips' = Append(trips, [host |-> host, begun |-> now, ended |-> 0, named |-> Named])
  /\ now' = now + 1
  /\ stray' = IF stray = "over" THEN "none" ELSE stray
  /\ UNCHANGED <<module, host, redirects, seen, answer, outcome>>

Last == Len(traces)

\* The callbacks of the request and of its goroutines. The goroutines that dial
\* and the one that reads the answer go on when the request has been given up.
Own(from, to, running) ==
  /\ stage = from
  /\ pc \in running
  /\ stage' = to
  /\ now' = now + 1
  /\ seen' = Last
  /\ UNCHANGED <<module, pc, client, stray, answer, outcome>>

Running == {"trip", "measure"}

Stamp(k, event) == traces' = [traces EXCEPT ![k][event] = now]

DNSStart == Own("name", "lookup", Running) /\ Stamp(Last, "start")

DNSDone == Own("lookup", "dial", Running) /\ Stamp(Last, "dnsDone")

\* Faulty variant: every attempt to connect starts the phase anew.
BeginConnectAlways(k) ==
  traces' = [traces EXCEPT ![k].start = now, ![k].dnsDone = now]

\* Without a lookup the first attempt to connect begins the trace.
BeginConnect(k) ==
  IF traces[k].dnsDone = 0
  THEN traces' = [traces EXCEPT ![k].start = now, ![k].dnsDone = now]
  ELSE UNCHANGED traces

ConnectStart == Own("dial", "connect", Running) /\ BeginConnect(Last)

ConnectDone ==
  /\ Own("connect", IF Site[host].https THEN "tls" ELSE "connected", Running)
  /\ Stamp(Last, "connectDone")

TLSHandshakeStart == Own("tls", "handshake", Running) /\ Stamp(Last, "tlsStart")

TLSHandshakeDone == Own("handshake", "connected", Running) /\ Stamp(Last, "tlsDone")

GotConn == Own("connected", "sent", {"trip"}) /\ Stamp(Last, "gotConn")

GotFirstResponseByte == Own("sent", "answered", Running) /\ Stamp(Last, "responseStart")

\* net.Dialer tries a second address while the first is being connected to;
\* one losing dial at a time is followed.
DialAgain ==
  /\ pc = "trip" /\ stage = "connect"
  /\ Site[host].dual
  /\ stray = "none"
  /\ stray' = "launched"
  /\ UNCHANGED <<module, pc, stage, now, client, traces, seen, answer, outcome>>

\* The callbacks of the losing dial.
StrayConnectStart ==
  /\ stray = "launched" /\ pc # "done"
  /\ stray' = "connecting"
  /\ \E k \in seen .. Last : BeginConnect(k)
  /\ now' = now + 1
  /\ UNCHANGED <<module, pc, stage, seen, client, answer, outcome>>

StrayConnectDone ==
  /\ stray = "connecting" /\ pc # "done"
  /\ stray' = "over"
  /\ \E k \in seen .. Last : Stamp(k, "connectDone")
  /\ now' = now + 1
  /\ UNCHANGED <<module, pc, stage, seen, client, answer, outcome>>

\* No connection, no answer, or the deadline.
TripFails ==
  /\ pc = "trip"
  /\ stage \in {"name", "lookup"} => LookupsHang
  /\ pc' = "measure"
  /\ trips' = [trips EXCEPT ![Last].ended = now]
  /\ now' = now + 1
  /\ UNCHANGED <<module, stage, host, redirects, tracing, answer, outcome>>

\* Faulty variant: one redirect too many is followed.
FollowsOneMore(n) == module.followRedirects /\ n <= MaxRedirects + 1

\* CheckRedirect after n requests.
Follows(n) == module.followRedirects /\ n <= MaxRedirects

Answered(r) ==
  /\ pc = "trip" /\ stage = "answered"
  /\ trips' = [trips EXCEPT ![Last].ended = now]
  /\ now' = now + 1
  /\ IF r.location # None /\ Follows(Last)
     THEN pc' = "send" /\ host' = r.location /\ UNCHANGED <<response, refused>>
     ELSE pc' = "head" /\ response' = r /\ refused' = (r.location # None) /\ UNCHANGED host
  /\ redirects' = IF r.location # None THEN Last ELSE redirects
  /\ UNCHANGED <<module, stage, tracing, unread, lost, decoded, outcome>>

-----------------------------------------------------------------------------
(* The checks of the answer.                                               *)

\* While the body is being read, the connection may break and the deadline
\* may come. An empty body is neither lost nor closed.
BodyLost ==
  /\ pc \in {"head", "body", "json", "drain"}
  /\ response.body.size > 0
  /\ unread = "all" /\ ~lost
  /\ lost' = TRUE
  /\ UNCHANGED <<module, pc, stage, now, client, tracing, response, refused, unread, decoded,
                 outcome>>

StatusMeets(m, r) ==
  IF m.validStatusCodes # {} THEN r.status \in m.validStatusCodes ELSE r.status \in 200 .. 299

\* One entry of fail_if_header_matches or fail_if_header_not_matches: hit says
\* whether a value that matches fails the probe, or the want of one.
HeaderFails(spec, r, hit) ==
  IF r.headers[spec.header] = {} THEN ~spec.allowMissing
  ELSE (spec.regexp \in r.headers[spec.header]) = hit

HeaderRules(m) == m.headerMatches # {} \/ m.headerNotMatches # {}

HeadersMeet(m, r) ==
  /\ \A s \in m.headerMatches : ~HeaderFails(s, r, TRUE)
  /\ \A s \in m.headerNotMatches : ~HeaderFails(s, r, FALSE)

Gauge(ok) == IF ok THEN 0 ELSE 1

Closed(r) == refused /\ r.body.size > 0

\* getDecompressionReader: only that of gzip looks at the body at once.
NoDecompressor ==
  \/ module.compression = "other"
  \/ module.compression = "gzip" /\ (Closed(response) \/ lost \/ response.body.encoding # "gzip")

CheckHead ==
  /\ pc = "head"
  /\ LET status == StatusMeets(module, response)
         headers == HeaderRules(module) => HeadersMeet(module, response)
     IN  /\ success' = (status /\ headers /\ ~NoDecompressor)
         /\ failedDueToRegex' = IF status /\ HeaderRules(module) THEN Gauge(headers)
                                ELSE failedDueToRegex
  /\ decoded' = (module.compression \in {"gzip", "br"} /\ ~NoDecompressor)
  /\ pc' = "body"
  /\ UNCHANGED <<module, stage, now, client, tracing, response, refused, unread, lost,
                 failedDueToCEL, measured, verdict>>

\* Reading the body to its end fails: it is closed, lost, not encoded as the
\* module says, or longer than its limit.
ReadFails ==
  /\ unread = "all"
  /\ \/ Closed(response) \/ lost
     \/ decoded /\ response.body.encoding # module.compression
     \/ module.bodySizeLimit > 0 /\ response.body.size > module.bodySizeLimit

\* A body that is encoded has no words and no value for whom does not decode it.
Legible(m, r) ==
  r.body.encoding = IF m.compression \in {"gzip", "br"} THEN m.compression ELSE "identity"

WordsIn(m, r) == IF Legible(m, r) THEN r.body.words ELSE {}
ValueIn(m, r) == IF Legible(m, r) THEN r.body.json ELSE None

\* What io.ReadAll returns: the body the first time, nothing afterwards.
Text == IF unread = "all" THEN WordsIn(module, response) ELSE {}
Value == IF unread = "all" THEN ValueIn(module, response) ELSE None

BodyRules(m) == m.bodyMatches # {} \/ m.bodyNotMatches # {}
JSONRules(m) == m.jsonMatches # None \/ m.jsonNotMatches # None

WordsMeet(m, text) == m.bodyMatches \cap text = {} /\ m.bodyNotMatches \subseteq text

\* An expression that cannot be evaluated fails the probe as well.
JSONMeets(m, value) ==
  /\ value \notin {None, Odd}
  /\ m.jsonMatches # value
  /\ m.jsonNotMatches \in {None, value}

\* Faulty variant: the body is looked at whatever the checks before have said.
CheckBodyAnyway ==
  /\ pc = "body"
  /\ IF BodyRules(module)
     THEN LET ok == ~ReadFails /\ WordsMeet(module, Text)
          IN  /\ success' = ok
              /\ failedDueToRegex' = Gauge(ok)
              /\ unread' = IF ReadFails THEN unread ELSE "none"
     ELSE UNCHANGED <<success, failedDueToRegex, unread>>
  /\ pc' = "json"
  /\ UNCHANGED <<module, stage, now, client, tracing, response, refused, lost, decoded,
                 failedDueToCEL, measured, verdict>>

CheckBody ==
  /\ pc = "body"
  /\ IF success /\ BodyRules(module)
     THEN LET ok == ~ReadFails /\ WordsMeet(module, Text)
          IN  /\ success' = ok
              /\ failedDueToRegex' = Gauge(ok)
              /\ unread' = IF ReadFails THEN unread ELSE "none"
     ELSE UNCHANGED <<success, failedDueToRegex, unread>>
  /\ pc' = "json"
  /\ UNCHANGED <<module, stage, now, client, tracing, response, refused, lost, decoded,
                 failedDueToCEL, measured, verdict>>

CheckJSON ==
  /\ pc = "json"
  /\ IF success /\ JSONRules(module)
     THEN LET ok == ~ReadFails /\ JSONMeets(module, Value)
          IN  /\ success' = ok
              /\ failedDueToCEL' = Gauge(ok)
              /\ unread' = IF ReadFails THEN unread ELSE "none"
     ELSE UNCHANGED <<success, failedDueToCEL, unread>>
  /\ pc' = "drain"
  /\ UNCHANGED <<module, stage, now, client, tracing, response, refused, lost, decoded,
                 failedDueToRegex, measured, verdict>>

\* What is left of the body is read, unless the client has closed it; the
\* trace ends; the version of HTTP is looked at.
Drain ==
  /\ pc = "drain"
  /\ success' = /\ success
                /\ refused \/ ~ReadFails
                /\ module.validHTTPVersions # {} => response.version \in module.validHTTPVersions
  /\ unread' = "none"
  /\ traces' = [traces EXCEPT ![Last].end = now]
  /\ trips' = [trips EXCEPT ![Last].ended = now]
  /\ now' = now + 1
  /\ pc' = "measure"
  /\ UNCHANGED <<module, stage, host, redirects, stray, seen, response, refused, lost, decoded,
                 failedDueToRegex, failedDueToCEL, measured, verdict>>

\* The phases of one trace, with the early exits of the loop over tt.traces.
\* That of a lookup is taken from chooseProtocol for the first request.
Phases(k) ==
  LET t == traces[k]
      phase(name, from, to) == {[trip |-> k, phase |-> name, from |-> from, to |-> to]}
  IN  (IF k # 1 THEN phase("resolve", t.start, t.dnsDone) ELSE {}) \cup
      IF t.gotConn = 0 THEN {}
      ELSE (IF t.tls THEN phase("connect", t.dnsDone, t.connectDone)
                            \cup phase("tls", t.tlsStart, t.tlsDone)
                     ELSE phase("connect", t.dnsDone, t.gotConn)) \cup
           IF t.responseStart = 0 THEN {}
           ELSE phase("processing", t.gotConn, t.responseStart) \cup
                IF t.end = 0 THEN {} ELSE phase("transfer", t.responseStart, t.end)

SSLMeets(m) ==
  IF response # None /\ Site[host].https THEN ~m.failIfSSL ELSE ~m.failIfNotSSL

\* With the mutex held: the durations, whether TLS was used, and the verdict.
Measure ==
  /\ pc = "measure"
  /\ measured' = UNION {Phases(k) : k \in DOMAIN traces}
  /\ success' = (success /\ SSLMeets(module))
  /\ verdict' = IF success' THEN "success" ELSE "failure"
  /\ pc' = "done"
  /\ UNCHANGED <<module, stage, now, client, tracing, answer, failedDueToRegex, failedDueToCEL>>

-----------------------------------------------------------------------------
Request ==
  \/ Setup \/ SetupFails \/ RoundTrip \/ TripFails
  \/ \E r \in Site[host].answers : Answered(r)

Callback ==
  \/ DNSStart \/ DNSDone \/ ConnectStart \/ ConnectDone
  \/ TLSHandshakeStart \/ TLSHandshakeDone \/ GotConn \/ GotFirstResponseByte
  \/ DialAgain \/ StrayConnectStart \/ StrayConnectDone

Check == CheckHead \/ CheckBody \/ CheckJSON \/ Drain \/ Measure

Next == Request \/ Callback \/ Check \/ BodyLost

Spec == Init /\ [][Next]_vars

-----------------------------------------------------------------------------
(* What the module asks of an answer, said without the reader.             *)

\* The body of a redirect that is not followed is asked for only by a rule.
AsksForBody(m) == BodyRules(m) \/ JSONRules(m) \/ m.compression = "gzip"

Arrived(m, r) ==
  /\ ~lost /\ ~Closed(r)
  /\ m.compression \in {"gzip", "br"} => r.body.encoding = m.compression
  /\ m.bodySizeLimit > 0 => r.body.size <= m.bodySizeLimit

BodyMeets(m, r) ==
  /\ Arrived(m, r)
  /\ WordsMeet(m, WordsIn(m, r))
  /\ JSONRules(m) => JSONMeets(m, ValueIn(m, r))

Acceptable(m, r) ==
  /\ StatusMeets(m, r)
  /\ HeadersMeet(m, r)
  /\ m.compression # "other"
  /\ (refused /\ ~AsksForBody(m)) \/ BodyMeets(m, r)
  /\ m.validHTTPVersions # {} => r.version \in m.validHTTPVersions
  /\ SSLMeets(m)

\* The checks of the body are made: those before have passed, and there is a
\* reader for its encoding.
BodyChecked(m, r) ==
  /\ StatusMeets(m, r) /\ HeadersMeet(m, r)
  /\ m.compression # "other"
  /\ m.compression \in {"gzip", "br"} => decoded

\* A regular expression was asked and was not satisfied.
RegexFails(m, r) ==
  \/ StatusMeets(m, r) /\ ~HeadersMeet(m, r)
  \/ /\ BodyChecked(m, r) /\ BodyRules(m)
     /\ ~(Arrived(m, r) /\ WordsMeet(m, WordsIn(m, r)))

\* A CEL expression was asked, the regular expressions before it being
\* satisfied, and it was not.
CELFails(m, r) ==
  /\ BodyChecked(m, r) /\ JSONRules(m) /\ ~RegexFails(m, r)
  /\ ~(Arrived(m, r) /\ JSONMeets(m, ValueIn(m, r)))

-----------------------------------------------------------------------------
(* Properties.                                                             *)

Time == 0 .. now

\* The types of the variables; there is a trace for every request.
TypeOK ==
  /\ module \in Modules /\ host \in Hosts
  /\ pc \in {"start", "send", "trip", "head", "body", "json", "drain", "measure", "done"}
  /\ stage \in {"none", "name", "lookup", "dial", "connect", "tls", "handshake", "connected",
                "sent", "answered"}
  /\ stray \in {"none", "launched", "connecting", "over"}
  /\ traces \in Seq([tls : BOOLEAN, start : Time, dnsDone : Time, connectDone : Time,
                     tlsStart : Time, tlsDone : Time, gotConn : Time, responseStart : Time,
                     end : Time])
  /\ now \in Nat \ {0} /\ seen \in Nat \ {0}
  /\ trips \in Seq([host : Hosts, begun : Time, ended : Time, named : BOOLEAN])
  /\ Len(trips) = Len(traces)
  /\ Len(traces) <= MaxRedirects + 1 /\ redirects \in 0 .. Len(traces)
  /\ response = None \/ response \in Site[host].answers
  /\ refused \in BOOLEAN /\ unread \in {"all", "none"} /\ lost \in BOOLEAN
  /\ decoded \in BOOLEAN /\ success \in BOOLEAN
  /\ failedDueToRegex \in {0, 1} /\ failedDueToCEL \in {0, 1}
  /\ verdict \in {"none", "success", "failure"}
  /\ (verdict = "none") = (pc # "done")

\* "Probe fails if ...": a probe succeeds exactly if its last answer came and
\* meets every rule of the module, whatever was read first and from whichever
\* reader; and the gauges blame the regular expressions, or CEL, exactly if
\* that check was made and failed (http.go:557-657, CONFIGURATION.md:157-183).
AnswerJudged ==
  pc = "done" =>
    /\ (verdict = "success") = (response # None /\ Acceptable(module, response))
    /\ (failedDueToRegex = 1) = (response # None /\ RegexFails(module, response))
    /\ (failedDueToCEL = 1) = (response # None /\ CELFails(module, response))

\* "Duration of http request by phase, summed over all redirects"
\* (http.go:292): no phase is negative; a phase that took time lies within its
\* own request and overlaps no other, but the answer of a request that was given
\* up may still begin before the durations are added (http.go:701). Where TLS is
\* used, the losing dial may end the connect phase late; nothing but its sign is
\* promised of that one.
PhasesMeasured ==
  LET loose(p) == p.phase = "connect" /\ traces[p.trip].tls
      late(p)  == p.phase = "processing" /\ p.trip = Last /\ response = None
  IN  \A p \in measured :
        /\ p.from <= p.to
        /\ p.from < p.to /\ ~loose(p) =>
             /\ trips[p.trip].begun <= p.from /\ p.from <= trips[p.trip].ended
             /\ p.to <= trips[p.trip].ended \/ late(p)
             /\ \A q \in measured \ {p} :
                  q.trip = p.trip /\ ~loose(q) => p.to <= q.from \/ q.to <= p.from
=============================================================================
