------------------------------ MODULE DnsProbe ------------------------------
(***************************************************************************)
(* One probe of the dns prober (prober/dns.go): the query is put together  *)
(* from the module, sent, and what comes back is judged by its code and    *)
(* then, section by section and record by record, by the four kinds of     *)
(* rule a validator may hold.                                              *)
(*                                                                         *)
(* A regular expression is the set of the records it matches, or one that  *)
(* does not compile, because validators are lists of strings that nobody   *)
(* compiles before they are used. query_class and query_type are checked   *)
(* when the configuration is loaded (config.go:566-575).                   *)
(***************************************************************************)
EXTENDS TargetIP, FiniteSets

CONSTANTS
  Modules,        \* dns modules
  Targets,        \* what is probed: a port or none, and what its name resolves to
  Records,        \* resource records
  SOA,            \* those of type SOA
  Responses,      \* what servers answer
  Rcodes,         \* names of response codes, Unknown is none of them
  NoError, Unknown,
  None

Regexp == [compiles : BOOLEAN, of : SUBSET Records]

Validator == [matches : SUBSET Regexp, allMatch : SUBSET Regexp,
              notMatches : SUBSET Regexp, noneMatches : SUBSET Regexp]

Module ==
  [preferred : {"", "ip4", "ip6"}, fallback : BOOLEAN,
   transport : {"", "udp", "tcp", "sctp"}, dnsOverTLS : BOOLEAN, tlsBroken : BOOLEAN,
   source : {"none", "address", "malformed"}, querySOA : BOOLEAN,
   validRcodes : [given : BOOLEAN, names : SUBSET (Rcodes \cup {Unknown})],
   validate : [1 .. 3 -> Validator]]

Target == [port : {"", "own"}, ips : Seq(Addresses)]

\* sections: answer, authority and additional records.
Response == [rcode : Rcodes, sections : [1 .. 3 -> Seq(Records)]]

ASSUME DnsAssumption ==
  /\ Modules \subseteq Module
  /\ Targets \subseteq Target
  /\ Responses \subseteq Response
  /\ SOA \subseteq Records
  /\ NoError \in Rcodes /\ Unknown \notin Rcodes
  /\ None \notin Response /\ None \notin Records

VARIABLES
  module, target,  \* what is to be probed, and how
  pc,              \* "start", "exchange", "rcode", "section", "records" or "done"
  query,           \* how the query was sent, None before
  response,        \* what came back, None before
  succeeded,       \* probe_dns_query_succeeded
  counts,          \* probe_dns_answer_rrs, .._authority_rrs and .._additional_rrs
  serial,          \* the SOA record probe_dns_serial is taken from
  section, at,     \* the record validRRs looks at
  anyMatch, allMatch,
  verdict          \* "none", "success" or "failure"

settings == <<module, target>>
metrics == <<succeeded, counts, serial>>
place == <<section, at, anyMatch, allMatch>>

vars == <<settings, pc, query, response, metrics, place, verdict>>

Init ==
  /\ module \in Modules
  /\ target \in Targets
  /\ pc = "start" /\ query = None /\ response = None
  /\ succeeded = 0 /\ counts = [s \in 1 .. 3 |-> 0] /\ serial = None
  /\ section = 1 /\ at = 1 /\ anyMatch = FALSE /\ allMatch = TRUE
  /\ verdict = "none"

Return(v) ==
  /\ pc' = "done"
  /\ verdict' = v

-----------------------------------------------------------------------------
(* The query.                                                              *)

Transport == IF module.transport = "" THEN "udp" ELSE module.transport

IP == ChooseProtocol(module.preferred, module.fallback, target.ips)

\* A target without a port gets that of the protocol.
Port ==
  IF target.port # "" THEN target.port ELSE IF module.dnsOverTLS THEN "853" ELSE "53"

\* No check before the exchange fails.
Sendable ==
  /\ Transport \in {"udp", "tcp"}
  /\ IP # NoIP
  /\ module.dnsOverTLS => Transport = "tcp" /\ ~module.tlsBroken
  /\ module.source # "malformed"

Send ==
  /\ pc = "start"
  /\ Sendable
  /\ query' = [transport |-> Transport, family |-> FamilyOf[IP], tls |-> module.dnsOverTLS,
               ip |-> IP, port |-> Port]
  /\ pc' = "exchange"
  /\ UNCHANGED <<settings, response, metrics, place, verdict>>

\* A name may also fail to resolve in time.
Refuse ==
  /\ pc = "start"
  /\ Return("failure")
  /\ UNCHANGED <<settings, query, response, metrics, place>>

\* Nobody answers before the deadline, or not in DNS.
ExchangeFails ==
  /\ pc = "exchange"
  /\ Return("failure")
  /\ UNCHANGED <<settings, query, response, metrics, place>>

\* The gauge of the serial is set for every SOA record and keeps the last.
SerialOf(answer) ==
  LET soas == {j \in DOMAIN answer : answer[j] \in SOA}
  IN  IF ~module.querySOA \/ soas = {} THEN None
      ELSE answer[CHOOSE j \in soas : \A k \in soas : k <= j]

Answered(r) ==
  /\ pc = "exchange"
  /\ response' = r
  /\ succeeded' = 1
  /\ counts' = [s \in 1 .. 3 |-> Len(r.sections[s])]
  /\ serial' = SerialOf(r.sections[1])
  /\ pc' = "rcode"
  /\ UNCHANGED <<settings, query, place, verdict>>

-----------------------------------------------------------------------------
(* The answer.                                                             *)

\* A name in the list that is no response code fails the probe, whatever the
\* server said; a list that is there and empty admits no code.
ValidRcode(rcode) ==
  IF ~module.validRcodes.given THEN rcode = NoError
  ELSE Unknown \notin module.validRcodes.names /\ rcode \in module.validRcodes.names

CheckRcode ==
  /\ pc = "rcode"
  /\ IF ValidRcode(response.rcode) THEN pc' = "section" /\ UNCHANGED verdict
                                   ELSE Return("failure")
  /\ UNCHANGED <<settings, query, response, metrics, place>>

Rules == module.validate[section]
RRs == response.sections[section]

\* Faulty variant: what was found in one section stays for the next.
BeginSectionCarryOn ==
  /\ pc = "section"
  /\ at' = 1
  /\ IF RRs = <<>> /\ (Rules.notMatches # {} \/ Rules.noneMatches # {})
     THEN Return("failure")
     ELSE pc' = "records" /\ UNCHANGED verdict
  /\ UNCHANGED <<settings, query, response, metrics, section, anyMatch, allMatch>>

\* validRRs is called: with no records only two of the rules are decided here.
BeginSection ==
  /\ pc = "section"
  /\ at' = 1 /\ anyMatch' = FALSE /\ allMatch' = TRUE
  /\ IF RRs = <<>> /\ (Rules.notMatches # {} \/ Rules.noneMatches # {})
     THEN Return("failure")
     ELSE pc' = "records" /\ UNCHANGED verdict
  /\ UNCHANGED <<settings, query, response, metrics, section>>

\* A regular expression does not compile, or the record breaks a rule of which
\* one record decides.
Breaks(rr) ==
  \/ \E re \in Rules.matches \cup Rules.allMatch \cup Rules.notMatches \cup Rules.noneMatches :
       ~re.compiles
  \/ \E re \in Rules.matches : rr \in re.of
  \/ \E re \in Rules.notMatches : rr \notin re.of

CheckRecord ==
  /\ pc = "records"
  /\ at <= Len(RRs)
  /\ IF Breaks(RRs[at])
     THEN Return("failure") /\ UNCHANGED <<at, anyMatch, allMatch>>
     ELSE /\ allMatch' = (allMatch /\ \A re \in Rules.allMatch : RRs[at] \in re.of)
          /\ anyMatch' = (anyMatch \/ \E re \in Rules.noneMatches : RRs[at] \in re.of)
          /\ at' = at + 1
          /\ UNCHANGED <<pc, verdict>>
  /\ UNCHANGED <<settings, query, response, metrics, section>>

\* Faulty variant: a fourth section.
EndSectionOffByOne ==
  /\ pc = "records"
  /\ at > Len(RRs)
  /\ CASE (Rules.allMatch # {} /\ ~allMatch) \/ (Rules.noneMatches # {} /\ ~anyMatch) ->
            Return("failure") /\ UNCHANGED section
       [] OTHER ->
            IF section <= 3 THEN pc' = "section" /\ section' = section + 1 /\ UNCHANGED verdict
                           ELSE Return("success") /\ UNCHANGED section
  /\ UNCHANGED <<settings, query, response, metrics, at, anyMatch, allMatch>>

\* The end of validRRs, which fails the probe when not all records match
\* fail_if_all_match_regexp.
EndSection ==
  /\ pc = "records"
  /\ at > Len(RRs)
  /\ CASE (Rules.allMatch # {} /\ ~allMatch) \/ (Rules.noneMatches # {} /\ ~anyMatch) ->
            Return("failure") /\ UNCHANGED section
       [] OTHER ->
            IF section < 3 THEN pc' = "section" /\ section' = section + 1 /\ UNCHANGED verdict
                           ELSE Return("success") /\ UNCHANGED section
  /\ UNCHANGED <<settings, query, response, metrics, at, anyMatch, allMatch>>

Next ==
  \/ Send \/ Refuse
  \/ \E r \in Responses : Answered(r)
  \/ ExchangeFails \/ CheckRcode
  \/ BeginSection \/ CheckRecord \/ EndSection

Spec == Init /\ [][Next]_vars

-----------------------------------------------------------------------------
(* What the rules of a section ask for, said without a loop.               *)

Meets(rrs, v) ==
  LET among == {rrs[j] : j \in DOMAIN rrs}
      regexps == v.matches \cup v.allMatch \cup v.notMatches \cup v.noneMatches
  IN  /\ among # {} => \A re \in regexps : re.compiles
      /\ \A re \in v.matches : among \cap re.of = {}
      /\ \A re \in v.allMatch : among \subseteq re.of
      /\ \A re \in v.notMatches : among # {} /\ among \subseteq re.of
      /\ v.noneMatches # {} => \E re \in v.noneMatches : among \cap re.of # {}

Acceptable(r) ==
  /\ ValidRcode(r.rcode)
  /\ \A s \in 1 .. 3 : Meets(r.sections[s], module.validate[s])

-----------------------------------------------------------------------------
(* Properties.                                                             *)

\* The types of the variables.
TypeOK ==
  /\ module \in Modules /\ target \in Targets
  /\ pc \in {"start", "exchange", "rcode", "section", "records", "done"}
  /\ query = None \/
       /\ query.transport \in {"udp", "tcp"} /\ query.tls \in BOOLEAN
       /\ query.port \in {"own", "53", "853"} /\ query.ip \in Addresses
  /\ response \in Responses \cup {None}
  /\ succeeded \in {0, 1} /\ counts \in [1 .. 3 -> Nat] /\ serial \in SOA \cup {None}
  /\ section \in 1 .. 3 /\ at \in Nat \ {0}
  /\ anyMatch \in BOOLEAN /\ allMatch \in BOOLEAN
  /\ verdict \in {"none", "success", "failure"}
  /\ (verdict = "none") = (pc # "done")

\* A probe succeeds exactly if an answer came whose code is valid and whose
\* three sections each meet their own rules, although the flags of the loops
\* are set record by record and sections may be empty (dns.go:32-131, 297-314);
\* and however it ends, probe_dns_query_succeeded says whether one came.
AnswerJudged ==
  pc = "done" =>
    /\ (verdict = "success") = (response # None /\ Acceptable(response))
    /\ (succeeded = 1) = (response # None)
=============================================================================
