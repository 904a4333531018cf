----------------------------- MODULE MCDnsProbe -----------------------------
(***************************************************************************)
(* Instances of DnsProbe for TLC: every combination of rules over two      *)
(* regular expressions for the answer, some for the other sections, and    *)
(* answers of up to two records.                                           *)
(***************************************************************************)
EXTENDS DnsProbe

Families == [four |-> "ip4", six |-> "ip6"]

Re(rrs) == [compiles |-> TRUE, of |-> rrs]
Malformed == [compiles |-> FALSE, of |-> {}]

NoRules == [matches |-> {}, allMatch |-> {}, notMatches |-> {}, noneMatches |-> {}]

Lists == {{}, {Re({"a", "soa1"})}, {Re({"a"}), Re({"b", "soa1"})}}

AnswerRules ==
  [matches : {{}, {Re({"b"})}}, allMatch : Lists, notMatches : Lists, noneMatches : Lists]
    \cup {[NoRules EXCEPT !.matches = {Malformed}], [NoRules EXCEPT !.noneMatches = {Malformed}]}

OtherRules ==
  { NoRules, [NoRules EXCEPT !.noneMatches = {Re({"a"})}], [NoRules EXCEPT !.allMatch = {Re({"a"})}] }

Default ==
  [preferred |-> "", fallback |-> TRUE, transport |-> "", dnsOverTLS |-> FALSE,
   tlsBroken |-> FALSE, source |-> "none", querySOA |-> TRUE,
   validRcodes |-> [given |-> FALSE, names |-> {}], validate |-> <<NoRules, NoRules, NoRules>>]

TheModules ==
  {[Default EXCEPT !.validate = <<v, NoRules, NoRules>>] : v \in AnswerRules}
    \cup {[Default EXCEPT !.validate = <<v, w, x>>] : v, w, x \in OtherRules}
    \cup {[Default EXCEPT !.validRcodes = [given |-> TRUE, names |-> l]] : l \in {{}, {"servfail"}, {"noerror", "typo"}}}
    \cup {[Default EXCEPT !.preferred = p, !.fallback = f, !.transport = t, !.dnsOverTLS = d,
                          !.tlsBroken = b, !.source = s] :
            p \in {"ip4", "ip6"}, f \in BOOLEAN, t \in {"", "tcp", "sctp"}, d \in BOOLEAN,
            b \in BOOLEAN, s \in {"none", "malformed"}}

TheTargets == {[port |-> p, ips |-> i] : p \in {"", "own"}, i \in {<<>>, <<"four">>, <<"four", "six">>}}

Answers == {<<>>} \cup {<<x>> : x \in {"a", "b", "soa1"}} \cup {<<x, y>> : x, y \in {"a", "b", "soa1"}}

TheResponses ==
  {[rcode |-> "noerror", sections |-> <<s, <<>>, <<>>>>] : s \in Answers}
    \cup {[rcode |-> "noerror", sections |-> <<s, t, u>>] : s, t, u \in {<<>>, <<"a">>, <<"b">>, <<"b", "a">>}}
    \cup {[rcode |-> "servfail", sections |-> <<<<>>, <<>>, <<>>>>]}
=============================================================================
