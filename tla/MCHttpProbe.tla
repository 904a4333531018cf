---------------------------- MODULE MCHttpProbe ----------------------------
(* HttpProbe for TLC: two servers that are probed by their addresses, and  *)
(* two hosts they redirect to.                                             *)
EXTENDS HttpProbe

CONSTANTS type, text, html, up, down, shop, sec, www, old, full

MCHeaders == {type}
MCValues == {text, html}
MCWords == {up, down}
MCJSON == {full}
MCHosts == {shop, sec, www, old}
MCStarts == {shop, sec}

Empty == [encoding |-> "identity", size |-> 0, words |-> {}, json |-> None]
Plain(words, json) == [encoding |-> "identity", size |-> 2, words |-> words, json |-> json]
Packed(encoding) == [encoding |-> encoding, size |-> 3, words |-> {up}, json |-> full]

Answer(status, values, body) ==
  [status |-> status, location |-> None, headers |-> [h \in MCHeaders |-> values],
   version |-> 1, body |-> body]
To(h, body) == [Answer(302, {}, body) EXCEPT !.location = h]

\* shop answers in every way the rules tell apart; the others redirect to each
\* other: www and old have two addresses, old speaks no TLS.
MCSite ==
  [h \in MCHosts |->
    CASE h = shop -> [https |-> FALSE, named |-> FALSE, dual |-> FALSE, answers |->
                      {To(old, Plain({up}, None)), To(old, Empty),
                       Answer(200, {text}, Plain({up}, full)),
                       Answer(200, {text, html}, Plain({up, down}, None)),
                       Answer(200, {}, Plain({up}, Odd)),
                       Answer(200, {}, Packed("gzip")), Answer(200, {}, Packed("br")),
                       Answer(500, {}, Plain({up}, full)),
                       [Answer(200, {text}, Empty) EXCEPT !.version = 2]}]
      [] h = sec -> [https |-> TRUE, named |-> FALSE, dual |-> FALSE, answers |->
                      {To(www, Empty), Answer(200, {}, Plain({up}, full))}]
      [] h = www -> [https |-> TRUE, named |-> TRUE, dual |-> TRUE, answers |->
                      {To(sec, Empty), To(old, Empty), Answer(200, {}, Plain({up}, full))}]
      [] h = old -> [https |-> FALSE, named |-> TRUE, dual |-> TRUE, answers |->
                      {To(www, Empty), Answer(200, {}, Plain({up}, full))}]]

Default ==
  [followRedirects |-> FALSE, validStatusCodes |-> {}, validHTTPVersions |-> {},
   headerMatches |-> {}, headerNotMatches |-> {}, compression |-> "", bodySizeLimit |-> 0,
   bodyMatches |-> {}, bodyNotMatches |-> {}, jsonMatches |-> None, jsonNotMatches |-> None,
   failIfSSL |-> FALSE, failIfNotSSL |-> FALSE]

Type(value, missing) == {[header |-> type, regexp |-> value, allowMissing |-> missing]}

\* One module follows redirects; the others judge the first answer.
MCModules ==
  {[Default EXCEPT !.followRedirects = TRUE, !.failIfNotSSL = TRUE],
   [Default EXCEPT !.failIfSSL = TRUE, !.bodySizeLimit = 2],
   [Default EXCEPT !.validStatusCodes = {200, 302}, !.headerMatches = Type(html, TRUE),
                   !.validHTTPVersions = {1}],
   [Default EXCEPT !.validStatusCodes = {200, 302}, !.headerNotMatches = Type(text, FALSE),
                   !.bodyNotMatches = {up}],
   [Default EXCEPT !.validStatusCodes = {200, 302}, !.bodyMatches = {down}],
   [Default EXCEPT !.headerMatches = Type(html, TRUE), !.bodyNotMatches = {up},
                   !.bodyMatches = {down}, !.compression = "gzip"],
   [Default EXCEPT !.validStatusCodes = {200, 302}, !.compression = "gzip"],
   [Default EXCEPT !.validStatusCodes = {200, 302}, !.compression = "br",
                   !.jsonNotMatches = full],
   [Default EXCEPT !.validStatusCodes = {302, 500}, !.compression = "br"],
   [Default EXCEPT !.compression = "other"],
   [Default EXCEPT !.validStatusCodes = {200, 302}, !.jsonMatches = full,
                   !.bodySizeLimit = 2],
   [Default EXCEPT !.jsonNotMatches = full]}

\* Regular expressions and CEL expressions for the same body.
BothRules == {[Default EXCEPT !.bodyNotMatches = {up}, !.jsonNotMatches = full]}
Followers == {[Default EXCEPT !.followRedirects = TRUE]}
=============================================================================
