----------------------------- MODULE MCIcmpEcho -----------------------------
(***************************************************************************)
(* Instance of IcmpEcho for TLC: a host with an address of each family,    *)
(* one of which answers from another address, the exporter's own host, and *)
(* the packets of another process on the raw sockets.                      *)
(***************************************************************************)
EXTENDS IcmpEcho

AllAddresses == {"a4", "a6", "b4", "me4"}
Families == [a \in AllAddresses |-> IF a = "a6" THEN "ip6" ELSE "ip4"]
From == [a \in AllAddresses |-> IF a = "a4" THEN {"a4", "b4"} ELSE {a}]

Ask(protocol, fallback, ips, df) ==
  [protocol |-> protocol, fallback |-> fallback, ips |-> ips, df |-> df, badSource |-> FALSE]

\* A choice of either family, fallback with and without success, a fixed
\* family that is missing, the own host, a source address that does not parse.
SomeAsks == {
  Ask("ip4", TRUE, <<"a6", "a4">>, TRUE), Ask("", TRUE, <<"a4", "a6">>, FALSE),
  Ask("", TRUE, <<"b4", "a4">>, FALSE), Ask("ip6", FALSE, <<"a4">>, FALSE),
  Ask("ip4", FALSE, <<"me4">>, FALSE),
  [Ask("ip6", TRUE, <<"a6">>, FALSE) EXCEPT !.badSource = TRUE] }

Others == {
  [type |-> "other", src |-> "a4", id |-> 1, seq |-> 0, check |-> <<>>, of |-> 0],
  [type |-> "reply", src |-> "a4", id |-> 9, seq |-> 0, check |-> <<"reply", 9, 0>>, of |-> 0] }
=============================================================================
