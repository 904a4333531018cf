------------------------------ MODULE TargetIP ------------------------------
(***************************************************************************)
(* The choice of an address for a target (prober/utils.go), as every       *)
(* prober that takes a host name makes it. A resolution is a sequence of   *)
(* addresses, empty when it fails.                                         *)
(***************************************************************************)
EXTENDS Naturals, Sequences, SequencesExt

CONSTANTS
  Addresses,
  FamilyOf,   \* FamilyOf[a]: "ip4" or "ip6"
  NoIP

ASSUME AddressAssumption ==
  FamilyOf \in [Addresses -> {"ip4", "ip6"}] /\ NoIP \notin Addresses

\* The default is ip6; whatever is no ip6 is taken for ip4.
Preferred(protocol) == IF protocol \in {"", "ip6"} THEN "ip6" ELSE "ip4"

\* Without fallback the resolver is asked for one family. With it, the first
\* address of the preferred family is taken, or else the last of the others.
ChooseProtocol(protocol, fallback, ips) ==
  LET first == SelectInSeq(ips, LAMBDA a : FamilyOf[a] = Preferred(protocol))
  IN  CASE first # 0 -> ips[first]
        [] first = 0 /\ fallback /\ ips # <<>> -> Last(ips)
        [] OTHER -> NoIP

\* What the documentation promises of the address (CONFIGURATION.md:45-50).
RightAddress(protocol, fallback, ips, a) ==
  /\ a \in Range(ips)
  /\ FamilyOf[a] # Preferred(protocol) =>
       fallback /\ \A b \in Range(ips) : FamilyOf[b] # Preferred(protocol)
=============================================================================
