------------------------------ MODULE IcmpEcho ------------------------------
(***************************************************************************)
(* The icmp prober (prober/icmp.go): concurrent probes on Linux, each with *)
(* a socket of its own, that share the counter of sequence numbers and a   *)
(* network on which packets are lost, delayed, duplicated and reordered.   *)
(*                                                                         *)
(* A socket is "ping" (unprivileged: the kernel chooses the ID and         *)
(* delivers the replies that carry it) or "raw" (privileged: it is given   *)
(* every ICMP packet that arrives for its family). The payload, the same   *)
(* text in every probe, TTLs and the metrics are left out.                 *)
(***************************************************************************)
EXTENDS Integers, FiniteSets, TargetIP

CONSTANTS
  Slots,        \* probes that can run at one time
  Asks,         \* a target's resolution with what the module says
  Local,        \* the addresses of the exporter's own host
  AnswersFrom,  \* AnswersFrom[a]: the addresses a host may answer from, sent to a
  Foreign,      \* packets of other processes that may arrive at any time
  IDs,          \* what getRandomICMPID may return
  KernelIDs,    \* what the kernel may choose for a ping socket
  SeqSpace,     \* 2^16, scaled down
  MaxProbes     \* bound: probes in a behaviour

\* Packets of more probes than there are sequence numbers are never under way
\* together; IDs drawn at random are not those of other processes.
ASSUME EchoAssumption ==
  /\ SeqSpace \in Nat \ {0} /\ MaxProbes \in 0 .. SeqSpace
  /\ \A q \in Asks : q.ips \in Seq(Addresses) /\ q.fallback \in BOOLEAN
  /\ \A a \in Addresses : AnswersFrom[a] \subseteq Addresses
  /\ \A p \in Foreign : /\ p.of = 0 /\ p.src \in Addresses /\ p.type \in {"reply", "other"}
                        /\ p.type = "reply" => p.id \notin IDs \cup KernelIDs

VARIABLES
  icmpSequence,
  start,      \* history: its random offset
  issued,     \* history: how many probes have taken a number
  pc,         \* "idle", "open", "identify", "write", "read", "done"
  ask,        \* what the probe is about
  dst,        \* dstIPAddr
  socket,     \* "none", "ping" or "raw"
  kernelID,   \* of a ping socket
  number,     \* history: which probe of the behaviour this is
  id, seq,    \* body.ID and body.Seq
  success,
  accepted,   \* history: the packet taken for the reply
  missed,     \* history: the reply was read and passed over
  sent,       \* the requests on their way
  net         \* the packets that have arrived here, once or more

probe == <<ask, dst, socket, kernelID, number, id, seq, success, accepted, missed>>
vars == <<icmpSequence, start, issued, pc, probe, sent, net>>

NoPacket == [type |-> "none", src |-> NoIP, id |-> 0, seq |-> 0, check |-> <<>>, of |-> 0]
NoAsk == [protocol |-> "", fallback |-> FALSE, ips |-> <<>>, df |-> FALSE, badSource |-> FALSE]

Init ==
  /\ icmpSequence \in 0 .. SeqSpace - 1
  /\ start = icmpSequence /\ issued = 0
  /\ pc = [r \in Slots |-> "idle"]
  /\ ask = [r \in Slots |-> NoAsk]
  /\ dst = [r \in Slots |-> NoIP]
  /\ socket = [r \in Slots |-> "none"]
  /\ kernelID = [r \in Slots |-> 0]
  /\ number = [r \in Slots |-> 0]
  /\ id = [r \in Slots |-> 0]
  /\ seq = [r \in Slots |-> 0]
  /\ success = [r \in Slots |-> FALSE]
  /\ accepted = [r \in Slots |-> NoPacket]
  /\ missed = [r \in Slots |-> FALSE]
  /\ sent = {} /\ net = Foreign

-----------------------------------------------------------------------------
End(r, s) ==
  /\ pc' = [pc EXCEPT ![r] = "done"]
  /\ success' = [success EXCEPT ![r] = s]

\* The address is chosen, and the source address parsed.
Resolve(r, q) ==
  /\ pc[r] = "idle" /\ issued < MaxProbes
  /\ ask' = [ask EXCEPT ![r] = q]
  /\ dst' = [dst EXCEPT ![r] = ChooseProtocol(q.protocol, q.fallback, q.ips)]
  /\ IF dst'[r] = NoIP \/ q.badSource
     THEN End(r, FALSE)
     ELSE pc' = [pc EXCEPT ![r] = "open"] /\ UNCHANGED success
  /\ UNCHANGED <<icmpSequence, start, issued, socket, kernelID, number, id, seq, accepted,
                 missed, sent, net>>

\* The header of a packet can be written on a raw socket of IPv4 only.
NeedsHeader(r) == FamilyOf[dst[r]] = "ip4" /\ ask[r].df

OpenPing(r, k) ==
  /\ pc[r] = "open" /\ ~NeedsHeader(r)
  /\ \A s \in Slots : socket[s] = "ping" => kernelID[s] # k
  /\ socket' = [socket EXCEPT ![r] = "ping"]
  /\ kernelID' = [kernelID EXCEPT ![r] = k]
  /\ pc' = [pc EXCEPT ![r] = "identify"]
  /\ UNCHANGED <<icmpSequence, start, issued, ask, dst, number, id, seq, success, accepted,
                 missed, sent, net>>

\* Unprivileged sockets are not allowed here, or will not do.
OpenRaw(r) ==
  /\ pc[r] = "open"
  /\ socket' = [socket EXCEPT ![r] = "raw"]
  /\ pc' = [pc EXCEPT ![r] = "identify"]
  /\ UNCHANGED <<icmpSequence, start, issued, ask, dst, kernelID, number, id, seq, success,
                 accepted, missed, sent, net>>

OpenFails(r) ==
  /\ pc[r] = "open"
  /\ End(r, FALSE)
  /\ UNCHANGED <<icmpSequence, start, issued, ask, dst, socket, kernelID, number, id, seq,
                 accepted, missed, sent, net>>

\* Faulty variant: a counter that does not wrap.
GetICMPSequenceWide == icmpSequence + 1

\* getICMPSequence, under its mutex: icmpSequence++ on an uint16.
GetICMPSequence == IF icmpSequence = SeqSpace - 1 THEN 0 ELSE icmpSequence + 1

Identify(r, i) ==
  /\ pc[r] = "identify" /\ issued < MaxProbes
  /\ id' = [id EXCEPT ![r] = i]
  /\ icmpSequence' = GetICMPSequence
  /\ seq' = [seq EXCEPT ![r] = icmpSequence']
  /\ issued' = issued + 1
  /\ number' = [number EXCEPT ![r] = issued + 1]
  /\ pc' = [pc EXCEPT ![r] = "write"]
  /\ UNCHANGED <<start, ask, dst, socket, kernelID, success, accepted, missed, sent, net>>

\* ICMPv6 sums over the addresses too.
Checksum(type, src, i, n) ==
  IF FamilyOf[src] = "ip4" THEN <<type, i, n>> ELSE <<type, i, n, src>>

Packet(type, src, i, n, of) ==
  [type |-> type, src |-> src, id |-> i, seq |-> n, check |-> Checksum(type, src, i, n), of |-> of]

\* The ID with which the request leaves.
WireID(r) == IF socket[r] = "ping" THEN kernelID[r] ELSE id[r]

\* Raw sockets of a host that pings itself are given its requests, too.
Write(r) ==
  /\ pc[r] = "write"
  /\ sent' = sent \cup {[dst |-> dst[r], id |-> WireID(r), seq |-> seq[r], of |-> number[r]]}
  /\ net' = IF dst[r] \in Local
            THEN net \cup {Packet("request", dst[r], WireID(r), seq[r], number[r])} ELSE net
  /\ pc' = [pc EXCEPT ![r] = "read"]
  /\ UNCHANGED <<icmpSequence, start, issued, probe>>

WriteFails(r) ==
  /\ pc[r] = "write"
  /\ End(r, FALSE)
  /\ UNCHANGED <<icmpSequence, start, issued, ask, dst, socket, kernelID, number, id, seq,
                 accepted, missed, sent, net>>

-----------------------------------------------------------------------------
(* Waiting for the reply.                                                  *)

\* The packets that the kernel gives to a socket.
Receives(r, p) ==
  /\ FamilyOf[p.src] = FamilyOf[dst[r]]
  /\ socket[r] = "ping" => p.type = "reply" /\ p.id = kernelID[r]

IdUnknown(r) == socket[r] = "ping"

ChecksumUnknown(r) == IdUnknown(r) \/ FamilyOf[dst[r]] = "ip6"

\* wb: the message as it was sent, but for its type, and for what is not known.
Expected(r) ==
  [type |-> "reply", id |-> IF IdUnknown(r) THEN 0 ELSE id[r], seq |-> seq[r],
   check |-> IF ChecksumUnknown(r) THEN <<>> ELSE Checksum("reply", dst[r], id[r], seq[r])]

\* Faulty variant: the checksum is cleared when the ID is not known, only.
ClearedForPing(r, p) ==
  [type |-> p.type, id |-> IF IdUnknown(r) THEN 0 ELSE p.id, seq |-> p.seq,
   check |-> IF IdUnknown(r) THEN <<>> ELSE p.check]

\* rb: what is not known is cleared in the packet, too.
Cleared(r, p) ==
  [type |-> p.type, id |-> IF IdUnknown(r) THEN 0 ELSE p.id, seq |-> p.seq,
   check |-> IF ChecksumUnknown(r) THEN <<>> ELSE p.check]

\* Faulty variant: a reply from any address will do.
MatchesFromAnywhere(r, p) == Cleared(r, p) = Expected(r)

Matches(r, p) == p.src = dst[r] /\ Cleared(r, p) = Expected(r)

\* The reply of the target to the request of this very probe.
Own(r, p) == p.type = "reply" /\ p.src = dst[r] /\ p.of = number[r]

\* A packet that does not match is passed over. A read that fails otherwise
\* than by its deadline is repeated: it changes nothing.
Read(r, p) ==
  /\ pc[r] = "read"
  /\ p \in net /\ Receives(r, p)
  /\ IF Matches(r, p)
     THEN /\ End(r, TRUE)
          /\ accepted' = [accepted EXCEPT ![r] = p]
          /\ UNCHANGED missed
     ELSE /\ missed' = [missed EXCEPT ![r] = @ \/ Own(r, p)]
          /\ UNCHANGED <<pc, success, accepted>>
  /\ UNCHANGED <<icmpSequence, start, issued, ask, dst, socket, kernelID, number, id, seq,
                 sent, net>>

ReadTimesOut(r) ==
  /\ pc[r] = "read"
  /\ End(r, FALSE)
  /\ UNCHANGED <<icmpSequence, start, issued, ask, dst, socket, kernelID, number, id, seq,
                 accepted, missed, sent, net>>

\* The deferred calls close the socket, and the probe has returned.
Return(r) ==
  /\ pc[r] = "done"
  /\ pc' = [pc EXCEPT ![r] = "idle"]
  /\ ask' = [ask EXCEPT ![r] = NoAsk]
  /\ dst' = [dst EXCEPT ![r] = NoIP]
  /\ socket' = [socket EXCEPT ![r] = "none"]
  /\ kernelID' = [kernelID EXCEPT ![r] = 0]
  /\ number' = [number EXCEPT ![r] = 0]
  /\ id' = [id EXCEPT ![r] = 0]
  /\ seq' = [seq EXCEPT ![r] = 0]
  /\ success' = [success EXCEPT ![r] = FALSE]
  /\ accepted' = [accepted EXCEPT ![r] = NoPacket]
  /\ missed' = [missed EXCEPT ![r] = FALSE]
  /\ UNCHANGED <<icmpSequence, start, issued, sent, net>>

-----------------------------------------------------------------------------
\* A host answers, perhaps from another of its addresses. An answer that stays
\* in net may be delivered at any time, any number of times, or never.
Answer(q, src) ==
  /\ q \in sent /\ src \in AnswersFrom[q.dst]
  /\ net' = net \cup {Packet("reply", src, q.id, q.seq, q.of)}
  /\ UNCHANGED <<icmpSequence, start, issued, pc, probe, sent>>

Next ==
  \/ \E r \in Slots :
       \/ \E q \in Asks : Resolve(r, q)
       \/ \E k \in KernelIDs : OpenPing(r, k)
       \/ OpenRaw(r) \/ OpenFails(r)
       \/ \E i \in IDs : Identify(r, i)
       \/ Write(r) \/ WriteFails(r)
       \/ \E p \in net : Read(r, p)
       \/ ReadTimesOut(r) \/ Return(r)
  \/ \E q \in sent, src \in Addresses : Answer(q, src)

Spec == Init /\ [][Next]_vars

-----------------------------------------------------------------------------
(* Properties.                                                             *)

PacketTypes == {"request", "reply", "other"}

\* The types of the variables; ping sockets have IDs of their own.
TypeOK ==
  /\ icmpSequence \in 0 .. SeqSpace - 1 /\ issued \in 0 .. MaxProbes
  /\ pc \in [Slots -> {"idle", "open", "identify", "write", "read", "done"}]
  /\ ask \in [Slots -> Asks \cup {NoAsk}]
  /\ dst \in [Slots -> Addresses \cup {NoIP}]
  /\ socket \in [Slots -> {"none", "ping", "raw"}]
  /\ kernelID \in [Slots -> KernelIDs \cup {0}] /\ id \in [Slots -> IDs \cup {0}]
  /\ seq \in [Slots -> 0 .. SeqSpace - 1] /\ number \in [Slots -> 0 .. MaxProbes]
  /\ success \in [Slots -> BOOLEAN] /\ missed \in [Slots -> BOOLEAN]
  /\ accepted \in [Slots -> net \cup {NoPacket}]
  /\ \A q \in sent : q.dst \in Addresses /\ q.seq \in 0 .. SeqSpace - 1 /\ q.of \in 1 .. issued
  /\ \A p \in net : p.src \in Addresses /\ p.type \in PacketTypes
  /\ \A r, s \in Slots :
       r # s /\ socket[r] = "ping" /\ socket[s] = "ping" => kernelID[r] # kernelID[s]

\* A probe succeeds only if the target has answered the request of this very
\* probe from the address that was probed. A reply to another probe, at work
\* or long over, with the same ID or the same kernel's ID, an answer from
\* another address, the request itself and what other processes are sent do
\* not pass (icmp.go:269-286 and 346-360). And the address is the one the user
\* asked for (CONFIGURATION.md:45-50).
OwnReply ==
  \A r \in Slots : success[r] =>
    /\ Own(r, accepted[r])
    /\ RightAddress(ask[r].protocol, ask[r].fallback, ask[r].ips, dst[r])

\* The reply is recognised when it is read, whatever is read before it: what
\* the exporter cannot know of the packet is cleared on both sides
\* (icmp.go:273-287 and 349-359).
NotOverlooked == \A r \in Slots : ~missed[r]
=============================================================================
