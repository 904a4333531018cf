--------------------------- MODULE IcmpEchoProofs ---------------------------
(***************************************************************************)
(* Proofs about IcmpEcho, for any targets, modules, probes, networks and   *)
(* size of the sequence numbers.                                           *)
(***************************************************************************)
EXTENDS IcmpEcho, WellFoundedInduction, SequenceTheorems, TLAPS

-----------------------------------------------------------------------------
(* The choice of the address.                                              *)

LEMMA LeastIndex ==
  ASSUME NEW T \in SUBSET Nat, T # {}
  PROVE  \E k \in T : \A j \in T : k <= j
<1> DEFINE R == {ss \in Nat \X Nat : ss[1] < ss[2]}
<1>1. IsWellFoundedOn(R, Nat)
  BY NatLessThanWellFounded DEF OpToRel
<1> HIDE DEF R
<1>2. PICK k \in T : \A j \in T : ~(<<j, k>> \in R)
  BY <1>1, WFMin
<1>3. \A j \in T : ~(j < k)
  BY <1>2 DEF R
<1> QED
  BY <1>3

\* The address that is chosen is the one the documentation promises.
LEMMA ChosenAddress ==
  ASSUME NEW protocol, NEW fallback \in BOOLEAN, NEW ips \in Seq(Addresses),
         ChooseProtocol(protocol, fallback, ips) # NoIP
  PROVE  /\ ChooseProtocol(protocol, fallback, ips) \in Addresses
         /\ RightAddress(protocol, fallback, ips, ChooseProtocol(protocol, fallback, ips))
<1> DEFINE I == {i \in 1 .. Len(ips) : FamilyOf[ips[i]] = Preferred(protocol)}
           first == IF I # {} THEN Min(I) ELSE 0
           chosen == CASE first # 0 -> ips[first]
                       [] first = 0 /\ fallback /\ ips # <<>> -> ips[Len(ips)]
                       [] OTHER -> NoIP
<1>1. ChooseProtocol(protocol, fallback, ips) = chosen
  BY DEF ChooseProtocol, SelectInSeq, Last
<1>2. Len(ips) \in Nat /\ DOMAIN ips = 1 .. Len(ips) /\ \A i \in 1 .. Len(ips) : ips[i] \in Addresses
  BY LenProperties
<1>3. I # {} => first \in I /\ first # 0
  <2>1. I \in SUBSET Nat
    BY <1>2
  <2>2. I # {} => \E k \in I : \A j \in I : k <= j
    BY <2>1, LeastIndex
  <2>3. I # {} => Min(I) \in I
    BY <2>2 DEF Min
  <2>4. 0 \notin I
    BY <1>2
  <2>5. QED
    BY <2>3, <2>4
<1>4. Range(ips) = {ips[i] : i \in 1 .. Len(ips)}
  BY <1>2 DEF Range
<1>5. CASE I # {}
  <2>1. chosen = ips[first] /\ first \in I
    BY <1>3, <1>5
  <2>2. chosen \in Range(ips) /\ FamilyOf[chosen] = Preferred(protocol)
    BY <1>4, <2>1
  <2>3. QED
    BY <1>1, <1>2, <2>1, <2>2 DEF RightAddress
<1>6. CASE I = {}
  <2>1. first = 0
    BY <1>6
  <2>2. chosen = IF fallback /\ ips # <<>> THEN ips[Len(ips)] ELSE NoIP
    BY <2>1
  <2>3. fallback /\ ips # <<>> /\ chosen = ips[Len(ips)]
    BY <1>1, <2>2
  <2>4. Len(ips) \in 1 .. Len(ips)
    <3>1. Len(ips) # 0
      BY <2>3, EmptySeq
    <3>2. QED
      BY <1>2, <3>1
  <2>5. chosen \in Range(ips) /\ chosen \in Addresses
    BY <1>2, <1>4, <2>3, <2>4
  <2>6. \A b \in Range(ips) : FamilyOf[b] # Preferred(protocol)
    BY <1>4, <1>6
  <2>7. QED
    BY <1>1, <2>3, <2>5, <2>6 DEF RightAddress
<1>7. QED
  BY <1>5, <1>6

-----------------------------------------------------------------------------
(* Types.                                                                  *)

\* What the types need beyond TypeOK.
Sound(r) ==
  /\ pc[r] \in {"open", "identify", "write", "read"} => dst[r] \in Addresses
  /\ pc[r] \in {"write", "read"} => number[r] \in 1 .. issued
  /\ socket[r] = "ping" => kernelID[r] \in KernelIDs

\* No number stands for a missing address, an ID or the next number of none.
LEMMA SequenceType ==
  ASSUME icmpSequence \in 0 .. SeqSpace - 1
  PROVE  GetICMPSequence \in 0 .. SeqSpace - 1
  BY EchoAssumption DEF GetICMPSequence

LEMMA InitTypes == Init => TypeOK /\ \A r \in Slots : Sound(r)
<1> SUFFICES ASSUME Init PROVE TypeOK /\ \A r \in Slots : Sound(r)
  OBVIOUS
<1>1. issued \in 0 .. MaxProbes /\ 0 \in 0 .. MaxProbes /\ 0 \in 0 .. SeqSpace - 1
  BY EchoAssumption DEF Init
<1>2. \A p \in net : p.src \in Addresses /\ p.type \in PacketTypes
  <2>1. \A p \in Foreign : p.src \in Addresses /\ p.type \in {"reply", "other"}
    BY EchoAssumption
  <2>2. net = Foreign
    BY DEF Init
  <2>3. QED
    BY <2>1, <2>2 DEF PacketTypes
<1>3. accepted \in [Slots -> net \cup {NoPacket}] /\ ask \in [Slots -> Asks \cup {NoAsk}]
  BY DEF Init
<1>4. QED
  BY <1>1, <1>2, <1>3 DEF Init, TypeOK, Sound

\* Every step keeps the types.
LEMMA NextTypes == TypeOK /\ (\A r \in Slots : Sound(r)) /\ [Next]_vars
                     => TypeOK' /\ (\A r \in Slots : Sound(r))'
<1> SUFFICES ASSUME TypeOK, \A r \in Slots : Sound(r), [Next]_vars
             PROVE  TypeOK' /\ (\A r \in Slots : Sound(r))'
  OBVIOUS
<1>1. ASSUME NEW r \in Slots, NEW q \in Asks, Resolve(r, q)
      PROVE  TypeOK' /\ (\A s \in Slots : Sound(s))'
  <2> DEFINE a == ChooseProtocol(q.protocol, q.fallback, q.ips)
  <2>1. a \in Addresses \cup {NoIP}
    <3>1. q.ips \in Seq(Addresses) /\ q.fallback \in BOOLEAN
      BY EchoAssumption
    <3>2. QED
      BY <3>1, ChosenAddress
  <2> HIDE DEF a
  <2>2. dst' = [dst EXCEPT ![r] = a] /\ dst'[r] = a
    BY <1>1 DEF Resolve, TypeOK, a
  <2>3. TypeOK'
    BY <1>1, <2>1, <2>2 DEF Resolve, End, TypeOK
  <2>4. Sound(r)'
    BY <1>1, <2>1, <2>2 DEF Resolve, End, TypeOK, Sound
  <2>5. ASSUME NEW s \in Slots, s # r PROVE Sound(s)'
    BY <1>1, <2>2, <2>5 DEF Resolve, End, TypeOK, Sound
  <2>6. QED
    BY <2>3, <2>4, <2>5
<1>2. ASSUME NEW r \in Slots, NEW k \in KernelIDs, OpenPing(r, k)
      PROVE  TypeOK' /\ (\A s \in Slots : Sound(s))'
  <2>1. socket' = [socket EXCEPT ![r] = "ping"] /\ kernelID' = [kernelID EXCEPT ![r] = k]
        /\ \A s \in Slots : socket[s] = "ping" => kernelID[s] # k
    BY <1>2 DEF OpenPing
  <2>2. \A s, t \in Slots : s # t /\ socket'[s] = "ping" /\ socket'[t] = "ping"
                              => kernelID'[s] # kernelID'[t]
    BY <2>1 DEF TypeOK
  <2>3. TypeOK'
    BY <1>2, <2>1, <2>2 DEF OpenPing, TypeOK
  <2>4. QED
    BY <1>2, <2>3 DEF OpenPing, TypeOK, Sound
<1>3. ASSUME NEW r \in Slots, OpenRaw(r)
      PROVE  TypeOK' /\ (\A s \in Slots : Sound(s))'
  BY <1>3 DEF OpenRaw, TypeOK, Sound
<1>4. ASSUME NEW r \in Slots, OpenFails(r) \/ WriteFails(r) \/ ReadTimesOut(r)
      PROVE  TypeOK' /\ (\A s \in Slots : Sound(s))'
  BY <1>4 DEF OpenFails, WriteFails, ReadTimesOut, End, TypeOK, Sound
<1>5. ASSUME NEW r \in Slots, NEW i \in IDs, Identify(r, i)
      PROVE  TypeOK' /\ (\A s \in Slots : Sound(s))'
  <2>1. icmpSequence' \in 0 .. SeqSpace - 1
    BY <1>5, SequenceType DEF Identify, TypeOK
  <2>2. issued \in Nat /\ issued' = issued + 1 /\ issued' \in 0 .. MaxProbes
    BY <1>5, EchoAssumption DEF Identify, TypeOK
  <2>3. \A q \in sent : q.of \in 1 .. issued'
    BY <2>2 DEF TypeOK
  <2>4. number' = [number EXCEPT ![r] = issued'] /\ id' = [id EXCEPT ![r] = i]
        /\ seq' = [seq EXCEPT ![r] = icmpSequence'] /\ pc' = [pc EXCEPT ![r] = "write"]
    BY <1>5, <2>2 DEF Identify
  <2>5. number' \in [Slots -> 0 .. MaxProbes] /\ seq' \in [Slots -> 0 .. SeqSpace - 1]
        /\ id' \in [Slots -> IDs \cup {0}]
    BY <2>1, <2>2, <2>4 DEF TypeOK
  <2>6. TypeOK'
    BY <1>5, <2>1, <2>2, <2>3, <2>4, <2>5 DEF Identify, TypeOK
  <2>7. Sound(r)'
    BY <1>5, <2>2, <2>4 DEF Identify, TypeOK, Sound
  <2>8. ASSUME NEW s \in Slots, s # r PROVE Sound(s)'
    BY <1>5, <2>2, <2>4, <2>8 DEF Identify, TypeOK, Sound
  <2>9. QED
    BY <2>6, <2>7, <2>8
<1>6. ASSUME NEW r \in Slots, Write(r)
      PROVE  TypeOK' /\ (\A s \in Slots : Sound(s))'
  <2> DEFINE q == [dst |-> dst[r], id |-> WireID(r), seq |-> seq[r], of |-> number[r]]
             p == Packet("request", dst[r], WireID(r), seq[r], number[r])
  <2>1. dst[r] \in Addresses /\ number[r] \in 1 .. issued /\ seq[r] \in 0 .. SeqSpace - 1
    BY <1>6 DEF Write, TypeOK, Sound
  <2>2. q.dst \in Addresses /\ q.seq \in 0 .. SeqSpace - 1 /\ q.of \in 1 .. issued
    BY <2>1
  <2>3. p.src \in Addresses /\ p.type \in PacketTypes
    BY <2>1 DEF Packet, PacketTypes
  <2> HIDE DEF p, q
  <2>4. sent' = sent \cup {q} /\ (net' = net \/ net' = net \cup {p}) /\ pc' = [pc EXCEPT ![r] = "read"]
        /\ UNCHANGED <<icmpSequence, start, issued, probe>>
    BY <1>6 DEF Write, p, q
  <2>5. accepted' \in [Slots -> net' \cup {NoPacket}]
    BY <2>4 DEF TypeOK, probe
  <2>6. TypeOK'
    BY <2>2, <2>3, <2>4, <2>5 DEF TypeOK, probe
  <2>7. QED
    BY <1>6, <2>4, <2>6 DEF Write, TypeOK, Sound, probe
<1>7. ASSUME NEW r \in Slots, NEW p \in net, Read(r, p)
      PROVE  TypeOK' /\ (\A s \in Slots : Sound(s))'
  <2>1. CASE Matches(r, p)
    BY <1>7, <2>1 DEF Read, End, TypeOK, Sound
  <2>2. CASE ~Matches(r, p)
    <3>1. Own(r, p) \in BOOLEAN
      BY DEF Own
    <3>2. missed' \in [Slots -> BOOLEAN]
      BY <1>7, <2>2, <3>1 DEF Read, TypeOK
    <3>3. QED
      BY <1>7, <2>2, <3>2 DEF Read, TypeOK, Sound
  <2>3. QED
    BY <2>1, <2>2
<1>8. ASSUME NEW r \in Slots, Return(r)
      PROVE  TypeOK' /\ (\A s \in Slots : Sound(s))'
  <2>1. 0 \in 0 .. MaxProbes /\ 0 \in 0 .. SeqSpace - 1
    BY EchoAssumption
  <2>2. accepted' \in [Slots -> net' \cup {NoPacket}] /\ ask' \in [Slots -> Asks \cup {NoAsk}]
    BY <1>8 DEF Return, TypeOK
  <2>3. TypeOK'
    BY <1>8, <2>1, <2>2 DEF Return, TypeOK
  <2>4. QED
    BY <1>8, <2>3 DEF Return, TypeOK, Sound
<1>9. ASSUME NEW q \in sent, NEW src \in Addresses, Answer(q, src)
      PROVE  TypeOK' /\ (\A s \in Slots : Sound(s))'
  <2> DEFINE p == Packet("reply", src, q.id, q.seq, q.of)
  <2>1. p.src \in Addresses /\ p.type \in PacketTypes
    BY DEF Packet, PacketTypes
  <2> HIDE DEF p
  <2>2. net' = net \cup {p} /\ UNCHANGED <<icmpSequence, start, issued, pc, probe, sent>>
    BY <1>9 DEF Answer, p
  <2>3. accepted' \in [Slots -> net' \cup {NoPacket}]
    BY <2>2 DEF TypeOK, probe
  <2>4. TypeOK'
    BY <2>1, <2>2, <2>3 DEF TypeOK, probe
  <2>5. QED
    BY <2>2, <2>4 DEF Sound, probe
<1>10. CASE UNCHANGED vars
  BY <1>10 DEF vars, probe, TypeOK, Sound
<1>11. QED
  BY <1>1, <1>2, <1>3, <1>4, <1>5, <1>6, <1>7, <1>8, <1>9, <1>10 DEF Next

\* Type correctness, and that open ping sockets have IDs of their own.
THEOREM TypeCorrect == Spec => []TypeOK
<1>1. Init => TypeOK /\ \A r \in Slots : Sound(r)
  BY InitTypes
<1>2. TypeOK /\ (\A r \in Slots : Sound(r)) /\ [Next]_vars => TypeOK' /\ (\A r \in Slots : Sound(r))'
  BY NextTypes
<1>3. QED
  BY <1>1, <1>2, PTL DEF Spec

-----------------------------------------------------------------------------
(* The right reply, and nothing but the right reply.                       *)

\* The sequence number of the n-th probe.
SeqNo(n) == IF start + n < SeqSpace THEN start + n ELSE start + n - SeqSpace

\* Numbers are handed out one after the other, and a packet that is not
\* foreign carries the number of its probe and the right checksum.
Numbered ==
  /\ start \in 0 .. SeqSpace - 1 /\ icmpSequence = SeqNo(issued)
  /\ \A q \in sent : q.seq = SeqNo(q.of)
  /\ \A p \in net :
       /\ p.of = 0 => p \in Foreign
       /\ p.of # 0 => /\ p.of \in 1 .. issued /\ p.seq = SeqNo(p.of)
                      /\ p.check = Checksum(p.type, p.src, p.id, p.seq)

Right(r) == RightAddress(ask[r].protocol, ask[r].fallback, ask[r].ips, dst[r])

Tracked(r) ==
  /\ number[r] \in 0 .. issued
  /\ pc[r] \in {"idle", "open", "identify"} => number[r] = 0
  /\ pc[r] \in {"open", "identify", "write", "read"} => Right(r)
  /\ pc[r] \in {"identify", "write", "read"} => socket[r] \in {"ping", "raw"}
  /\ pc[r] \in {"write", "read"} => seq[r] = SeqNo(number[r]) /\ id[r] \in IDs
  /\ number[r] # 0 =>
       /\ \A q \in sent : q.of = number[r] => q.id = WireID(r)
       /\ \A p \in net : p.of = number[r] => p.id = WireID(r)
       /\ \A s \in Slots : number[s] = number[r] => s = r
  /\ success[r] => pc[r] = "done" /\ Own(r, accepted[r]) /\ Right(r)
  /\ ~missed[r]

\* Two probes have two sequence numbers.
LEMMA DistinctNumbers ==
  ASSUME TypeOK, Numbered, NEW m \in 1 .. issued, NEW n \in 1 .. issued, SeqNo(m) = SeqNo(n)
  PROVE  m = n
<1>1. SeqSpace \in Nat /\ MaxProbes \in Nat /\ MaxProbes <= SeqSpace
  BY EchoAssumption
<1>2. issued \in Nat /\ issued <= SeqSpace
  BY <1>1 DEF TypeOK
<1>3. start \in Nat /\ start < SeqSpace
  BY <1>1 DEF Numbered
<1>4. m \in Nat /\ n \in Nat /\ 1 <= m /\ 1 <= n /\ m <= SeqSpace /\ n <= SeqSpace
  BY <1>1, <1>2
<1>5. QED
  BY <1>1, <1>3, <1>4 DEF SeqNo

\* Incrementing an unsigned integer gives the next number.
LEMMA NextNumber ==
  ASSUME TypeOK, Numbered, issued < MaxProbes
  PROVE  GetICMPSequence = SeqNo(issued + 1)
  BY EchoAssumption DEF TypeOK, Numbered, SeqNo, GetICMPSequence

\* A packet that a socket receives matches if and only if it is the reply.
LEMMA MatchesOwn ==
  ASSUME TypeOK, Numbered, NEW r \in Slots, Sound(r), Tracked(r), pc[r] = "read",
         NEW p \in net, Receives(r, p)
  PROVE  Matches(r, p) <=> Own(r, p)
<1>1. number[r] \in 1 .. issued /\ number[r] # 0 /\ seq[r] = SeqNo(number[r]) /\ id[r] \in IDs
      /\ socket[r] \in {"ping", "raw"}
  BY DEF Sound, Tracked
<1>2. socket[r] = "ping" => kernelID[r] \in KernelIDs /\ p.id = kernelID[r]
  BY DEF Sound, Receives
<1>3. ASSUME Matches(r, p) PROVE Own(r, p)
  <2>1. p.src = dst[r] /\ Cleared(r, p) = Expected(r)
    BY <1>3 DEF Matches
  <2>2. p.type = "reply" /\ p.seq = seq[r] /\ (socket[r] # "ping" => p.id = id[r])
    BY <2>1 DEF Cleared, Expected, IdUnknown
  <2>3. p.id \in IDs \cup KernelIDs
    BY <1>1, <1>2, <2>2
  <2>4. p \notin Foreign
    BY <2>2, <2>3, EchoAssumption
  <2>5. p.of \in 1 .. issued /\ p.seq = SeqNo(p.of)
    BY <2>4 DEF Numbered
  <2>6. p.of = number[r]
    BY <1>1, <2>2, <2>5, DistinctNumbers
  <2>7. QED
    BY <2>1, <2>2, <2>6 DEF Own
<1>4. ASSUME Own(r, p) PROVE Matches(r, p)
  <2>1. p.type = "reply" /\ p.src = dst[r] /\ p.of = number[r]
    BY <1>4 DEF Own
  <2>2. p.id = WireID(r)
    BY <1>1, <2>1 DEF Tracked
  <2>3. p.seq = seq[r] /\ p.check = Checksum("reply", dst[r], p.id, seq[r])
    BY <1>1, <2>1 DEF Numbered
  <2>4. socket[r] # "ping" => p.id = id[r]
    BY <2>2 DEF WireID
  <2>5. (IF IdUnknown(r) THEN 0 ELSE p.id) = (IF IdUnknown(r) THEN 0 ELSE id[r])
    BY <2>4 DEF IdUnknown
  <2>6. (IF ChecksumUnknown(r) THEN <<>> ELSE p.check)
          = (IF ChecksumUnknown(r) THEN <<>> ELSE Checksum("reply", dst[r], id[r], seq[r]))
    BY <2>3, <2>4 DEF ChecksumUnknown, IdUnknown
  <2>7. Cleared(r, p) = Expected(r)
    BY <2>1, <2>3, <2>5, <2>6 DEF Cleared, Expected
  <2>8. QED
    BY <2>1, <2>7 DEF Matches
<1>5. QED
  BY <1>3, <1>4 DEF Matches, Own

\* A probe that a step leaves alone stays tracked.
LEMMA TrackedKept ==
  ASSUME TypeOK, NEW r \in Slots, Tracked(r), start' = start, issued' \in Nat, issued' >= issued,
         pc'[r] = pc[r], ask'[r] = ask[r], dst'[r] = dst[r], socket'[r] = socket[r],
         kernelID'[r] = kernelID[r], number'[r] = number[r], id'[r] = id[r], seq'[r] = seq[r],
         success'[r] = success[r], accepted'[r] = accepted[r], missed'[r] = missed[r],
         \A q \in sent' : q \in sent \/ (q.of = number[r] => q.id = WireID(r)),
         \A p \in net' : p \in net \/ (p.of = number[r] => p.id = WireID(r)),
         \A s \in Slots : number[r] # 0 /\ number'[s] = number[r] => s = r
  PROVE  Tracked(r)'
<1>1. WireID(r)' = WireID(r) /\ Right(r)' = Right(r)
  BY DEF WireID, Right, RightAddress, Preferred
<1>2. SeqNo(number[r])' = SeqNo(number[r])
  BY DEF SeqNo
<1>3. Own(r, accepted[r])' = Own(r, accepted[r])
  BY DEF Own
<1>4. number'[r] \in 0 .. issued'
  BY EchoAssumption DEF Tracked, TypeOK
<1>5. number'[r] # 0 =>
        /\ \A q \in sent' : q.of = number'[r] => q.id = WireID(r)'
        /\ \A p \in net' : p.of = number'[r] => p.id = WireID(r)'
        /\ \A s \in Slots : number'[s] = number'[r] => s = r
  BY <1>1 DEF Tracked
<1>6. QED
  BY <1>1, <1>2, <1>3, <1>4, <1>5 DEF Tracked
\* A step that leaves the numbers and the packets alone.
LEMMA NumberedKept ==
  ASSUME Numbered, UNCHANGED <<icmpSequence, start, issued, sent, net>>
  PROVE  Numbered'
  BY DEF Numbered, SeqNo

\* A step of one probe that leaves the numbers and the packets alone.
LEMMA OneTracked ==
  ASSUME TypeOK, \A s \in Slots : Tracked(s), NEW r \in Slots, Tracked(r)',
         UNCHANGED <<icmpSequence, start, issued, sent, net>>,
         number'[r] = number[r] \/ number'[r] = 0,
         \A s \in Slots : s # r =>
           /\ pc'[s] = pc[s] /\ ask'[s] = ask[s] /\ dst'[s] = dst[s] /\ socket'[s] = socket[s]
           /\ kernelID'[s] = kernelID[s] /\ number'[s] = number[s] /\ id'[s] = id[s]
           /\ seq'[s] = seq[s] /\ success'[s] = success[s] /\ accepted'[s] = accepted[s]
           /\ missed'[s] = missed[s]
  PROVE  \A s \in Slots : Tracked(s)'
<1> SUFFICES ASSUME NEW s \in Slots, s # r PROVE Tracked(s)'
  OBVIOUS
<1>1. issued' \in Nat /\ issued' >= issued
  BY EchoAssumption DEF TypeOK
<1>2. \A t \in Slots : number[s] # 0 /\ number'[t] = number[s] => t = s
  BY DEF Tracked
<1>3. QED
  BY <1>1, <1>2, TrackedKept

\* Every step keeps the numbers, and every probe on the track of its own reply.
LEMMA NextTracked ==
  TypeOK /\ (\A r \in Slots : Sound(r)) /\ Numbered /\ (\A r \in Slots : Tracked(r)) /\ [Next]_vars
    => Numbered' /\ (\A r \in Slots : Tracked(r))'
<1> SUFFICES ASSUME TypeOK, \A r \in Slots : Sound(r), Numbered, \A r \in Slots : Tracked(r),
                    [Next]_vars
             PROVE  Numbered' /\ (\A r \in Slots : Tracked(r))'
  OBVIOUS
<1>1. ASSUME NEW r \in Slots, NEW q \in Asks, Resolve(r, q)
      PROVE  Numbered' /\ (\A s \in Slots : Tracked(s))'
  <2> DEFINE a == ChooseProtocol(q.protocol, q.fallback, q.ips)
  <2>1. dst' = [dst EXCEPT ![r] = a] /\ dst'[r] = a /\ ask'[r] = q
    BY <1>1 DEF Resolve, TypeOK
  <2>2. a # NoIP => RightAddress(q.protocol, q.fallback, q.ips, a)
    <3>1. q.ips \in Seq(Addresses) /\ q.fallback \in BOOLEAN
      BY EchoAssumption
    <3>2. QED
      BY <3>1, ChosenAddress
  <2> HIDE DEF a
  <2>3. Right(r)' <=> RightAddress(q.protocol, q.fallback, q.ips, a)
    BY <2>1 DEF Right, RightAddress, Preferred
  <2>4. pc[r] = "idle" /\ number[r] = 0 /\ ~success[r] /\ ~missed[r]
    BY <1>1 DEF Resolve, Tracked
  <2>5. UNCHANGED <<icmpSequence, start, issued, number, socket, kernelID, id, seq, accepted, missed,
                    sent, net>>
    BY <1>1 DEF Resolve
  <2>6. ((pc'[r] = "open" /\ a # NoIP) \/ pc'[r] = "done") /\ ~success'[r]
        /\ \A s \in Slots : s # r => pc'[s] = pc[s] /\ success'[s] = success[s]
    BY <1>1, <2>1, <2>4 DEF Resolve, End, TypeOK
  <2>7. Tracked(r)'
    BY <2>2, <2>3, <2>4, <2>5, <2>6 DEF Tracked
  <2>8. \A s \in Slots : s # r => ask'[s] = ask[s] /\ dst'[s] = dst[s]
    BY <1>1, <2>1 DEF Resolve, TypeOK
  <2>9. QED
    BY <2>5, <2>6, <2>7, <2>8, NumberedKept, OneTracked
<1>2. ASSUME NEW r \in Slots, OpenRaw(r) \/ \E k \in KernelIDs : OpenPing(r, k)
      PROVE  Numbered' /\ (\A s \in Slots : Tracked(s))'
  <2>1. UNCHANGED <<icmpSequence, start, issued, ask, dst, number, id, seq, success, accepted,
                    missed, sent, net>>
    BY <1>2 DEF OpenRaw, OpenPing
  <2>2. pc[r] = "open" /\ pc'[r] = "identify" /\ socket'[r] \in {"ping", "raw"}
        /\ \A s \in Slots : s # r =>
             pc'[s] = pc[s] /\ socket'[s] = socket[s] /\ kernelID'[s] = kernelID[s]
    BY <1>2 DEF OpenRaw, OpenPing, TypeOK
  <2>3. Right(r) /\ number[r] = 0 /\ ~success[r] /\ ~missed[r]
    BY <2>2 DEF Tracked
  <2>4. Right(r)' <=> Right(r)
    BY <2>1 DEF Right, RightAddress, Preferred
  <2>5. Tracked(r)'
    BY <2>1, <2>2, <2>3, <2>4 DEF Tracked
  <2>6. QED
    BY <2>1, <2>2, <2>5, NumberedKept, OneTracked
<1>3. ASSUME NEW r \in Slots, OpenFails(r) \/ WriteFails(r) \/ ReadTimesOut(r)
      PROVE  Numbered' /\ (\A s \in Slots : Tracked(s))'
  <2>1. UNCHANGED <<icmpSequence, start, issued, ask, dst, socket, kernelID, number, id, seq,
                    accepted, missed, sent, net>>
    BY <1>3 DEF OpenFails, WriteFails, ReadTimesOut
  <2>2. pc'[r] = "done" /\ ~success'[r]
        /\ \A s \in Slots : s # r => pc'[s] = pc[s] /\ success'[s] = success[s]
    BY <1>3 DEF OpenFails, WriteFails, ReadTimesOut, End, TypeOK
  <2>3. WireID(r)' = WireID(r)
    BY <2>1 DEF WireID
  <2>4. Tracked(r)'
    BY <2>1, <2>2, <2>3 DEF Tracked
  <2>5. QED
    BY <2>1, <2>2, <2>4, NumberedKept, OneTracked
<1>4. ASSUME NEW r \in Slots, NEW i \in IDs, Identify(r, i)
      PROVE  Numbered' /\ (\A s \in Slots : Tracked(s))'
  <2>1. issued \in Nat /\ issued' = issued + 1 /\ issued < MaxProbes
    BY <1>4, EchoAssumption DEF Identify, TypeOK
  <2>2. icmpSequence' = SeqNo(issued + 1) /\ start' = start /\ UNCHANGED <<sent, net>>
    BY <1>4, <2>1, NextNumber DEF Identify
  <2>4. Numbered'
    BY <2>1, <2>2 DEF Numbered, SeqNo
  <2>5. pc[r] = "identify" /\ pc'[r] = "write" /\ number'[r] = issued + 1 /\ id'[r] = i
        /\ seq'[r] = icmpSequence' /\ UNCHANGED <<ask, dst, socket, kernelID, success, accepted, missed>>
    BY <1>4 DEF Identify, TypeOK
  <2>6. \A q \in sent : q.of # issued + 1
    BY <2>1 DEF TypeOK
  <2>7. \A p \in net : p.of # issued + 1
    <3>1. \A p \in net : p.of = 0 \/ p.of \in 1 .. issued
      BY DEF Numbered
    <3>2. QED
      BY <2>1, <3>1
  <2>8. \A s \in Slots : number[s] # issued + 1
    BY <2>1 DEF Tracked
  <2>9. \A s \in Slots : s # r => pc'[s] = pc[s] /\ number'[s] = number[s] /\ id'[s] = id[s]
                                  /\ seq'[s] = seq[s]
    BY <1>4 DEF Identify, TypeOK
  <2>10. Tracked(r)'
    <3>1. Right(r)' <=> Right(r)
      BY <2>5 DEF Right, RightAddress, Preferred
    <3>2. seq'[r] = SeqNo(number[r])'
      BY <2>2, <2>5 DEF SeqNo
    <3>3. Right(r) /\ ~success[r] /\ ~missed[r] /\ socket[r] \in {"ping", "raw"}
      BY <2>5 DEF Tracked
    <3>4. number'[r] \in 0 .. issued'
      BY <2>1, <2>5
    <3>5. \A s \in Slots : number'[s] = number'[r] => s = r
      BY <2>5, <2>8, <2>9
    <3>6. QED
      BY <2>2, <2>5, <2>6, <2>7, <3>1, <3>2, <3>3, <3>4, <3>5 DEF Tracked
  <2>11. ASSUME NEW s \in Slots, s # r PROVE Tracked(s)'
    <3>1. \A t \in Slots : number[s] # 0 /\ number'[t] = number[s] => t = s
      BY <2>5, <2>8, <2>9, <2>11 DEF Tracked
    <3>2. issued' \in Nat /\ issued' >= issued
      BY <2>1
    <3>3. QED
      BY <2>2, <2>5, <2>9, <2>11, <3>1, <3>2, TrackedKept
  <2>12. QED
    BY <2>4, <2>10, <2>11
<1>5. ASSUME NEW r \in Slots, Write(r)
      PROVE  Numbered' /\ (\A s \in Slots : Tracked(s))'
  <2> DEFINE q == [dst |-> dst[r], id |-> WireID(r), seq |-> seq[r], of |-> number[r]]
             p == Packet("request", dst[r], WireID(r), seq[r], number[r])
  <2>1. number[r] \in 1 .. issued /\ number[r] # 0 /\ seq[r] = SeqNo(number[r]) /\ pc[r] = "write"
    BY <1>5 DEF Write, Sound, Tracked
  <2>2. q.of = number[r] /\ q.id = WireID(r) /\ q.seq = SeqNo(q.of)
    BY <2>1
  <2>3. p.of = number[r] /\ p.id = WireID(r) /\ p.seq = SeqNo(p.of) /\ p.of \in 1 .. issued /\ p.of # 0
        /\ p.check = Checksum(p.type, p.src, p.id, p.seq)
    BY <2>1 DEF Packet
  <2> HIDE DEF p, q
  <2>4. sent' = sent \cup {q} /\ (net' = net \/ net' = net \cup {p}) /\ pc' = [pc EXCEPT ![r] = "read"]
        /\ UNCHANGED <<icmpSequence, start, issued, probe>>
    BY <1>5 DEF Write, p, q
  <2>6. Numbered'
    BY <2>2, <2>3, <2>4 DEF Numbered, SeqNo
  <2>7. issued' \in Nat /\ issued' >= issued
    BY <2>4, EchoAssumption DEF TypeOK
  <2>8. UNCHANGED <<ask, dst, socket, kernelID, number, id, seq, success, accepted, missed>>
    BY <2>4 DEF probe
  <2>9. pc'[r] = "read" /\ \A s \in Slots : s # r => pc'[s] = pc[s]
    BY <2>4 DEF TypeOK
  <2>10. Tracked(r)'
    <3>1. WireID(r)' = WireID(r) /\ Right(r)' = Right(r) /\ SeqNo(number[r])' = SeqNo(number[r])
      BY <2>4, <2>8 DEF WireID, Right, RightAddress, Preferred, SeqNo
    <3>2. \A x \in sent' : x.of = number[r] => x.id = WireID(r)
      BY <2>1, <2>2, <2>4 DEF Tracked
    <3>3. \A x \in net' : x.of = number[r] => x.id = WireID(r)
      BY <2>1, <2>3, <2>4 DEF Tracked
    <3>4. issued' = issued
      BY <2>4
    <3>5. QED
      BY <2>1, <2>8, <2>9, <3>1, <3>2, <3>3, <3>4 DEF Tracked
  <2>11. ASSUME NEW s \in Slots, s # r PROVE Tracked(s)'
    <3>1. number[s] # number[r]
      BY <2>1, <2>11 DEF Tracked
    <3>2. \A x \in sent' : x \in sent \/ (x.of = number[s] => x.id = WireID(s))
      BY <2>2, <2>4, <3>1
    <3>3. \A x \in net' : x \in net \/ (x.of = number[s] => x.id = WireID(s))
      BY <2>3, <2>4, <3>1
    <3>4. \A t \in Slots : number[s] # 0 /\ number'[t] = number[s] => t = s
      BY <2>8 DEF Tracked
    <3>5. QED
      BY <2>4, <2>7, <2>8, <2>9, <2>11, <3>2, <3>3, <3>4, TrackedKept
  <2>12. QED
    BY <2>6, <2>10, <2>11
<1>6. ASSUME NEW r \in Slots, NEW p \in net, Read(r, p)
      PROVE  Numbered' /\ (\A s \in Slots : Tracked(s))'
  <2>1. UNCHANGED <<icmpSequence, start, issued, ask, dst, socket, kernelID, number, id, seq, sent,
                    net>>
    BY <1>6 DEF Read
  <2>2. pc[r] = "read" /\ (Matches(r, p) <=> Own(r, p))
    BY <1>6, MatchesOwn DEF Read
  <2>3. Right(r) /\ ~success[r] /\ ~missed[r] /\ number[r] \in 0 .. issued
    BY <2>2 DEF Tracked
  <2>4. WireID(r)' = WireID(r) /\ Right(r)' = Right(r)
    BY <2>1 DEF WireID, Right, RightAddress, Preferred
  <2>5. \A s \in Slots : s # r => pc'[s] = pc[s] /\ success'[s] = success[s]
                                  /\ accepted'[s] = accepted[s] /\ missed'[s] = missed[s]
    BY <1>6 DEF Read, End, TypeOK
  <2>6. CASE Matches(r, p)
    <3>1. pc'[r] = "done" /\ success'[r] /\ accepted'[r] = p /\ missed'[r] = missed[r]
      BY <1>6, <2>6 DEF Read, End, TypeOK
    <3>2. Own(r, accepted[r])'
      BY <2>1, <2>2, <2>6, <3>1 DEF Own
    <3>3. Tracked(r)'
      BY <2>1, <2>3, <2>4, <3>1, <3>2 DEF Tracked
    <3>4. QED
      BY <2>1, <2>5, <3>3, NumberedKept, OneTracked
  <2>7. CASE ~Matches(r, p)
    <3>1. pc' = pc /\ success' = success /\ accepted' = accepted /\ ~missed'[r]
      BY <1>6, <2>2, <2>3, <2>7 DEF Read, TypeOK
    <3>2. SeqNo(number[r])' = SeqNo(number[r])
      BY <2>1 DEF SeqNo
    <3>3. Tracked(r)'
      BY <2>1, <2>2, <2>3, <2>4, <3>1, <3>2 DEF Tracked
    <3>4. QED
      BY <2>1, <2>5, <3>3, NumberedKept, OneTracked
  <2>8. QED
    BY <2>6, <2>7
<1>7. ASSUME NEW r \in Slots, Return(r)
      PROVE  Numbered' /\ (\A s \in Slots : Tracked(s))'
  <2>1. UNCHANGED <<icmpSequence, start, issued, sent, net>>
    BY <1>7 DEF Return
  <2>2. pc'[r] = "idle" /\ number'[r] = 0 /\ ~success'[r] /\ ~missed'[r]
    BY <1>7 DEF Return, TypeOK
  <2>3. 0 \in 0 .. issued'
    BY <2>1, EchoAssumption DEF TypeOK
  <2>4. Tracked(r)'
    BY <2>2, <2>3 DEF Tracked
  <2>5. \A s \in Slots : s # r =>
           /\ pc'[s] = pc[s] /\ ask'[s] = ask[s] /\ dst'[s] = dst[s] /\ socket'[s] = socket[s]
           /\ kernelID'[s] = kernelID[s] /\ number'[s] = number[s] /\ id'[s] = id[s]
           /\ seq'[s] = seq[s] /\ success'[s] = success[s] /\ accepted'[s] = accepted[s]
           /\ missed'[s] = missed[s]
    BY <1>7 DEF Return, TypeOK
  <2>6. QED
    BY <2>1, <2>2, <2>4, <2>5, NumberedKept, OneTracked
<1>8. ASSUME NEW q \in sent, NEW src \in Addresses, Answer(q, src)
      PROVE  Numbered' /\ (\A s \in Slots : Tracked(s))'
  <2> DEFINE p == Packet("reply", src, q.id, q.seq, q.of)
  <2>1. q.of \in 1 .. issued /\ q.of # 0 /\ q.seq = SeqNo(q.of)
    BY EchoAssumption DEF TypeOK, Numbered
  <2>2. p.of = q.of /\ p.id = q.id /\ p.seq = SeqNo(p.of)
        /\ p.check = Checksum(p.type, p.src, p.id, p.seq)
    BY <2>1 DEF Packet
  <2> HIDE DEF p
  <2>3. net' = net \cup {p} /\ UNCHANGED <<icmpSequence, start, issued, pc, probe, sent>>
    BY <1>8 DEF Answer, p
  <2>4. Numbered'
    BY <2>1, <2>2, <2>3 DEF Numbered, SeqNo
  <2>5. issued' \in Nat /\ issued' >= issued
    BY <2>3, EchoAssumption DEF TypeOK
  <2>6. ASSUME NEW s \in Slots PROVE Tracked(s)'
    <3>1. number[s] # 0 /\ q.of = number[s] => q.id = WireID(s)
      BY DEF Tracked
    <3>2. p.of = number[s] => p.id = WireID(s)
      BY <2>1, <2>2, <3>1
    <3>3. \A t \in Slots : number[s] # 0 /\ number'[t] = number[s] => t = s
      BY <2>3 DEF Tracked, probe
    <3>4. QED
      BY <2>3, <2>5, <3>2, <3>3, TrackedKept DEF probe
  <2>7. QED
    BY <2>4, <2>6
<1>9. CASE UNCHANGED vars
  <2>1. issued' \in Nat /\ issued' >= issued
    BY <1>9, EchoAssumption DEF vars, TypeOK
  <2>2. ASSUME NEW s \in Slots PROVE Tracked(s)'
    <3>1. \A t \in Slots : number[s] # 0 /\ number'[t] = number[s] => t = s
      BY <1>9 DEF vars, probe, Tracked
    <3>2. QED
      BY <1>9, <2>1, <3>1, TrackedKept DEF vars, probe
  <2>3. QED
    BY <1>9, <2>2, NumberedKept DEF vars
<1>10. QED
  BY <1>1, <1>2, <1>3, <1>4, <1>5, <1>6, <1>7, <1>8, <1>9 DEF Next

Tracks == TypeOK /\ (\A r \in Slots : Sound(r)) /\ Numbered /\ (\A r \in Slots : Tracked(r))

LEMMA TracksAlways == Spec => []Tracks
<1>1. Init => Tracks
  <2> SUFFICES ASSUME Init PROVE Tracks
    OBVIOUS
  <2>1. Numbered
    <3>1. \A p \in Foreign : p.of = 0
      BY EchoAssumption
    <3>2. SeqNo(0) = start
      BY EchoAssumption DEF Init, SeqNo
    <3>3. QED
      BY <3>1, <3>2 DEF Init, Numbered
  <2>2. \A r \in Slots : Tracked(r)
    BY DEF Init, Tracked
  <2>3. QED
    BY <2>1, <2>2, InitTypes DEF Tracks
<1>2. Tracks /\ [Next]_vars => Tracks'
  BY NextTypes, NextTracked DEF Tracks
<1>3. QED
  BY <1>1, <1>2, PTL DEF Spec

\* A probe that succeeds has had the reply to its own request, from an address
\* the user asked for.
THEOREM OwnReplyOnly == Spec => []OwnReply
<1>1. Tracks => OwnReply
  BY DEF Tracks, Tracked, Right, OwnReply
<1>2. QED
  BY <1>1, TracksAlways, PTL

\* A reply that is read is recognised.
THEOREM NothingOverlooked == Spec => []NotOverlooked
<1>1. Tracks => NotOverlooked
  BY DEF Tracks, Tracked, NotOverlooked
<1>2. QED
  BY <1>1, TracksAlways, PTL
=============================================================================
