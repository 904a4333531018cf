----------------------- MODULE QueryResponseProofs -----------------------
(***************************************************************************)
(* Proofs about the conversation of a probe, for any lists, servers and    *)
(* segments. The positions that QueryResponse!Behind finds in what was     *)
(* said, without segments, buffers and scanners, are where the probe with  *)
(* its scanner, its buffer and its direct reads really stands.             *)
(*                                                                         *)
(* Where an expect_bytes follows an expect without a starttls in between   *)
(* the code reads behind the back of its scanner, and what the properties  *)
(* say is not so: they are proved under ReadsApart.                        *)
(***************************************************************************)
EXTENDS QueryResponse, SequenceTheorems, WellFoundedInduction, TLAPS

USE QueryAssumption

-----------------------------------------------------------------------------
(* Least numbers, and the equation of Behind.                              *)

\* The least-number principle.
LEMMA LeastNumber ==
  ASSUME NEW T, T \subseteq Nat, T # {}
  PROVE  \E x \in T : \A y \in T : x <= y
<1> DEFINE less == {ss \in Nat \X Nat : ss[1] < ss[2]}
<1>1. IsWellFoundedOn(less, Nat)
  BY NatLessThanWellFounded DEF OpToRel
<1>2. \A x, y \in Nat : <<y, x>> \in less <=> y < x
  OBVIOUS
<1> HIDE DEF less
<1>3. PICK x \in T : \A y \in T : ~(<<y, x>> \in less)
  BY <1>1, WFMin
<1>4. \A y \in T : x <= y
  <2> SUFFICES ASSUME NEW y \in T PROVE x <= y
    OBVIOUS
  <2>1. x \in Nat /\ y \in Nat
    OBVIOUS
  <2>2. ~(y < x)
    BY <2>1, <1>2, <1>3
  <2> QED
    BY <2>1, <2>2
<1> QED
  BY <1>4

LEMMA LeastIs ==
  ASSUME NEW S, S \subseteq Nat, S # {}
  PROVE  Least(S) \in S /\ \A y \in S : Least(S) <= y
<1>1. \E x \in S : \A y \in S : x <= y
  BY LeastNumber
<1> QED
  BY <1>1 DEF Least

LEMMA LeastUnique ==
  ASSUME NEW S, S \subseteq Nat, NEW x \in S, \A y \in S : x <= y
  PROVE  Least(S) = x
<1>1. Least(S) \in S /\ Least(S) <= x /\ x <= Least(S)
  BY LeastIs
<1>2. Least(S) \in Nat /\ x \in Nat
  BY <1>1
<1> QED
  BY <1>1, <1>2

LEMMA GreatestNumber ==
  ASSUME NEW S, NEW n \in Nat, S \subseteq 0 .. n, S # {}
  PROVE  \E x \in S : \A y \in S : y <= x
<1> DEFINE T == {t \in Nat : \E s \in S : t = n - s}
<1>1. T \subseteq Nat /\ T # {}
  <2>1. PICK s : s \in S
    OBVIOUS
  <2>2. n - s \in T
    BY <2>1
  <2> QED
    BY <2>2
<1>2. PICK t \in T : \A u \in T : t <= u
  BY <1>1, LeastNumber
<1>3. PICK x \in S : t = n - x
  BY <1>2
<1>4. ASSUME NEW y \in S PROVE y <= x
  <2>1. n - y \in T /\ x \in 0 .. n /\ y \in 0 .. n
    OBVIOUS
  <2>2. n - x <= n - y
    BY <1>2, <1>3, <2>1
  <2> QED
    BY <2>1, <2>2
<1> QED
  BY <1>4

\* The recursive function is what its equation says.
LEMMA BehindDef ==
  Len(script) \in Nat =>
    Behind = [k \in 0 .. Len(script) |->
                IF k = 0 THEN 1 ELSE BehindEntry(Asked(k), Behind[k - 1])]
<1> SUFFICES ASSUME Len(script) \in Nat
             PROVE  Behind = [k \in 0 .. Len(script) |->
                                IF k = 0 THEN 1 ELSE BehindEntry(Asked(k), Behind[k - 1])]
  OBVIOUS
<1> DEFINE N == Len(script)
           Solves(g, n) ==
             g = [k \in 0 .. n |-> IF k = 0 THEN 1 ELSE BehindEntry(Asked(k), g[k - 1])]
           Stuck == {n \in 0 .. N : ~\E g : Solves(g, n)}
<1>1. Stuck = {}
  <2> SUFFICES ASSUME Stuck # {} PROVE FALSE
    OBVIOUS
  <2>1. PICK n \in Stuck : \A m \in Stuck : n <= m
    <3>1. Stuck \subseteq Nat
      OBVIOUS
    <3> HIDE DEF Stuck
    <3> QED
      BY <3>1, LeastNumber
  <2>2. n # 0
    <3>1. Solves([k \in 0 .. 0 |-> 1], 0)
      OBVIOUS
    <3> QED
      BY <3>1
  <2>3. n - 1 \in 0 .. N /\ n \in Nat /\ n - 1 \notin Stuck
    BY <2>1, <2>2
  <2>4. PICK g : Solves(g, n - 1)
    BY <2>3
  <2> DEFINE h == [k \in 0 .. n |-> IF k = 0 THEN 1 ELSE BehindEntry(Asked(k), g[k - 1])]
  <2>5. \A k \in 0 .. n - 1 : h[k] = g[k]
    BY <2>3, <2>4
  <2>6. Solves(h, n)
    <3> SUFFICES ASSUME NEW k \in 0 .. n, k # 0 PROVE g[k - 1] = h[k - 1]
      BY <2>3
    <3>1. k - 1 \in 0 .. n - 1
      BY <2>3
    <3> QED
      BY <2>5, <3>1
  <2> QED
    BY <2>6
<1>2. \E g : Solves(g, N)
  BY <1>1
<1> QED
  BY <1>2 DEF Behind

-----------------------------------------------------------------------------
(* Type correctness.                                                       *)

\* What is sent: a literal, or a part of a line.
Sound == Seq(Alphabet \cup STRING)

\* TypeOK with what keeps it: where the probe is in its list at each step.
Typed ==
  /\ TypeOK
  /\ wire \in Seq(Alphabet) /\ line \in Seq(Alphabet) /\ sent \in Seq(Sound)
  /\ scanner \in [buffer : Seq(Alphabet), eof : BOOLEAN]
  /\ pc = "dial" => /\ at = 0 /\ wire = <<>> /\ scanner = NewScanner /\ sent = <<>> /\ i = 0
                    /\ registered = {}
  /\ pc \notin {"dial", "done"} => i >= 1
  /\ pc \notin {"dial", "done", "entry"} => i <= Len(script)
  /\ pc \in {"entry", "scan", "read", "message", "send"} => Len(sent) = i - 1
  /\ pc = "handshake" => Len(sent) = i
  /\ pc # "done" => failedDueToRegex = 0 /\ failedDueToBytes = 0
  /\ pc \in {"scan", "message"} => script[i].expect # None
  /\ pc \in {"read", "send"} /\ script[i].expect # None => Matches(script[i].expect, line)

\* The steps the prober is at.
Steps == {"dial", "entry", "scan", "read", "message", "send", "handshake", "done"}

\* The list and the stream are sequences, and entries are entries.
LEMMA Given ==
  ASSUME Typed
  PROVE  /\ script \in Seq(Entry) /\ Len(script) \in Nat
         /\ said \in Seq(Alphabet) /\ Len(said) \in Nat /\ at \in Nat /\ at <= Len(said)
         /\ i \in Nat /\ MaxToken \in Nat
         /\ \A j \in 1 .. at : said[j] \in Alphabet
         /\ scanner.buffer \in Seq(Alphabet) /\ Len(scanner.buffer) \in Nat
         /\ Len(wire) \in Nat
         /\ Len(wire) + Len(scanner.buffer) <= at /\ Len(scanner.buffer) <= MaxToken
BY DEF Typed, TypeOK

LEMMA EntryFields ==
  ASSUME Typed, NEW k \in 1 .. Len(script)
  PROVE  /\ script[k] \in Entry /\ Asked(k) \in Entry
         /\ Asked(k).expect = script[k].expect /\ Asked(k).send = script[k].send
         /\ prober = "websocket" => Asked(k).bytes = <<>> /\ Asked(k).starttls = FALSE
         /\ prober # "websocket" => Asked(k) = script[k]
<1>1. script[k] \in Entry
  BY Given
<1>2. <<>> \in Seq(Alphabet)
  OBVIOUS
<1> QED
  BY <1>1, <1>2 DEF Asked, Entry

LEMMA FirstStageIs ==
  ASSUME NEW e
  PROVE  /\ AfterExpect(e) \in {"read", "send"}
         /\ AfterExpect(e) = "read" <=> e.bytes # <<>>
         /\ FirstStage(e) \in {"scan", "message", "read", "send"}
         /\ FirstStage(e) = "scan" <=> e.expect # None /\ prober # "websocket"
         /\ FirstStage(e) = "message" <=> e.expect # None /\ prober = "websocket"
         /\ FirstStage(e) \in {"read", "send"} => e.expect = None /\ FirstStage(e) = AfterExpect(e)
BY DEF AfterExpect, FirstStage

\* What a Read returns is there, and was asked for.
LEMMA ReadSizesAre ==
  ASSUME Typed, NEW k \in Int, NEW n \in ReadSizes(k), k >= 0
  PROVE  n \in Nat /\ n > 0 /\ n <= Len(wire) /\ n <= k
BY Given DEF ReadSizes

LEMMA PartTypes ==
  ASSUME NEW s \in Seq(Alphabet), NEW m \in Nat, NEW n \in Nat, m >= 1, n <= Len(s)
  PROVE  /\ SubSeq(s, m, n) \in Seq(Alphabet)
         /\ Len(SubSeq(s, m, n)) = IF m <= n THEN n - m + 1 ELSE 0
         /\ \A j \in 1 .. n - m + 1 : SubSeq(s, m, n)[j] = s[m + j - 1]
OBVIOUS

LEMMA BreaksIn ==
  ASSUME NEW s \in Seq(Alphabet), Breaks(s) # {}
  PROVE  /\ Least(Breaks(s)) \in 1 .. Len(s) /\ s[Least(Breaks(s))] = Newline
         /\ \A j \in 1 .. Least(Breaks(s)) - 1 : s[j] # Newline
<1>1. Breaks(s) \subseteq 1 .. Len(s)
  BY DEF Breaks
<1>2. Least(Breaks(s)) \in Breaks(s) /\ \A y \in Breaks(s) : Least(Breaks(s)) <= y
  BY <1>1, LeastIs
<1>3. PICK m : m = Least(Breaks(s))
  OBVIOUS
<1>4. m \in 1 .. Len(s) /\ s[m] = Newline
  BY <1>2, <1>3 DEF Breaks
<1>5. ASSUME NEW j \in 1 .. m - 1 PROVE s[j] # Newline
  <2>1. j \in 1 .. Len(s) /\ ~(m <= j)
    BY <1>4
  <2>2. j \notin Breaks(s)
    BY <1>2, <1>3, <2>1
  <2> QED
    BY <2>1, <2>2 DEF Breaks
<1> QED
  BY <1>3, <1>4, <1>5

LEMMA ExpandTypes ==
  ASSUME NEW e \in Entry, NEW text \in Seq(Alphabet), e.expect # None => Matches(e.expect, text)
  PROVE  Expand(e, text) \in Sound
<1>1. CASE e.send = "rest" /\ e.expect # None
  <2> DEFINE S == {j \in DOMAIN text : text[j] = e.expect}
  <2>1. S # {} /\ S \subseteq 1 .. Len(text)
    BY <1>1 DEF Matches
  <2>2. S \subseteq Nat
    BY <2>1
  <2>3. PICK m : m = Least(S)
    OBVIOUS
  <2>4. Expand(e, text) = SubSeq(text, m + 1, Len(text))
    BY <1>1, <2>3 DEF Expand
  <2>5. m \in 1 .. Len(text)
    <3> HIDE DEF S
    <3> QED
      BY <2>1, <2>2, <2>3, LeastIs
  <2>6. SubSeq(text, m + 1, Len(text)) \in Seq(Alphabet)
    BY <2>5
  <2>7. Expand(e, text) \in Seq(Alphabet)
    BY <2>4, <2>6
  <2> QED
    BY <2>7 DEF Sound
<1>2. CASE ~(e.send = "rest" /\ e.expect # None)
  <2>1. e.send \in STRING
    BY DEF Entry
  <2>2. <<>> \in Sound /\ <<e.send>> \in Sound
    BY <2>1 DEF Sound
  <2> QED
    BY <1>2, <2>2 DEF Expand
<1> QED
  BY <1>1, <1>2

LEMMA InitTyped == Init => Typed
<1> SUFFICES ASSUME Init PROVE Typed
  OBVIOUS
<1>1. script \in Seq(Entry) /\ said \in Seq(Alphabet)
  BY DEF Init
<1>2. TypeOK
  <2>1. Len(wire) = 0 /\ Len(scanner.buffer) = 0 /\ Len(sent) = 0 /\ scanner.eof = FALSE
    BY DEF Init, NewScanner
  <2>2. /\ Len(wire) + Len(scanner.buffer) <= at /\ Len(scanner.buffer) <= MaxToken
        /\ at \in 0 .. Len(said) /\ i \in 0 .. Len(script) + 1
        /\ Len(sent) \in {0, i - 1, i}
    BY <1>1, <2>1 DEF Init
  <2>3. verdict = "none" <=> pc # "done"
    BY DEF Init
  <2>4. registered \subseteq {"regex", "bytes", "ssl", "info"} /\ scanner.eof \in BOOLEAN
    BY <2>1 DEF Init
  <2> QED
    BY <2>2, <2>3, <2>4 DEF Init, TypeOK, Gauge
<1>3. <<>> \in Seq(Alphabet) /\ <<>> \in Seq(Sound)
      /\ NewScanner \in [buffer : Seq(Alphabet), eof : BOOLEAN]
  BY DEF NewScanner
<1> QED
  BY <1>2, <1>3 DEF Init, Typed

\* The world around the probe.
LEMMA WorldTyped ==
  ASSUME Typed, Deliver \/ Close \/ Break \/ Expire
  PROVE  Typed'
<1>1. CASE Deliver
  <2>1. said[at + 1] \in Alphabet /\ at + 1 <= Len(said)
    BY <1>1, Given DEF Deliver
  <2>2. wire' \in Seq(Alphabet) /\ Len(wire') = Len(wire) + 1
    BY <1>1, <2>1 DEF Deliver, Typed
  <2> QED
    BY <1>1, <2>1, <2>2, Given DEF Deliver, Typed, TypeOK, settings, results, Matches
<1>2. CASE Close
  BY <1>2 DEF Close, Typed, TypeOK, settings, results, connection, Matches
<1>3. CASE Expire
  BY <1>3 DEF Expire, Typed, TypeOK, settings, results, connection, Matches
<1>4. CASE Break
  BY <1>4 DEF Break, Typed, TypeOK, settings, results, connection, Matches
<1> QED
  BY <1>1, <1>2, <1>3, <1>4

LEMMA BeginTyped ==
  ASSUME Typed, Dialled \/ SetDeadlineFails \/ Upgraded \/ DialFails \/ BeginEntry \/ AllMet
  PROVE  Typed'
<1>1. CASE Dialled
  BY <1>1 DEF Dialled, Typed, TypeOK, settings, server
<1>2. CASE Upgraded
  BY <1>2 DEF Upgraded, Typed, TypeOK, settings, server
<1>3. CASE DialFails
  BY <1>3 DEF DialFails, Return, Typed, TypeOK, settings, server, connection, results
<1>4. CASE BeginEntry
  <2>1. i \in 1 .. Len(script)
    BY <1>4, Given DEF BeginEntry, Typed
  <2>2. Asked(i).expect = script[i].expect
    BY <2>1, EntryFields
  <2> QED
    BY <1>4, <2>1, <2>2, FirstStageIs
    DEF BeginEntry, Typed, TypeOK, settings, server, connection, results, Matches
<1>5. CASE AllMet
  BY <1>5 DEF AllMet, Return, Typed, TypeOK, settings, server, connection, results
<1>6. CASE SetDeadlineFails
  BY <1>6 DEF SetDeadlineFails, Return, Typed, TypeOK, settings, server, connection
<1> QED
  BY <1>1, <1>2, <1>3, <1>4, <1>5, <1>6

\* What a line that matches leaves.
LEMMA MatchedTyped ==
  ASSUME Typed, pc = "scan", NEW text \in Seq(Alphabet), Matches(script[i].expect, text),
         Matched(text), scanner' \in [buffer : Seq(Alphabet), eof : BOOLEAN],
         Len(scanner'.buffer) <= Len(scanner.buffer)
  PROVE  Typed'
<1>1. /\ UNCHANGED <<settings, server, wire, secure, i, sent, failedDueToBytes>>
      /\ line' = text /\ failedDueToRegex' = 0
      /\ \/ /\ pc' = AfterExpect(script[i]) /\ verdict' = verdict
            /\ registered' \in {registered, registered \cup {"info"}}
         \/ pc' = "done" /\ verdict' = "panic" /\ registered' = registered
  BY DEF Matched, Return
<1>2. i \in 1 .. Len(script) /\ Len(sent) = i - 1
  BY Given DEF Typed
<1>3. /\ Len(wire') + Len(scanner'.buffer) <= at' /\ Len(scanner'.buffer) <= MaxToken
      /\ scanner'.eof \in BOOLEAN
  <2>1. wire' = wire /\ at' = at /\ Len(scanner'.buffer) \in Nat
    BY <1>1 DEF server
  <2> QED
    BY <2>1, Given
<1>4. TypeOK'
  <2>1. pc' \in Steps /\ (verdict' = "none" <=> pc' # "done")
        /\ verdict' \in {"none", "success", "failure", "panic"}
    BY <1>1, FirstStageIs DEF Typed, TypeOK, Steps
  <2>2. registered' \subseteq {"regex", "bytes", "ssl", "info"}
    BY <1>1 DEF Typed, TypeOK
  <2> QED
    BY <1>1, <1>2, <1>3, <2>1, <2>2 DEF Typed, TypeOK, Steps, settings, server, Gauge
<1>5. Matches(script[i].expect, line)'
  BY <1>1 DEF Matches, settings
<1> QED
  BY <1>1, <1>2, <1>4, <1>5, FirstStageIs DEF Typed, settings, server

LEMMA ScanLineTyped ==
  ASSUME Typed, ScanLine
  PROVE  Typed'
<1>1. PICK end : end = Least(Breaks(scanner.buffer))
  OBVIOUS
<1>2. PICK text : text = SubSeq(scanner.buffer, 1, end - 1)
  OBVIOUS
<1>3. /\ pc = "scan" /\ Breaks(scanner.buffer) # {}
      /\ scanner' = [scanner EXCEPT !.buffer = SubSeq(@, end + 1, Len(@))]
      /\ IF Matches(script[i].expect, text)
         THEN Matched(text)
         ELSE UNCHANGED <<settings, server, wire, secure, pc, i, line, results, verdict>>
  BY <1>1, <1>2 DEF ScanLine
<1>4. end \in 1 .. Len(scanner.buffer)
  BY <1>1, <1>3, Given, BreaksIn
<1>5. text \in Seq(Alphabet)
  BY <1>2, <1>4, Given
<1>6. SubSeq(scanner.buffer, end + 1, Len(scanner.buffer)) \in Seq(Alphabet)
      /\ Len(SubSeq(scanner.buffer, end + 1, Len(scanner.buffer))) = Len(scanner.buffer) - end
  BY <1>4, Given
<1>7. /\ scanner' \in [buffer : Seq(Alphabet), eof : BOOLEAN]
      /\ Len(scanner'.buffer) = Len(scanner.buffer) - end
  BY <1>3, <1>6 DEF Typed
<1>8. Len(scanner'.buffer) <= Len(scanner.buffer)
  BY <1>4, <1>7, Given
<1>9. CASE Matches(script[i].expect, text)
  BY <1>3, <1>5, <1>7, <1>8, <1>9, MatchedTyped
<1>10. CASE ~Matches(script[i].expect, text)
  <2>1. UNCHANGED <<settings, server, wire, secure, pc, i, line, results, verdict>>
    BY <1>3, <1>10
  <2>2. /\ Len(wire') + Len(scanner'.buffer) <= at' /\ Len(scanner'.buffer) <= MaxToken
        /\ scanner'.eof \in BOOLEAN
    <3>1. wire' = wire /\ at' = at /\ Len(scanner'.buffer) \in Nat
      BY <1>7, <2>1 DEF server
    <3> QED
      BY <1>7, <1>8, <3>1, Given
  <2>3. TypeOK'
    BY <2>1, <2>2 DEF Typed, TypeOK, settings, server, results
  <2> QED
    BY <1>3, <1>7, <2>1, <2>3 DEF Typed, settings, server, results
<1> QED
  BY <1>9, <1>10

LEMMA ScanReadsTyped ==
  ASSUME Typed, ScanReads
  PROVE  Typed'
<1>1. PICK n \in ReadSizes(MaxToken - Len(scanner.buffer)) :
        /\ scanner' = [scanner EXCEPT !.buffer = @ \o SubSeq(wire, 1, n)]
        /\ wire' = SubSeq(wire, n + 1, Len(wire))
  BY DEF ScanReads
<1>2. n \in Nat /\ n > 0 /\ n <= Len(wire) /\ n <= MaxToken - Len(scanner.buffer)
  <2>1. MaxToken - Len(scanner.buffer) \in Int /\ MaxToken - Len(scanner.buffer) >= 0
    BY Given DEF Typed, TypeOK
  <2> QED
    BY <2>1, ReadSizesAre
<1>3. /\ SubSeq(wire, 1, n) \in Seq(Alphabet) /\ Len(SubSeq(wire, 1, n)) = n
      /\ wire' \in Seq(Alphabet) /\ Len(wire') = Len(wire) - n
  <2>1. wire \in Seq(Alphabet) /\ Len(wire) \in Nat
    BY Given DEF Typed
  <2>2. SubSeq(wire, 1, n) \in Seq(Alphabet) /\ Len(SubSeq(wire, 1, n)) = n
    BY <1>2, <2>1, PartTypes
  <2>3. SubSeq(wire, n + 1, Len(wire)) \in Seq(Alphabet)
        /\ Len(SubSeq(wire, n + 1, Len(wire))) = Len(wire) - n
    BY <1>2, <2>1
  <2> QED
    BY <1>1, <2>2, <2>3
<1>4. /\ scanner' \in [buffer : Seq(Alphabet), eof : BOOLEAN]
      /\ Len(scanner'.buffer) = Len(scanner.buffer) + n
  <2>1. PICK part : part = SubSeq(wire, 1, n)
    OBVIOUS
  <2>2. part \in Seq(Alphabet) /\ Len(part) = n /\ scanner.buffer \in Seq(Alphabet)
    BY <1>3, <2>1, Given
  <2>3. /\ scanner.buffer \o part \in Seq(Alphabet)
        /\ Len(scanner.buffer \o part) = Len(scanner.buffer) + n
    BY <2>2
  <2> QED
    BY <1>1, <2>1, <2>3 DEF Typed
<1>5. /\ pc = "scan"
      /\ UNCHANGED <<settings, server, secure, pc, i, line, results, verdict>>
  BY DEF ScanReads, NeedsData
<1> QED
  BY <1>2, <1>3, <1>4, <1>5, Given, SMTT(30) DEF Typed, TypeOK, settings, server, results

LEMMA ScanEndsTyped ==
  ASSUME Typed, ScanEnds
  PROVE  Typed'
<1>1. /\ pc = "scan" /\ scanner' = [buffer |-> <<>>, eof |-> TRUE]
      /\ scanner.buffer \in Seq(Alphabet)
  BY Given DEF ScanEnds
<1>2. /\ scanner' \in [buffer : Seq(Alphabet), eof : BOOLEAN]
      /\ Len(scanner'.buffer) = 0 /\ Len(scanner'.buffer) <= Len(scanner.buffer)
  BY <1>1, Given
<1>3. CASE Matches(script[i].expect, scanner.buffer)
  BY <1>1, <1>2, <1>3, MatchedTyped DEF ScanEnds
<1>4. CASE ~Matches(script[i].expect, scanner.buffer)
  <2>1. /\ UNCHANGED <<settings, server, wire, secure, i, line, sent, registered,
                       failedDueToBytes>>
        /\ failedDueToRegex' = 1 /\ pc' = "done" /\ verdict' = "failure"
    BY <1>4 DEF ScanEnds, Return
  <2> QED
    BY <1>1, <1>2, <2>1, Given DEF Typed, TypeOK, settings, server, Gauge
<1> QED
  BY <1>3, <1>4

\* The steps that only end the probe.
LEMMA FailTyped ==
  ASSUME Typed, ScanFails \/ ReadFails \/ SendFails \/ HandshakeFails \/ MessageFails
  PROVE  Typed'
<1>1. /\ pc' = "done" /\ verdict' = "failure"
      /\ UNCHANGED <<settings, server, connection, i, line, sent, registered, failedDueToBytes>>
      /\ failedDueToRegex' \in {failedDueToRegex, 1}
  BY DEF ScanFails, ReadFails, SendFails, HandshakeFails, MessageFails, Return, results
<1> QED
  BY <1>1 DEF Typed, TypeOK, settings, server, connection, Gauge

LEMMA ReadBytesTyped ==
  ASSUME Typed, ReadBytes
  PROVE  Typed'
<1>1. pc = "read" /\ i \in 1 .. Len(script) /\ Len(script[i].bytes) \in Nat
  <2>1. pc = "read" /\ i \in 1 .. Len(script)
    BY Given DEF ReadBytes, Typed
  <2> QED
    BY <2>1, EntryFields DEF Entry
<1>2. PICK n \in ReadSizes(Len(script[i].bytes)) :
        /\ wire' = SubSeq(wire, n + 1, Len(wire))
        /\ \/ pc' = "done" /\ verdict' = "failure" /\ failedDueToBytes' = failedDueToBytes
           \/ pc' = "done" /\ verdict' = "failure" /\ failedDueToBytes' = 1
           \/ pc' = "send" /\ verdict' = verdict /\ failedDueToBytes' = 0
  <2>1. PICK n \in ReadSizes(Len(script[i].bytes)) :
          /\ wire' = SubSeq(wire, n + 1, Len(wire))
          /\ CASE n < Len(script[i].bytes) ->
                    Return("failure") /\ UNCHANGED failedDueToBytes
               [] n = Len(script[i].bytes) /\ SubSeq(wire, 1, n) # script[i].bytes ->
                    failedDueToBytes' = 1 /\ Return("failure")
               [] OTHER ->
                    failedDueToBytes' = 0 /\ pc' = "send" /\ UNCHANGED verdict
    BY DEF ReadBytes
  <2> QED
    BY <2>1 DEF Return
<1>3. UNCHANGED <<settings, server, scanner, secure, i, line, sent, registered, failedDueToRegex>>
  BY DEF ReadBytes
<1>4. n \in Nat /\ n > 0 /\ n <= Len(wire)
  BY <1>1, ReadSizesAre
<1>5. wire' \in Seq(Alphabet) /\ Len(wire') = Len(wire) - n
  BY <1>2, <1>4, Given DEF Typed
<1>6. Len(wire') + Len(scanner.buffer) <= at
  BY <1>4, <1>5, Given DEF Typed, TypeOK
<1>7. TypeOK'
  <2>1. /\ pc' \in Steps /\ verdict' \in {"none", "success", "failure", "panic"}
        /\ verdict' = "none" <=> pc' # "done"
        /\ failedDueToBytes' \in {0, 1}
    BY <1>1, <1>2 DEF Typed, TypeOK, Steps, Gauge
  <2> QED
    BY <1>3, <1>6, <2>1 DEF Typed, TypeOK, Steps, settings, server, Gauge
<1> QED
  BY <1>1, <1>2, <1>3, <1>5, <1>7 DEF Typed, settings, server, Matches

LEMMA SendTyped ==
  ASSUME Typed, Send
  PROVE  Typed'
<1>1. pc = "send" /\ i \in 1 .. Len(script) /\ Len(sent) = i - 1
  BY Given DEF Send, Typed
<1>2. SendText \in Sound
  BY <1>1, EntryFields, ExpandTypes DEF SendText, Typed
<1>3. sent' \in Seq(Sound) /\ Len(sent') = i
  BY <1>1, <1>2 DEF Send, Typed
<1>4. /\ UNCHANGED <<settings, server, connection, line, registered, failedDueToRegex,
                     failedDueToBytes, verdict>>
      /\ \/ pc' = "handshake" /\ i' = i
         \/ pc' = "entry" /\ i' = i + 1
  BY DEF Send
<1>5. TypeOK'
  BY <1>1, <1>3, <1>4, Given DEF Typed, TypeOK, settings, server, connection
<1> QED
  BY <1>1, <1>3, <1>4, <1>5, Given DEF Typed, settings, server, connection

LEMMA HandshakeTyped ==
  ASSUME Typed, Handshake
  PROVE  Typed'
<1>1. /\ pc = "handshake" /\ wire # <<>> /\ wire' = Tail(wire) /\ secure' = TRUE
      /\ scanner' = NewScanner
      /\ UNCHANGED <<settings, server, line, sent, failedDueToRegex, failedDueToBytes>>
      /\ \/ registered' = registered \cup {"ssl"} /\ pc' = "entry" /\ i' = i + 1
            /\ verdict' = verdict
         \/ pc' = "done" /\ verdict' = "panic" /\ registered' = registered /\ i' = i
  BY DEF Handshake, Return
<1>2. wire' \in Seq(Alphabet) /\ Len(wire') = Len(wire) - 1 /\ Len(wire) > 0
  BY <1>1, Given DEF Typed
<1>3. /\ scanner' \in [buffer : Seq(Alphabet), eof : BOOLEAN] /\ Len(scanner'.buffer) = 0
  BY <1>1 DEF NewScanner
<1>4. i \in 1 .. Len(script) /\ Len(sent) = i
  BY <1>1, Given DEF Typed
<1>5. TypeOK'
  <2>1. /\ Len(wire') + Len(scanner'.buffer) <= at' /\ Len(scanner'.buffer) <= MaxToken
        /\ scanner'.eof \in BOOLEAN
    BY <1>1, <1>2, <1>3, Given DEF server
  <2>2. pc' \in Steps /\ (verdict' = "none" <=> pc' # "done")
        /\ verdict' \in {"none", "success", "failure", "panic"}
        /\ registered' \subseteq {"regex", "bytes", "ssl", "info"}
    BY <1>1 DEF Typed, TypeOK, Steps
  <2>3. i' \in 0 .. Len(script) + 1 /\ Len(sent') \in {0, i' - 1, i'}
    BY <1>1, <1>4, Given
  <2> QED
    BY <1>1, <2>1, <2>2, <2>3 DEF Typed, TypeOK, Steps, settings, server, Gauge
<1> QED
  BY <1>1, <1>2, <1>3, <1>4, <1>5 DEF Typed, settings, server

LEMMA ReceiveTyped ==
  ASSUME Typed, ReceiveMessage
  PROVE  Typed'
<1>1. PICK end : end = Least(Breaks(wire))
  OBVIOUS
<1>2. PICK message : message = SubSeq(wire, 1, end - 1)
  OBVIOUS
<1>3. /\ pc = "message" /\ Breaks(wire) # {}
      /\ wire' = SubSeq(wire, end + 1, Len(wire))
      /\ UNCHANGED <<settings, server, scanner, secure, i, sent, registered, failedDueToBytes>>
      /\ \/ /\ Matches(script[i].expect, message) /\ line' = message /\ pc' = "send"
            /\ UNCHANGED <<failedDueToRegex, verdict>>
         \/ pc' = "done" /\ verdict' = "failure" /\ failedDueToRegex' = 1 /\ line' = line
  BY <1>1, <1>2 DEF ReceiveMessage, Return
<1>4. end \in 1 .. Len(wire)
  BY <1>1, <1>3, BreaksIn DEF Typed
<1>5. /\ message \in Seq(Alphabet)
      /\ wire' \in Seq(Alphabet) /\ Len(wire') = Len(wire) - end
  BY <1>2, <1>3, <1>4 DEF Typed
<1>6. TypeOK'
  <2>1. /\ Len(wire') + Len(scanner'.buffer) <= at' /\ Len(scanner'.buffer) <= MaxToken
        /\ scanner'.eof \in BOOLEAN
    BY <1>3, <1>4, <1>5, Given DEF Typed, TypeOK, server
  <2>2. pc' \in Steps /\ (verdict' = "none" <=> pc' # "done")
        /\ verdict' \in {"none", "success", "failure", "panic"}
    BY <1>3 DEF Typed, TypeOK, Steps
  <2>3. i' \in 0 .. Len(script) + 1 /\ Len(sent') \in {0, i' - 1, i'}
    BY <1>3, Given DEF Typed, TypeOK
  <2> QED
    BY <1>3, <2>1, <2>2, <2>3 DEF Typed, TypeOK, Steps, settings, server, Gauge
<1> QED
  BY <1>3, <1>5, <1>6 DEF Typed, settings, server, Matches

LEMMA NextTyped == Typed /\ [Next]_vars => Typed'
<1> SUFFICES ASSUME Typed, [Next]_vars PROVE Typed'
  OBVIOUS
<1>1. CASE UNCHANGED vars
  BY <1>1 DEF vars, settings, server, connection, results, Typed, TypeOK, Matches
<1> QED
  BY <1>1, WorldTyped, BeginTyped, ScanLineTyped, ScanReadsTyped, ScanEndsTyped, FailTyped,
     ReadBytesTyped, SendTyped, HandshakeTyped, ReceiveTyped DEF Next, Probe

\* The variables keep their types, and a probe has a verdict exactly when it
\* has ended, in whatever step of probeQueryResponses or of the websocket's
\* loop that is.
THEOREM TypeCorrect == Spec => []TypeOK
<1>1. Typed => TypeOK
  BY DEF Typed
<1> QED
  BY <1>1, InitTyped, NextTyped, PTL DEF Spec

-----------------------------------------------------------------------------
(* What was heard, and its lines.                                          *)

LEMMA HeardIs ==
  Typed => /\ Heard \in Seq(Alphabet) /\ Len(Heard) = at /\ at \in Nat
           /\ DOMAIN Heard = 1 .. at
           /\ \A j \in 1 .. at : Heard[j] = said[j]
<1> SUFFICES ASSUME Typed
             PROVE  /\ Heard \in Seq(Alphabet) /\ Len(Heard) = at /\ at \in Nat
                    /\ DOMAIN Heard = 1 .. at
                    /\ \A j \in 1 .. at : Heard[j] = said[j]
  OBVIOUS
<1>1. said \in Seq(Alphabet) /\ at \in Nat /\ at <= Len(said) /\ Len(said) \in Nat
  BY Given
<1>2. Heard = [j \in 1 .. at |-> said[j]]
  BY <1>1 DEF Heard
<1>3. Heard \in Seq(Alphabet) /\ Len(Heard) = at
  BY <1>1, <1>2 DEF Heard
<1> QED
  BY <1>1, <1>2, <1>3

\* The ends of lines from position p on.
NewlinesFrom(p) == {x \in p .. at : said[x] = Newline}

LEMMA LineEndsAre ==
  ASSUME Typed, NEW p \in Nat, p >= 1
  PROVE  /\ prober # "websocket" =>
              LineEnds(p) = NewlinesFrom(p) \cup (IF closed /\ p <= at THEN {at + 1} ELSE {})
         /\ prober = "websocket" =>
              LineEnds(p) = {x \in NewlinesFrom(p) : \A y \in NewlinesFrom(p) : x <= y}
         /\ LineEnds(p) \subseteq p .. at + 1
<1>1. {x \in p .. Len(Heard) : Heard[x] = Newline} = NewlinesFrom(p)
  BY HeardIs DEF NewlinesFrom
<1>2. NewlinesFrom(p) \subseteq p .. at /\ at \in Nat
  BY HeardIs DEF NewlinesFrom
<1> QED
  BY <1>1, <1>2, HeardIs DEF LineEnds

\* Where the lines begin that lie between p and e.
Starts(p, e) == {p} \cup {j + 1 : j \in {b \in NewlinesFrom(p) : b < e}}

LEMMA StartsAre ==
  ASSUME Typed, NEW p \in Nat, p >= 1, NEW e \in Nat
  PROVE  LineEndingAt(p, e) =
           SubSeq(Heard, CHOOSE s \in Starts(p, e) : \A t \in Starts(p, e) : t <= s, e - 1)
<1>1. {b \in Breaks(Heard) : p <= b /\ b < e} = {b \in NewlinesFrom(p) : b < e}
  BY HeardIs DEF Breaks, NewlinesFrom
<1>2. {p} \cup {j + 1 : j \in {b \in Breaks(Heard) : p <= b /\ b < e}} = Starts(p, e)
  BY <1>1 DEF Starts
<1> QED
  BY <1>2 DEF LineEndingAt

\* What stands between two positions of what was heard.
LEMMA HeardPart ==
  ASSUME Typed, NEW m \in Nat, m >= 1, NEW n \in Int, n <= at, n >= m - 1
  PROVE  SubSeq(Heard, m, n) = [j \in 1 .. n - m + 1 |-> said[m + j - 1]]
<1>1. Heard \in Seq(Alphabet) /\ Len(Heard) = at /\ at \in Nat
  BY HeardIs
<1>2. SubSeq(Heard, m, n) = [j \in 1 .. n - m + 1 |-> Heard[m + j - 1]]
  BY <1>1
<1>3. \A j \in 1 .. n - m + 1 : Heard[m + j - 1] = said[m + j - 1]
  <2> TAKE j \in 1 .. n - m + 1
  <2>1. m + j - 1 \in 1 .. at
    BY <1>1
  <2> QED
    BY <2>1, HeardIs
<1> QED
  BY <1>2, <1>3

\* The start of the line that ends at e.
LEMMA LineFrom ==
  ASSUME Typed, NEW p \in Nat, p >= 1, NEW e \in Nat, e >= p, e <= at + 1,
         NEW m \in Starts(p, e), \A t \in Starts(p, e) : t <= m
  PROVE  LineEndingAt(p, e) = [j \in 1 .. e - m |-> said[m + j - 1]]
<1>1. Starts(p, e) \subseteq p .. e /\ at \in Nat
  BY HeardIs DEF Starts, NewlinesFrom
<1>2. (CHOOSE s \in Starts(p, e) : \A t \in Starts(p, e) : t <= s) = m
  <2>1. PICK c : c = CHOOSE s \in Starts(p, e) : \A t \in Starts(p, e) : t <= s
    OBVIOUS
  <2>2. c \in Starts(p, e) /\ \A t \in Starts(p, e) : t <= c
    BY <2>1
  <2>3. c <= m /\ m <= c /\ c \in Nat /\ m \in Nat
    BY <1>1, <2>2
  <2> QED
    BY <2>1, <2>3
<1>3. LineEndingAt(p, e) = SubSeq(Heard, m, e - 1)
  BY <1>2, StartsAre
<1>4. m \in Nat /\ m >= 1 /\ e - 1 \in Int /\ e - 1 <= at /\ e - 1 >= m - 1
  BY <1>1
<1>5. (e - 1) - m + 1 = e - m
  BY <1>4
<1> QED
  BY <1>3, <1>4, <1>5, HeardPart

LEMMA LatestStart ==
  ASSUME Typed, NEW p \in Nat, p >= 1, NEW e \in Nat, e >= p
  PROVE  \E m \in Starts(p, e) : \A t \in Starts(p, e) : t <= m
<1>1. Starts(p, e) \subseteq 0 .. e /\ Starts(p, e) # {}
  BY HeardIs DEF Starts, NewlinesFrom
<1> HIDE DEF Starts
<1> QED
  BY <1>1, GreatestNumber

-----------------------------------------------------------------------------
(* What was found stays found.                                             *)

\* The server says more, or closes.
Grows ==
  /\ Typed /\ Typed' /\ ~closed
  /\ UNCHANGED settings
  /\ (at' = at + 1 /\ closed' = closed) \/ (at' = at /\ closed' = TRUE)

LEMMA NewlinesKept ==
  ASSUME Grows, NEW p \in Nat, p >= 1
  PROVE  /\ NewlinesFrom(p) \subseteq p .. at
         /\ NewlinesFrom(p) \subseteq NewlinesFrom(p)'
         /\ \A x \in NewlinesFrom(p)' : x \in NewlinesFrom(p) \/ x = at + 1
<1>1. at \in Nat /\ at' \in {at, at + 1} /\ said' = said
  BY HeardIs DEF Grows, settings
<1> QED
  BY <1>1 DEF NewlinesFrom

LEMMA LineEndsKept ==
  ASSUME Grows, NEW p \in Nat, p >= 1
  PROVE  /\ LineEnds(p) \subseteq NewlinesFrom(p)
         /\ LineEnds(p) \subseteq LineEnds(p)'
         /\ \A x \in LineEnds(p)' : x \in LineEnds(p) \/ x = at + 1
<1>1. at \in Nat /\ at' \in {at, at + 1} /\ said' = said /\ prober' = prober /\ ~closed
  BY HeardIs DEF Grows, settings
<1>2. /\ prober # "websocket" => LineEnds(p) = NewlinesFrom(p)
      /\ prober = "websocket" =>
           LineEnds(p) = {x \in NewlinesFrom(p) : \A y \in NewlinesFrom(p) : x <= y}
  BY <1>1, LineEndsAre DEF Grows
<1>3. /\ prober # "websocket" =>
           LineEnds(p)' = NewlinesFrom(p)' \cup (IF closed' /\ p <= at' THEN {at' + 1} ELSE {})
      /\ prober = "websocket" =>
           LineEnds(p)' = {x \in NewlinesFrom(p)' : \A y \in NewlinesFrom(p)' : x <= y}
  <2>1. {x \in p .. Len(Heard') : Heard'[x] = Newline} = NewlinesFrom(p)'
    <3>1. Typed' => (/\ Heard \in Seq(Alphabet) /\ Len(Heard) = at /\ at \in Nat
                     /\ DOMAIN Heard = 1 .. at
                     /\ \A j \in 1 .. at : Heard[j] = said[j])'
      BY HeardIs, PTL
    <3> QED
      BY <3>1 DEF Grows, NewlinesFrom
  <2>2. Len(Heard') = at'
    <3>1. Typed' => (Len(Heard) = at)'
      BY HeardIs, PTL
    <3> QED
      BY <3>1 DEF Grows
  <2> QED
    BY <1>1, <2>1, <2>2 DEF LineEnds
<1>4. /\ NewlinesFrom(p) \subseteq p .. at
      /\ NewlinesFrom(p) \subseteq NewlinesFrom(p)'
      /\ \A x \in NewlinesFrom(p)' : x \in NewlinesFrom(p) \/ x = at + 1
  BY NewlinesKept
<1>5. CASE prober # "websocket"
  <2>1. closed' /\ p <= at' => at' + 1 = at + 1
    BY <1>1 DEF Grows
  <2> QED
    BY <1>2, <1>3, <1>4, <1>5, <2>1
<1>6. CASE prober = "websocket"
  BY <1>1, <1>2, <1>3, <1>4, <1>6
<1> QED
  BY <1>5, <1>6

\* LineFrom in one formula, to be used of the next state.
LineAsHeard ==
  \A p, e \in Nat : \A m \in Starts(p, e) :
    p >= 1 /\ e >= p /\ e <= at + 1 /\ (\A t \in Starts(p, e) : t <= m) =>
      LineEndingAt(p, e) = [j \in 1 .. e - m |-> said[m + j - 1]]

LEMMA LineIs == Typed => LineAsHeard
BY LineFrom DEF LineAsHeard

\* A line that was heard stays the line it is.
LEMMA LineKept ==
  ASSUME Grows, NEW p \in Nat, p >= 1, NEW e \in Nat, e >= p, e <= at + 1
  PROVE  LineEndingAt(p, e)' = LineEndingAt(p, e)
<1>1. at \in Nat /\ at' \in {at, at + 1} /\ said' = said /\ Typed /\ Typed'
  BY HeardIs DEF Grows, settings
<1>2. Starts(p, e)' = Starts(p, e)
  <2>1. {b \in NewlinesFrom(p)' : b < e} = {b \in NewlinesFrom(p) : b < e}
    BY <1>1, NewlinesKept
  <2> QED
    BY <2>1 DEF Starts
<1>3. PICK m \in Starts(p, e) : \A t \in Starts(p, e) : t <= m
  BY <1>1, LatestStart
<1>4. LineEndingAt(p, e) = [j \in 1 .. e - m |-> said[m + j - 1]]
  BY <1>1, <1>3, LineFrom
<1>5. Typed' => LineAsHeard'
  BY LineIs, PTL
<1>6. m \in Starts(p, e)' /\ \A t \in Starts(p, e)' : t <= m
  BY <1>2, <1>3
<1>7. PICK a : a = at'
  OBVIOUS
<1>8. e <= at' + 1
  <2>1. a \in Nat /\ at <= a /\ at \in Nat
    BY <1>1, <1>7
  <2>2. e <= a + 1
    BY <2>1
  <2> QED
    BY <1>7, <2>2
<1>9. LineEndingAt(p, e)' = [j \in 1 .. e - m |-> said'[m + j - 1]]
    <2>1. LineAsHeard'
    BY <1>1, <1>5
  <2>2. \A pp, ee \in Nat : \A mm \in Starts(pp, ee)' :
          pp >= 1 /\ ee >= pp /\ ee <= at' + 1 /\ (\A t \in Starts(pp, ee)' : t <= mm) =>
            LineEndingAt(pp, ee)' = [j \in 1 .. ee - mm |-> said'[mm + j - 1]]
    BY <2>1 DEF LineAsHeard
  <2> QED
    BY <2>2, <1>6, <1>8
<1> QED
  BY <1>1, <1>4, <1>9

LEMMA MatchEndsIn ==
  ASSUME Typed, NEW p \in Nat, p >= 1, NEW e
  PROVE  MatchEnds(e, p) \subseteq p .. at + 1 /\ MatchEnds(e, p) \subseteq LineEnds(p)
BY LineEndsAre DEF MatchEnds

\* More said adds matches only behind those there are.
LEMMA MatchEndsKept ==
  ASSUME Grows, NEW p \in Nat, p >= 1, NEW e
  PROVE  /\ MatchEnds(e, p) \subseteq p .. at
         /\ MatchEnds(e, p) \subseteq MatchEnds(e, p)'
         /\ \A x \in MatchEnds(e, p)' : x \in MatchEnds(e, p) \/ x = at + 1
<1>1. at \in Nat /\ NewlinesFrom(p) \subseteq p .. at
  BY HeardIs, NewlinesKept DEF Grows
<1>2. \A x \in LineEnds(p) : x \in p .. at /\ x \in LineEnds(p)'
  BY <1>1, LineEndsKept
<1>3. \A x \in p .. at : LineEndingAt(p, x)' = LineEndingAt(p, x)
  BY <1>1, LineKept
<1>4. MatchEnds(e, p)' = {x \in LineEnds(p)' : Matches(e.expect, LineEndingAt(p, x)')}
  BY DEF MatchEnds, Matches
<1>5. ASSUME NEW x \in MatchEnds(e, p)' PROVE x \in MatchEnds(e, p) \/ x = at + 1
  <2>1. x \in LineEnds(p) \/ x = at + 1
    BY <1>4, LineEndsKept
  <2>2. x \in LineEnds(p) => Matches(e.expect, LineEndingAt(p, x))
    BY <1>2, <1>3, <1>4
  <2> QED
    BY <2>1, <2>2 DEF MatchEnds
<1>6. ASSUME NEW x \in MatchEnds(e, p) PROVE x \in p .. at /\ x \in MatchEnds(e, p)'
  <2>1. x \in LineEnds(p) /\ Matches(e.expect, LineEndingAt(p, x))
    BY DEF MatchEnds
  <2> QED
    BY <2>1, <1>2, <1>3, <1>4
<1> QED
  BY <1>5, <1>6

LEMMA LeastSame ==
  ASSUME NEW S, NEW T, NEW n \in Nat, S \subseteq 0 .. n, S \subseteq T, S # {},
         \A x \in T : x \in S \/ x = n + 1
  PROVE  Least(T) = Least(S)
<1>1. S \subseteq Nat /\ T \subseteq Nat
  OBVIOUS
<1>2. PICK m : m = Least(S)
  OBVIOUS
<1>3. m \in S /\ \A y \in S : m <= y
  BY <1>1, <1>2, LeastIs
<1>4. m \in T /\ m \in 0 .. n
  BY <1>3
<1>5. \A y \in T : m <= y
  BY <1>3, <1>4
<1> QED
  BY <1>1, <1>2, <1>4, <1>5, LeastUnique

LEMMA LeastKept ==
  ASSUME Grows, NEW p \in Nat, p >= 1, NEW e, MatchEnds(e, p) # {}
  PROVE  MatchEnds(e, p)' # {} /\ Least(MatchEnds(e, p)') = Least(MatchEnds(e, p))
<1>1. PICK S : S = MatchEnds(e, p)
  OBVIOUS
<1>2. PICK T : T = MatchEnds(e, p)'
  OBVIOUS
<1>3. at \in Nat
  BY HeardIs DEF Grows
<1>4. S \subseteq p .. at /\ S \subseteq T /\ (\A x \in T : x \in S \/ x = at + 1) /\ S # {}
  BY <1>1, <1>2, MatchEndsKept
<1>5. S \subseteq 0 .. at
  BY <1>3, <1>4
<1>6. Least(T) = Least(S)
  BY <1>3, <1>4, <1>5, LeastSame
<1> QED
  BY <1>1, <1>2, <1>4, <1>6

\* The positions behind what is found are positions.
LEMMA BehindLineIs ==
  ASSUME Typed, NEW p \in Nat, p >= 1, NEW e
  PROVE  /\ BehindLine(e, p) \in Nat
         /\ BehindLine(e, p) # 0 => BehindLine(e, p) >= p
         /\ e.expect # None /\ BehindLine(e, p) # 0 =>
              MatchEnds(e, p) # {} /\ BehindLine(e, p) = Least(MatchEnds(e, p)) + 1
<1>1. CASE e.expect = None
  BY <1>1 DEF BehindLine
<1>2. CASE e.expect # None /\ MatchEnds(e, p) = {}
  BY <1>2 DEF BehindLine
<1>3. CASE e.expect # None /\ MatchEnds(e, p) # {}
  <2>1. PICK m : m = Least(MatchEnds(e, p))
    OBVIOUS
  <2>2. MatchEnds(e, p) \subseteq p .. at + 1 /\ at \in Nat
    BY MatchEndsIn, HeardIs
  <2>3. m \in p .. at + 1
    <3>1. MatchEnds(e, p) \subseteq Nat
      BY <2>2
    <3> QED
      BY <1>3, <2>1, <2>2, <3>1, LeastIs
  <2>4. BehindLine(e, p) = m + 1
    BY <1>3, <2>1 DEF BehindLine
  <2> QED
    BY <1>3, <2>1, <2>2, <2>3, <2>4
<1> QED
  BY <1>1, <1>2, <1>3

LEMMA BehindLineKept ==
  ASSUME Grows, NEW p \in Nat, p >= 1, NEW e, BehindLine(e, p) # 0
  PROVE  BehindLine(e, p)' = BehindLine(e, p)
<1>1. CASE e.expect = None
  BY <1>1 DEF BehindLine
<1>2. CASE e.expect # None
  <2>1. MatchEnds(e, p) # {}
    BY <1>2 DEF BehindLine
  <2>2. MatchEnds(e, p)' # {} /\ Least(MatchEnds(e, p)') = Least(MatchEnds(e, p))
    BY <2>1, LeastKept
  <2>3. BehindLine(e, p)' = IF MatchEnds(e, p)' = {} THEN 0 ELSE Least(MatchEnds(e, p)') + 1
    BY <1>2 DEF BehindLine, Least
  <2>4. BehindLine(e, p) = IF MatchEnds(e, p) = {} THEN 0 ELSE Least(MatchEnds(e, p)) + 1
    BY <1>2 DEF BehindLine
  <2> QED
    BY <2>1, <2>2, <2>3, <2>4
<1> QED
  BY <1>1, <1>2

-----------------------------------------------------------------------------
(* The bytes and the handshake that are looked for stay where they are.    *)

\* HeardPart in one formula, to be used of the next state.
PartAsSaid ==
  \A m \in Nat, n \in Int :
    m >= 1 /\ n <= at /\ n >= m - 1 =>
      SubSeq(Heard, m, n) = [j \in 1 .. n - m + 1 |-> said[m + j - 1]]

LEMMA PartIs == Typed => PartAsSaid
BY HeardPart DEF PartAsSaid

LEMMA StandKept ==
  ASSUME Grows, NEW p \in Nat, p >= 1, NEW bytes \in Seq(Alphabet), StandAt(bytes, p)
  PROVE  StandAt(bytes, p)'
<1>1. PICK a : a = at'
  OBVIOUS
<1>2. at \in Nat /\ a \in Nat /\ at <= a /\ said' = said /\ Typed /\ Typed'
  BY <1>1, HeardIs DEF Grows, settings
<1>3. Len(bytes) \in Nat
  OBVIOUS
<1>4. PICK n \in Int : n = p + Len(bytes) - 1
  BY <1>3
<1>5. n <= at /\ n >= p - 1 /\ SubSeq(Heard, p, n) = bytes
  BY <1>3, <1>4 DEF StandAt
<1>6. n <= a
  BY <1>2, <1>5
<1>7. SubSeq(Heard, p, n) = [j \in 1 .. n - p + 1 |-> said[p + j - 1]]
  BY <1>2, <1>5, HeardPart
<1>8. SubSeq(Heard', p, n) = [j \in 1 .. n - p + 1 |-> said'[p + j - 1]]
  <2>1. Typed' => PartAsSaid'
    BY PartIs, PTL
  <2>2. \A mm \in Nat, nn \in Int :
          mm >= 1 /\ nn <= at' /\ nn >= mm - 1 =>
            SubSeq(Heard', mm, nn) = [j \in 1 .. nn - mm + 1 |-> said'[mm + j - 1]]
    BY <1>2, <2>1 DEF PartAsSaid
  <2>3. n <= at'
    BY <1>1, <1>6
  <2> QED
    BY <1>5, <2>2, <2>3
<1>9. SubSeq(Heard', p, n) = bytes
  BY <1>2, <1>5, <1>7, <1>8
<1>10. n <= at'
  BY <1>1, <1>6
<1> QED
  BY <1>4, <1>9, <1>10 DEF StandAt

\* The handshakes of the server from position p on.
HellosFrom(p) == {h \in p .. at : said[h] = Hello}

LEMMA BehindHelloIs ==
  Typed => \A p \in Nat : p >= 1 =>
    \A e : BehindHello(e, p) =
      IF ~e.starttls THEN p
      ELSE IF HellosFrom(p) = {} THEN 0 ELSE Least(HellosFrom(p)) + 1
<1> SUFFICES ASSUME Typed, NEW p \in Nat, p >= 1, NEW e
             PROVE  BehindHello(e, p) =
                      IF ~e.starttls THEN p
                      ELSE IF HellosFrom(p) = {} THEN 0 ELSE Least(HellosFrom(p)) + 1
  OBVIOUS
<1>1. {h \in p .. Len(Heard) : Heard[h] = Hello} = HellosFrom(p)
  BY HeardIs DEF HellosFrom
<1>2. BehindHello(e, p) =
        IF ~e.starttls THEN p
        ELSE IF {h \in p .. Len(Heard) : Heard[h] = Hello} = {} THEN 0
             ELSE Least({h \in p .. Len(Heard) : Heard[h] = Hello}) + 1
  <2>1. p # 0
    OBVIOUS
  <2> QED
    BY <2>1, Zenon DEF BehindHello
<1> QED
  BY <1>1, <1>2

BehindHelloAsSaid ==
  \A p \in Nat : p >= 1 =>
    \A e : BehindHello(e, p) =
      IF ~e.starttls THEN p
      ELSE IF HellosFrom(p) = {} THEN 0 ELSE Least(HellosFrom(p)) + 1

LEMMA BehindHelloAs == Typed => BehindHelloAsSaid
BY BehindHelloIs DEF BehindHelloAsSaid

LEMMA BehindHelloIn ==
  ASSUME Typed, NEW p \in Nat, p >= 1, NEW e
  PROVE  /\ BehindHello(e, p) \in Nat
         /\ BehindHello(e, p) # 0 => BehindHello(e, p) >= p
<1>1. HellosFrom(p) \subseteq p .. at /\ at \in Nat
  BY HeardIs DEF HellosFrom
<1>2. PICK m : m = Least(HellosFrom(p))
  OBVIOUS
<1>3. HellosFrom(p) # {} => m \in p .. at
  <2>1. HellosFrom(p) \subseteq Nat
    BY <1>1
  <2> QED
    BY <1>1, <1>2, <2>1, LeastIs
<1>4. BehindHello(e, p) = IF ~e.starttls THEN p
                          ELSE IF HellosFrom(p) = {} THEN 0 ELSE m + 1
  BY <1>2, BehindHelloIs
<1> QED
  BY <1>1, <1>3, <1>4

LEMMA BehindHelloKept ==
  ASSUME Grows, NEW p \in Nat, p >= 1, NEW e, BehindHello(e, p) # 0
  PROVE  BehindHello(e, p)' = BehindHello(e, p)
<1>1. PICK a : a = at'
  OBVIOUS
<1>2. at \in Nat /\ a \in {at, at + 1} /\ said' = said /\ Typed /\ Typed'
  BY <1>1, HeardIs DEF Grows, settings
<1>3. Typed' => BehindHelloAsSaid'
  BY BehindHelloAs, PTL
<1>4. BehindHello(e, p)' =
      IF ~e.starttls THEN p
      ELSE IF HellosFrom(p)' = {} THEN 0 ELSE Least(HellosFrom(p)') + 1
  BY <1>2, <1>3 DEF BehindHelloAsSaid, Least
<1>5. BehindHello(e, p) =
      IF ~e.starttls THEN p
      ELSE IF HellosFrom(p) = {} THEN 0 ELSE Least(HellosFrom(p)) + 1
  BY <1>2, BehindHelloIs
<1>6. CASE ~e.starttls
  BY <1>4, <1>5, <1>6
<1>7. CASE e.starttls
  <2>1. PICK S : S = HellosFrom(p)
    OBVIOUS
  <2>2. PICK T : T = HellosFrom(p)'
    OBVIOUS
  <2>3. S \subseteq p .. at /\ S \subseteq T /\ (\A x \in T : x \in S \/ x = at + 1) /\ S # {}
    <3>1. T = {h \in p .. a : said[h] = Hello}
      BY <1>1, <1>2, <2>2 DEF HellosFrom
    <3>2. S = {h \in p .. at : said[h] = Hello}
      BY <2>1 DEF HellosFrom
    <3>3. S # {}
      BY <1>5, <1>7, <2>1
    <3> QED
      BY <1>2, <3>1, <3>2, <3>3
  <2>4. Least(T) = Least(S)
    <3>1. S \subseteq 0 .. at
      BY <1>2, <2>3
    <3> QED
      BY <1>2, <2>3, <3>1, LeastSame
  <2> QED
    BY <1>4, <1>5, <2>1, <2>2, <2>3, <2>4
<1> QED
  BY <1>6, <1>7

LEMMA BehindBytesIs ==
  ASSUME Typed, NEW p \in Nat, p >= 1, NEW e, e.bytes \in Seq(Alphabet)
  PROVE  /\ BehindBytes(e, p) \in Nat
         /\ BehindBytes(e, p) # 0 => BehindBytes(e, p) = p + Len(e.bytes)
         /\ e.bytes = <<>> => BehindBytes(e, p) = p
         /\ e.bytes # <<>> => (BehindBytes(e, p) # 0 <=> StandAt(e.bytes, p))
BY DEF BehindBytes

LEMMA BehindBytesKept ==
  ASSUME Grows, NEW p \in Nat, p >= 1, NEW e, e.bytes \in Seq(Alphabet), BehindBytes(e, p) # 0
  PROVE  BehindBytes(e, p)' = BehindBytes(e, p)
BY StandKept DEF BehindBytes

LEMMA BehindEntryIs ==
  ASSUME Typed, NEW p \in Nat, NEW e \in Entry
  PROVE  /\ BehindEntry(e, p) \in Nat
         /\ BehindEntry(e, p) # 0 => /\ p >= 1
                                     /\ BehindLine(e, p) # 0
                                     /\ BehindBytes(e, BehindLine(e, p)) # 0
         /\ p >= 1 => /\ BehindLine(e, p) \in Nat
                      /\ BehindBytes(e, BehindLine(e, p)) \in Nat
                      /\ BehindBytes(e, BehindLine(e, p)) # 0 => BehindLine(e, p) # 0
<1>1. e.bytes \in Seq(Alphabet)
  BY DEF Entry
<1>2. CASE p = 0
  BY <1>2 DEF BehindEntry
<1>3. CASE p >= 1
  <2>1. PICK q : q = BehindLine(e, p)
    OBVIOUS
  <2>2. PICK r : r = BehindBytes(e, q)
    OBVIOUS
  <2>3. BehindEntry(e, p) = BehindHello(e, r)
    BY <1>3, <2>1, <2>2 DEF BehindEntry
  <2>4. q \in Nat
    BY <1>3, <2>1, BehindLineIs
  <2>5. q = 0 => r = 0
    BY <2>2 DEF BehindBytes
  <2>6. r \in Nat
    <3>1. q # 0 => q >= 1
      BY <2>4
    <3> QED
      BY <1>1, <2>2, <2>4, <2>5, <3>1, BehindBytesIs
  <2>7. r = 0 => BehindHello(e, r) = 0
    BY DEF BehindHello
  <2>8. BehindHello(e, r) \in Nat
    <3>1. r # 0 => r >= 1
      BY <2>6
    <3> QED
      BY <2>6, <2>7, <3>1, BehindHelloIn
  <2> QED
    BY <1>3, <2>1, <2>2, <2>3, <2>4, <2>5, <2>6, <2>7, <2>8
<1> QED
  BY <1>2, <1>3

LEMMA BehindEntryKept ==
  ASSUME Grows, NEW p \in Nat, NEW e \in Entry, BehindEntry(e, p) # 0
  PROVE  BehindEntry(e, p)' = BehindEntry(e, p)
<1>1. Typed /\ e.bytes \in Seq(Alphabet)
  BY DEF Entry, Grows
<1>2. PICK q : q = BehindLine(e, p)
  OBVIOUS
<1>3. PICK r : r = BehindBytes(e, q)
  OBVIOUS
<1>4. p >= 1 /\ q # 0 /\ r # 0 /\ q \in Nat /\ r \in Nat
  BY <1>1, <1>2, <1>3, BehindEntryIs
<1>5. q >= 1 /\ r >= 1
  BY <1>4
<1>6. BehindLine(e, p)' = q
  BY <1>2, <1>4, BehindLineKept
<1>7. BehindBytes(e, q)' = r
  BY <1>1, <1>3, <1>4, <1>5, BehindBytesKept
<1>8. BehindEntry(e, p) = BehindHello(e, r)
  BY <1>2, <1>3, <1>4 DEF BehindEntry
<1>9. BehindHello(e, r)' = BehindHello(e, r)
  BY <1>4, <1>5, <1>8, BehindHelloKept
<1>10. BehindEntry(e, p)' = BehindHello(e, r)'
  BY <1>4, <1>6, <1>7 DEF BehindEntry, BehindBytes, BehindHello, StandAt
<1> QED
  BY <1>8, <1>9, <1>10

\* Nothing that Behind looks at changes.
Quiet ==
  /\ Typed /\ Typed'
  /\ UNCHANGED <<settings, at, closed>>

LEMMA LinesQuiet ==
  ASSUME Quiet, NEW p
  PROVE  /\ LineEnds(p)' = LineEnds(p)
         /\ \A x : LineEndingAt(p, x)' = LineEndingAt(p, x)
         /\ \A e : MatchEnds(e, p)' = MatchEnds(e, p)
<1>1. LineEnds(p)' = LineEnds(p)
  BY DEF Quiet, settings, LineEnds, Heard
<1>2. ASSUME NEW x PROVE LineEndingAt(p, x)' = LineEndingAt(p, x)
  BY DEF Quiet, settings, LineEndingAt, Heard, Breaks
<1>3. ASSUME NEW e PROVE MatchEnds(e, p)' = MatchEnds(e, p)
  <2>1. MatchEnds(e, p)' = {x \in LineEnds(p)' : Matches(e.expect, LineEndingAt(p, x)')}
    BY DEF MatchEnds, Matches
  <2> QED
    BY <1>1, <1>2, <2>1 DEF MatchEnds
<1> QED
  BY <1>1, <1>2, <1>3

LEMMA EntryQuiet ==
  ASSUME Quiet, NEW p \in Nat, NEW e \in Entry
  PROVE  /\ BehindLine(e, p)' = BehindLine(e, p)
         /\ StandAt(e.bytes, p)' <=> StandAt(e.bytes, p)
         /\ BehindBytes(e, p)' = BehindBytes(e, p)
         /\ BehindHello(e, p)' = BehindHello(e, p)
<1>1. BehindLine(e, p)' = BehindLine(e, p)
  <2>1. PICK S : S = MatchEnds(e, p)
    OBVIOUS
  <2>2. MatchEnds(e, p)' = S
    BY <2>1, LinesQuiet
  <2>3. BehindLine(e, p)' = IF e.expect = None THEN p ELSE IF S = {} THEN 0 ELSE Least(S) + 1
    BY <2>2 DEF BehindLine, Least
  <2> QED
    BY <2>1, <2>3 DEF BehindLine
<1>2. StandAt(e.bytes, p)' <=> StandAt(e.bytes, p)
  BY DEF Quiet, settings, StandAt, Heard
<1>3. BehindBytes(e, p)' = BehindBytes(e, p)
  BY <1>2 DEF BehindBytes
<1>4. BehindHello(e, p)' = BehindHello(e, p)
  <2>1. PICK S : S = {h \in p .. Len(Heard) : Heard[h] = Hello}
    OBVIOUS
  <2>2. {h \in p .. Len(Heard') : Heard'[h] = Hello} = S
    BY <2>1 DEF Quiet, settings, Heard
  <2>3. BehindHello(e, p)' = IF p = 0 \/ ~e.starttls THEN p
                             ELSE IF S = {} THEN 0 ELSE Least(S) + 1
    BY <2>2, Zenon DEF BehindHello
  <2>4. BehindHello(e, p) = IF p = 0 \/ ~e.starttls THEN p
                            ELSE IF S = {} THEN 0 ELSE Least(S) + 1
    BY <2>1 DEF BehindHello
  <2> QED
    BY <2>3, <2>4
<1> QED
  BY <1>1, <1>2, <1>3, <1>4

Onward == Quiet \/ Grows

LEMMA EntryOnward ==
  ASSUME Onward, NEW p \in Nat, NEW e \in Entry, BehindEntry(e, p) # 0
  PROVE  BehindEntry(e, p)' = BehindEntry(e, p)
<1>1. CASE Grows
  BY <1>1, BehindEntryKept
<1>2. CASE Quiet
  <2>1. PICK q : q = BehindLine(e, p)
    OBVIOUS
  <2>2. PICK r : r = BehindBytes(e, q)
    OBVIOUS
  <2>3. p >= 1 /\ q \in Nat /\ r \in Nat
    BY <1>2, <2>1, <2>2, BehindEntryIs DEF Quiet
  <2>4. BehindEntry(e, p) = BehindHello(e, r)
    BY <2>1, <2>2, <2>3 DEF BehindEntry
  <2>5. BehindLine(e, p)' = q /\ BehindBytes(e, q)' = r /\ BehindHello(e, r)' = BehindHello(e, r)
    BY <1>2, <2>1, <2>2, <2>3, EntryQuiet
  <2>6. BehindEntry(e, p)' = BehindHello(e, r)'
    BY <2>3, <2>5 DEF BehindEntry, BehindBytes, BehindHello, StandAt
  <2> QED
    BY <2>4, <2>5, <2>6
<1> QED
  BY <1>1, <1>2 DEF Onward

\* The equation of Behind, with the entry and the position named.
BehindSteps ==
  \A k \in 0 .. Len(script) :
    IF k = 0 THEN Behind[k] = 1
    ELSE \E e, p : e = Asked(k) /\ p = Behind[k - 1] /\ Behind[k] = BehindEntry(e, p)

LEMMA BehindStepsHold == Typed => BehindSteps
<1> SUFFICES ASSUME Typed PROVE BehindSteps
  OBVIOUS
<1>1. Behind = [k \in 0 .. Len(script) |->
                  IF k = 0 THEN 1 ELSE BehindEntry(Asked(k), Behind[k - 1])]
  BY Given, BehindDef
<1>2. PICK b : b = Behind
  OBVIOUS
<1>3. b = [k \in 0 .. Len(script) |-> IF k = 0 THEN 1 ELSE BehindEntry(Asked(k), b[k - 1])]
  BY <1>1, <1>2
<1> QED
  BY <1>2, <1>3 DEF BehindSteps

LEMMA BehindIsNat ==
  ASSUME Typed, NEW k \in 0 .. Len(script)
  PROVE  Behind[k] \in Nat
<1> DEFINE Odd == {n \in 0 .. Len(script) : Behind[n] \notin Nat}
<1>1. Odd \subseteq Nat
  OBVIOUS
<1>2. SUFFICES ASSUME Odd # {} PROVE FALSE
  OBVIOUS
<1>3. PICK n \in Odd : \A m \in Odd : n <= m
  <2> HIDE DEF Odd
  <2> QED
    BY <1>1, <1>2, LeastNumber
<1>4. n \in 0 .. Len(script) /\ Behind[n] \notin Nat
  BY <1>3
<1>5. n # 0
  BY <1>4, BehindStepsHold DEF BehindSteps
<1>6. n - 1 \in 0 .. Len(script) /\ n \in 1 .. Len(script) /\ ~(n <= n - 1)
  BY <1>4, <1>5, Given
<1>7. Behind[n - 1] \in Nat
  BY <1>3, <1>6
<1>8. Behind[n] = BehindEntry(Asked(n), Behind[n - 1])
  BY <1>4, <1>5, BehindStepsHold DEF BehindSteps
<1>9. Asked(n) \in Entry
  BY <1>6, EntryFields
<1> QED
  BY <1>4, <1>7, <1>8, <1>9, BehindEntryIs

\* What the first k entries ask for was found where it stays found.
LEMMA BehindKept ==
  ASSUME Onward, NEW k \in 0 .. Len(script), Behind[k] # 0
  PROVE  Behind[k]' = Behind[k]
<1>1. Typed /\ Typed' /\ UNCHANGED settings /\ Len(script) \in Nat
  BY Given DEF Onward, Quiet, Grows, settings
<1> DEFINE Lost == {n \in 0 .. Len(script) : Behind[n] # 0 /\ Behind'[n] # Behind[n]}
<1>2. Lost \subseteq Nat
  OBVIOUS
<1>3. SUFFICES ASSUME Lost # {} PROVE FALSE
  OBVIOUS
<1>4. PICK n \in Lost : \A m \in Lost : n <= m
  <2> HIDE DEF Lost
  <2> QED
    BY <1>2, <1>3, LeastNumber
<1>5. n \in 0 .. Len(script) /\ Behind[n] # 0 /\ Behind'[n] # Behind[n]
  BY <1>4
<1>6. /\ n = 0 => Behind[n] = 1
      /\ n # 0 => \E e, p : e = Asked(n) /\ p = Behind[n - 1] /\ Behind[n] = BehindEntry(e, p)
  BY <1>1, <1>5, BehindStepsHold DEF BehindSteps
<1>7. /\ n = 0 => Behind'[n] = 1
      /\ n # 0 => \E e, p : e = Asked(n)' /\ p = Behind'[n - 1] /\ Behind'[n] = BehindEntry(e, p)'
  <2>1. Typed' => BehindSteps'
    BY BehindStepsHold, PTL
  <2>2. n \in 0 .. Len(script')
    BY <1>1, <1>5 DEF settings
  <2> QED
    BY <1>1, <2>1, <2>2 DEF BehindSteps
<1>8. n - 1 \in 0 .. Len(script) /\ n \in 1 .. Len(script) /\ ~(n <= n - 1) /\ n # 0
  BY <1>1, <1>5, <1>6, <1>7
<1>9. PICK e, p : e = Asked(n) /\ p = Behind[n - 1] /\ Behind[n] = BehindEntry(e, p)
  BY <1>6, <1>8
<1>10. PICK f, q : f = Asked(n)' /\ q = Behind'[n - 1] /\ Behind'[n] = BehindEntry(f, q)'
  BY <1>7, <1>8
<1>11. p \in Nat /\ e \in Entry
  BY <1>1, <1>8, <1>9, EntryFields, BehindIsNat
<1>12. p # 0
  BY <1>5, <1>9 DEF BehindEntry
<1>13. q = p
  BY <1>4, <1>8, <1>9, <1>10, <1>12
<1>14. f = e
  BY <1>1, <1>9, <1>10 DEF Asked, settings
<1>15. BehindEntry(e, p)' = BehindEntry(e, p)
  BY <1>5, <1>9, <1>11, EntryOnward
<1> QED
  BY <1>5, <1>9, <1>10, <1>13, <1>14, <1>15

-----------------------------------------------------------------------------
(* The invariant.                                                          *)

\* How much of what arrived has been taken out of the wire and the buffer.
Consumed == at - Len(wire) - Len(scanner.buffer)

\* Buffer and wire hold the rest of what was said, in its order.
InOrder ==
  /\ \A j \in 1 .. Len(scanner.buffer) : scanner.buffer[j] = said[Consumed + j]
  /\ \A j \in 1 .. Len(wire) : wire[j] = said[at - Len(wire) + j]

\* The position behind the end of the last line, which closing has ended.
Lapsed(p) == closed /\ wire = <<>> /\ scanner.buffer = <<>> /\ p = at + 2

\* The probe has taken exactly what lies before p.
Stands(p) == IF scanner.eof THEN Lapsed(p) ELSE p = Consumed + 1

\* The scanner has gone through whole lines from p on, none of which matched.
Scanning(e, p) ==
  /\ scanner.eof => Lapsed(p)
  /\ ~scanner.eof => /\ p \in 1 .. Consumed + 1
                     /\ p = Consumed + 1 \/ said[Consumed] = Newline
                     /\ \A x \in MatchEnds(e, p) : x > Consumed

\* What e asks for from p on was found, and the probe stands behind it.
Met(e, p) ==
  \E q, r \in Nat : /\ q = BehindLine(e, p) /\ q # 0
                    /\ r = BehindBytes(e, q) /\ r # 0
                    /\ Stands(r)

\* The text is the line that met the expression of e, if it has one.
MatchedWith(e, p, text) ==
  IF e.expect = None THEN text = <<>>
  ELSE /\ MatchEnds(e, p) # {}
       /\ \E x \in Nat : x = Least(MatchEnds(e, p)) /\ text = LineEndingAt(p, x)

\* The answer is made from the line that met e, bytes and all.
AgreedOn(e, p, answer) ==
  \E q, r \in Nat : /\ q = BehindLine(e, p) /\ q # 0
                    /\ r = BehindBytes(e, q) /\ r # 0
                    /\ \E text : MatchedWith(e, p, text) /\ answer = Expand(e, text)

\* The answer is the one for the k-th entry.
Answers(k, answer) ==
  \E p \in Nat, e \in Entry :
    p = Behind[k - 1] /\ e = Asked(k) /\ p # 0 /\ AgreedOn(e, p, answer)

\* Each answer sent belongs to the line that met its entry.
Agreement ==
  /\ Len(sent) <= Len(script)
  /\ \A k \in 1 .. Len(sent) : \E answer : answer = sent[k] /\ Answers(k, answer)

LEMMA ConsumedIs ==
  ASSUME Typed
  PROVE  /\ Consumed \in Nat /\ at = Consumed + Len(scanner.buffer) + Len(wire)
         /\ Len(scanner.buffer) \in Nat /\ Len(wire) \in Nat /\ at \in Nat
BY Given DEF Consumed

LEMMA OnwardMeans ==
  ASSUME Onward
  PROVE  Typed /\ Typed' /\ UNCHANGED settings /\ at \in Nat
BY HeardIs DEF Onward, Quiet, Grows

LEMMA LineOnward ==
  ASSUME Onward, NEW p \in Nat, p # 0, NEW e \in Entry, BehindLine(e, p) # 0
  PROVE  BehindLine(e, p)' = BehindLine(e, p)
<1>1. p >= 1
  OBVIOUS
<1> QED
  BY <1>1, BehindLineKept, EntryQuiet DEF Onward

LEMMA BytesOnward ==
  ASSUME Onward, NEW p \in Nat, p # 0, NEW e \in Entry, BehindBytes(e, p) # 0
  PROVE  BehindBytes(e, p)' = BehindBytes(e, p)
<1>1. p >= 1 /\ e.bytes \in Seq(Alphabet)
  BY DEF Entry
<1> QED
  BY <1>1, BehindBytesKept, EntryQuiet DEF Onward

LEMMA LeastOnward ==
  ASSUME Onward, NEW p \in Nat, p # 0, NEW e \in Entry, MatchEnds(e, p) # {}
  PROVE  \E m \in p .. at + 1 : /\ m \in MatchEnds(e, p) /\ m = Least(MatchEnds(e, p))
                                /\ MatchEnds(e, p)' # {} /\ m = Least(MatchEnds(e, p)')
                                /\ LineEndingAt(p, m)' = LineEndingAt(p, m)
<1>1. p >= 1 /\ Typed /\ at \in Nat
  BY OnwardMeans
<1>2. PICK m : m = Least(MatchEnds(e, p))
  OBVIOUS
<1>3. MatchEnds(e, p) \subseteq p .. at + 1
  BY <1>1, MatchEndsIn
<1>4. m \in MatchEnds(e, p) /\ m \in p .. at + 1
  <2>1. MatchEnds(e, p) \subseteq Nat
    BY <1>1, <1>3
  <2> QED
    BY <1>2, <1>3, <2>1, LeastIs
<1>5. MatchEnds(e, p)' # {} /\ Least(MatchEnds(e, p)') = m
  BY <1>1, <1>2, LeastKept, LinesQuiet DEF Onward
<1>6. LineEndingAt(p, m)' = LineEndingAt(p, m)
  <2>1. m \in Nat /\ m >= p /\ m <= at + 1
    BY <1>1, <1>4
  <2> QED
    BY <1>1, <2>1, LineKept, LinesQuiet DEF Onward
<1> QED
  BY <1>2, <1>4, <1>5, <1>6

LEMMA MatchedOnward ==
  ASSUME Onward, NEW p \in Nat, p # 0, NEW e \in Entry, NEW text, MatchedWith(e, p, text)
  PROVE  MatchedWith(e, p, text)'
<1>1. CASE e.expect = None
  BY <1>1 DEF MatchedWith
<1>2. CASE e.expect # None
  <2>1. PICK x \in Nat : x = Least(MatchEnds(e, p)) /\ text = LineEndingAt(p, x)
    BY <1>2 DEF MatchedWith
  <2>2. PICK m \in p .. at + 1 :
          /\ m \in MatchEnds(e, p) /\ m = Least(MatchEnds(e, p))
          /\ MatchEnds(e, p)' # {} /\ m = Least(MatchEnds(e, p)')
          /\ LineEndingAt(p, m)' = LineEndingAt(p, m)
    BY <1>2, LeastOnward DEF MatchedWith
  <2>3. m = x /\ text = LineEndingAt(p, m)'
    BY <2>1, <2>2
  <2> QED
    BY <1>2, <2>1, <2>2, <2>3 DEF MatchedWith, Least
<1> QED
  BY <1>1, <1>2

LEMMA AgreedOnward ==
  ASSUME Onward, NEW p \in Nat, p # 0, NEW e \in Entry, NEW answer, AgreedOn(e, p, answer)
  PROVE  AgreedOn(e, p, answer)'
<1>1. PICK q, r \in Nat : /\ q = BehindLine(e, p) /\ q # 0
                          /\ r = BehindBytes(e, q) /\ r # 0
                          /\ \E text : MatchedWith(e, p, text) /\ answer = Expand(e, text)
  BY DEF AgreedOn
<1>2. PICK text : MatchedWith(e, p, text) /\ answer = Expand(e, text)
  BY <1>1
<1>3. q = BehindLine(e, p)' /\ r = BehindBytes(e, q)'
  BY <1>1, LineOnward, BytesOnward
<1>4. MatchedWith(e, p, text)'
  BY <1>2, MatchedOnward
<1> QED
  BY <1>1, <1>2, <1>3, <1>4 DEF AgreedOn

\* The k-th answer stays the right one.
LEMMA AnswerOnward ==
  ASSUME Onward, NEW k \in 1 .. Len(script), NEW answer, Answers(k, answer)
  PROVE  Answers(k, answer)'
<1>1. PICK p \in Nat, e \in Entry :
        p = Behind[k - 1] /\ e = Asked(k) /\ p # 0 /\ AgreedOn(e, p, answer)
  BY DEF Answers
<1>2. Typed /\ UNCHANGED settings
  BY OnwardMeans
<1>3. k - 1 \in 0 .. Len(script)
  BY <1>2, Given
<1>4. Behind'[k - 1] = p
  BY <1>1, <1>3, BehindKept
<1>5. Asked(k)' = e
  BY <1>1, <1>2 DEF Asked, settings
<1>6. AgreedOn(e, p, answer)'
  BY <1>1, AgreedOnward
<1> QED
  BY <1>1, <1>4, <1>5, <1>6 DEF Answers

LEMMA AgreementOnward ==
  ASSUME Onward, Agreement, sent' = sent
  PROVE  Agreement'
<1>1. Len(script') = Len(script) /\ Len(script) \in Nat /\ Len(sent) \in Nat
  BY OnwardMeans, Given DEF settings, Typed
<1>2. Len(sent) <= Len(script)
  BY DEF Agreement
<1>3. ASSUME NEW k \in 1 .. Len(sent')
      PROVE  \E answer : answer = sent'[k] /\ Answers(k, answer)'
  <2>1. k \in 1 .. Len(sent) /\ k \in 1 .. Len(script)
    BY <1>1, <1>2
  <2>2. PICK answer : answer = sent[k] /\ Answers(k, answer)
    BY <2>1 DEF Agreement
  <2>3. Answers(k, answer)'
    BY <2>1, <2>2, AnswerOnward
  <2> QED
    BY <2>2, <2>3
<1> QED
  BY <1>1, <1>2, <1>3 DEF Agreement

\* Where the probe is in entry e, whose turn came at position p.
At(e, p) ==
  /\ pc = "scan" => e.expect # None /\ prober # "websocket" /\ Scanning(e, p)
  /\ pc = "message" => e.expect # None /\ prober = "websocket" /\ Stands(p)
  /\ pc = "read" => /\ e.expect = None /\ e.bytes # <<>> /\ prober # "websocket"
                    /\ scanner = NewScanner /\ line = <<>> /\ Stands(p)
  /\ pc = "send" => Met(e, p) /\ MatchedWith(e, p, line)
  /\ pc = "handshake" => Met(e, p) /\ e.starttls /\ prober # "websocket"

\* The steps in the middle of an entry.
InEntry == {"scan", "message", "read", "send", "handshake"}

\* The probe stands behind all that the list has asked for so far.
Place ==
  /\ pc = "entry" => \E p \in Nat : p = Behind[i - 1] /\ Stands(p)
  /\ pc \in InEntry => \E p \in Nat, e \in Entry :
                         p = Behind[i - 1] /\ e = Asked(i) /\ p # 0 /\ At(e, p)

\* No server has started a handshake before its time, and before there is TLS
\* the start of it, once it has arrived, is still unread.
HelloAhead ==
  "ssl" \notin registered =>
    \A j \in 1 .. at : said[j] = Hello => pc = "handshake" /\ j > at - Len(wire)

\* What the scanner holds, an expect has read since the last starttls.
BufferSince ==
  scanner.buffer # <<>> \/ scanner.eof =>
    \E j \in 1 .. (IF pc = "entry" THEN i - 1 ELSE i) :
      script[j].expect # None /\ \A m \in j .. i - 1 : ~script[m].starttls

\* All of this as long as the probe goes on.
Standing ==
  pc # "done" =>
    /\ InOrder /\ HelloAhead /\ BufferSince /\ Place
    /\ prober = "websocket" => scanner = NewScanner

\* The server had ended, or spoken, and no line of the rest matched.
RegexBlamed ==
  \E p \in Nat, e \in Entry :
    /\ p = Behind[i - 1] /\ p # 0 /\ i \in 1 .. Len(script) /\ e.expect = script[i].expect
    /\ IF prober = "websocket" THEN closed \/ broken \/ (LineEnds(p) # {} /\ MatchEnds(e, p) = {})
                               ELSE closed /\ MatchEnds(e, p) = {}

\* Enough bytes had come, and they were others.
BytesBlamed ==
  \E p, q \in Nat, e \in Entry :
    /\ p = Behind[i - 1] /\ p # 0 /\ i \in 1 .. Len(script)
    /\ e = script[i] /\ q = BehindLine(e, p) /\ q # 0
    /\ q + Len(e.bytes) - 1 <= at /\ ~StandAt(e.bytes, q)

\* What the gauges and the verdict say was so when they were set.
Verdicts ==
  /\ failedDueToRegex = 1 => verdict = "failure" /\ RegexBlamed
  /\ failedDueToBytes = 1 => verdict = "failure" /\ BytesBlamed
  /\ verdict = "success" => Behind[Len(script)] # 0

\* The inductive invariant.
Conversation == Typed /\ Agreement /\ Standing /\ Verdicts

LEMMA InEntryWhere ==
  ASSUME Typed
  PROVE  /\ pc \notin {"dial", "done"} => i \in 1 .. Len(script) + 1
         /\ pc \in InEntry => i \in 1 .. Len(script)
         /\ pc # "done" => failedDueToRegex = 0 /\ failedDueToBytes = 0 /\ verdict = "none"
BY Given DEF Typed, TypeOK, InEntry

LEMMA HereOnward ==
  ASSUME Onward, i' = i, i \in 1 .. Len(script) + 1,
         NEW p \in Nat, p # 0, p = Behind[i - 1]
  PROVE  p = Behind'[i' - 1]
<1>1. PICK k : k = i - 1
  OBVIOUS
<1>2. k \in 0 .. Len(script)
  BY <1>1, OnwardMeans, Given
<1>3. Behind'[k] = p
  BY <1>1, <1>2, BehindKept
<1>4. i' - 1 = k
  BY <1>1
<1> QED
  BY <1>3, <1>4

LEMMA EntryHereOnward ==
  ASSUME Onward, i' = i, NEW e, e = Asked(i)
  PROVE  e = Asked(i)'
BY OnwardMeans DEF Asked, settings

\* Where the probe goes on, and what it has found so far holds.
LEMMA GoesOn ==
  ASSUME Conversation, Onward, sent' = sent, failedDueToRegex' = 0, failedDueToBytes' = 0,
         verdict' = "none"
  PROVE  Agreement' /\ Verdicts'
BY AgreementOnward DEF Conversation, Verdicts

LEMMA EndsBadly ==
  ASSUME Conversation, Onward, sent' = sent, failedDueToRegex' = 0, failedDueToBytes' = 0,
         verdict' \in {"failure", "panic"}, pc' = "done"
  PROVE  Agreement' /\ Verdicts' /\ Standing'
BY AgreementOnward DEF Conversation, Verdicts, Standing

LEMMA InitConversation == Init => Conversation
<1> SUFFICES ASSUME Init PROVE Conversation
  OBVIOUS
<1>1. Typed
  BY InitTyped
<1>2. Len(sent) = 0 /\ Len(wire) = 0 /\ Len(scanner.buffer) = 0 /\ Len(script) \in Nat
      /\ scanner.buffer = <<>> /\ scanner.eof = FALSE /\ at = 0
  BY <1>1, Given DEF Init, NewScanner
<1>3. Agreement
  BY <1>2 DEF Agreement
<1>4. Verdicts
  BY DEF Init, Verdicts
<1>5. InOrder /\ HelloAhead /\ BufferSince
  BY <1>2 DEF InOrder, HelloAhead, BufferSince
<1>6. Place /\ scanner = NewScanner
  BY DEF Init, Place, InEntry
<1> QED
  BY <1>1, <1>3, <1>4, <1>5, <1>6 DEF Conversation, Standing

LEMMA DialHolds ==
  ASSUME Conversation, Typed', Dialled \/ Upgraded
  PROVE  Agreement' /\ Verdicts' /\ Standing'
<1>1. /\ pc = "dial" /\ pc' = "entry" /\ i' = 1
      /\ UNCHANGED <<settings, server, wire, scanner, line, sent, failedDueToRegex,
                     failedDueToBytes, verdict>>
  BY DEF Dialled, Upgraded
<1>2. /\ Typed /\ at = 0 /\ wire = <<>> /\ scanner = NewScanner /\ sent = <<>>
      /\ failedDueToRegex = 0 /\ failedDueToBytes = 0 /\ verdict = "none"
  BY <1>1, InEntryWhere DEF Conversation, Typed
<1>3. Onward
  BY <1>1, <1>2 DEF Onward, Quiet, server
<1>4. Agreement' /\ Verdicts'
  BY <1>1, <1>2, <1>3, GoesOn
<1>5. /\ scanner' = NewScanner /\ scanner'.buffer = <<>> /\ scanner'.eof = FALSE
      /\ Len(scanner'.buffer) = 0 /\ wire' = <<>> /\ Len(wire') = 0 /\ at' = 0
  BY <1>1, <1>2 DEF NewScanner, server
<1>6. InOrder' /\ HelloAhead' /\ BufferSince'
  BY <1>5 DEF InOrder, HelloAhead, BufferSince
<1>7. Place'
  <2>1. Behind[0] = 1 /\ 0 \in 0 .. Len(script)
    BY <1>2, Given, BehindStepsHold DEF BehindSteps
  <2>2. Behind'[0] = 1
    BY <1>3, <2>1, BehindKept
  <2>3. i' - 1 = 0
    BY <1>1
  <2>4. Stands(1)'
    BY <1>5 DEF Stands, Consumed
  <2>5. \E p \in Nat : p = Behind'[i' - 1] /\ Stands(p)'
    BY <2>2, <2>3, <2>4
  <2>6. pc' \notin InEntry
    BY <1>1 DEF InEntry
  <2> QED
    BY <2>5, <2>6 DEF Place
<1> QED
  BY <1>4, <1>5, <1>6, <1>7 DEF Standing

LEMMA FailHolds ==
  ASSUME Conversation, Typed',
         DialFails \/ SetDeadlineFails \/ ScanFails \/ ReadFails \/ HandshakeFails
  PROVE  Agreement' /\ Verdicts' /\ Standing'
<1>1. /\ pc # "done" /\ pc' = "done" /\ verdict' \in {"failure", "panic"}
      /\ UNCHANGED <<settings, server, sent, failedDueToRegex, failedDueToBytes>>
  BY DEF DialFails, SetDeadlineFails, ScanFails, NeedsData, ReadFails, HandshakeFails, Return,
         results
<1>2. Typed /\ failedDueToRegex = 0 /\ failedDueToBytes = 0
  BY <1>1, InEntryWhere DEF Conversation
<1>3. Onward
  BY <1>1, <1>2 DEF Onward, Quiet, server
<1> QED
  BY <1>1, <1>2, <1>3, EndsBadly

LEMMA SuccessHolds ==
  ASSUME Conversation, Typed', AllMet
  PROVE  Agreement' /\ Verdicts' /\ Standing'
<1>1. /\ pc = "entry" /\ i > Len(script) /\ pc' = "done" /\ verdict' = "success"
      /\ UNCHANGED <<settings, server, connection, i, line, results>>
  BY DEF AllMet, Return
<1>2. Typed /\ failedDueToRegex = 0 /\ failedDueToBytes = 0
  BY <1>1, InEntryWhere DEF Conversation
<1>3. Onward
  BY <1>1, <1>2 DEF Onward, Quiet, server
<1>4. i - 1 = Len(script) /\ Len(script) \in 0 .. Len(script)
  BY <1>1, <1>2, InEntryWhere, Given
<1>5. PICK p \in Nat : p = Behind[i - 1] /\ Stands(p)
  BY <1>1 DEF Conversation, Standing, Place
<1>6. p # 0
  BY <1>2, <1>5, ConsumedIs DEF Stands, Lapsed
<1>7. Behind'[Len(script)] = p
  BY <1>3, <1>4, <1>5, <1>6, BehindKept
<1>8. Len(script') = Len(script) /\ failedDueToRegex' = 0 /\ failedDueToBytes' = 0
  BY <1>1, <1>2 DEF settings, results
<1>9. Verdicts'
  BY <1>6, <1>7, <1>8 DEF Verdicts
<1> QED
  BY <1>1, <1>3, <1>9, AgreementOnward DEF Conversation, Standing, results

-----------------------------------------------------------------------------
(* Beginning an entry.                                                     *)

\* What the scanner holds was read since the last starttls, so that nothing
\* is held when an entry reads the connection itself.
LEMMA ScannerFresh ==
  ASSUME ReadsApart, Conversation, pc \notin {"dial", "done"},
         NEW k \in 1 .. Len(script), i = k, script[k].bytes # <<>>,
         pc = "entry"
  PROVE  scanner.buffer = <<>> /\ ~scanner.eof
<1>1. SUFFICES ASSUME scanner.buffer # <<>> \/ scanner.eof PROVE FALSE
  OBVIOUS
<1>2. Typed /\ BufferSince
  BY DEF Conversation, Standing
<1>3. PICK j \in 1 .. k - 1 : /\ script[j].expect # None
                              /\ \A m \in j .. k - 1 : ~script[m].starttls
  BY <1>1, <1>2 DEF BufferSince
<1>4. script \in Scripts /\ j \in DOMAIN script /\ k \in DOMAIN script /\ j <= k
  BY <1>2, <1>3, Given DEF Typed, TypeOK
<1> QED
  BY <1>3, <1>4 DEF ReadsApart

LEMMA NoBytesBehindExpect ==
  ASSUME ReadsApart, Typed, NEW k \in 1 .. Len(script), script[k].expect # None
  PROVE  script[k].bytes = <<>>
<1>1. SUFFICES ASSUME script[k].bytes # <<>> PROVE FALSE
  OBVIOUS
<1>2. script \in Scripts /\ k \in DOMAIN script /\ k <= k
  BY Given DEF Typed, TypeOK
<1>3. PICK m \in k .. k - 1 : script[m].starttls
  BY <1>1, <1>2 DEF ReadsApart
<1> QED
  BY <1>3, Given

LEMMA StandsIs ==
  ASSUME Typed, NEW p, Stands(p)
  PROVE  p \in Nat /\ p # 0 /\ p <= at + 2
BY ConsumedIs DEF Stands, Lapsed

LEMMA BeginHolds ==
  ASSUME ReadsApart, Conversation, Typed', BeginEntry
  PROVE  Agreement' /\ Verdicts' /\ Standing'
<1>1. /\ pc = "entry" /\ i <= Len(script) /\ pc' = FirstStage(Asked(i)) /\ line' = <<>>
      /\ UNCHANGED <<settings, server, connection, i, results, verdict>>
  BY DEF BeginEntry
<1>2. /\ Typed /\ failedDueToRegex = 0 /\ failedDueToBytes = 0 /\ verdict = "none"
      /\ i \in 1 .. Len(script)
  BY <1>1, InEntryWhere, Given DEF Conversation
<1>3. Onward
  BY <1>1, <1>2 DEF Onward, Quiet, server
<1>4. Agreement' /\ Verdicts'
  BY <1>1, <1>2, <1>3, GoesOn DEF results
<1>5. /\ InOrder /\ HelloAhead /\ BufferSince /\ Place
      /\ prober = "websocket" => scanner = NewScanner
  BY <1>1 DEF Conversation, Standing
<1>6. PICK e : e = Asked(i)
  OBVIOUS
<1>7. /\ e \in Entry /\ e.expect = script[i].expect
      /\ prober = "websocket" => e.bytes = <<>> /\ e.starttls = FALSE
      /\ prober # "websocket" => e = script[i]
  BY <1>2, <1>6, EntryFields
<1>8. PICK p \in Nat : p = Behind[i - 1] /\ Stands(p)
  BY <1>1, <1>5 DEF Place
<1>9. p # 0
  BY <1>2, <1>8, StandsIs
<1>10. p = Behind'[i' - 1] /\ e = Asked(i)'
  <2>1. i' = i /\ i \in 1 .. Len(script) + 1
    BY <1>1, <1>2, Given
  <2> QED
    BY <1>3, <1>6, <1>8, <1>9, <2>1, HereOnward, EntryHereOnward
<1>11. pc' = FirstStage(e)
  BY <1>1, <1>6
<1>12. Stands(p)' /\ prober' = prober
  BY <1>1, <1>8 DEF Stands, Lapsed, Consumed, server, connection, settings
<1>13. At(e, p)'
  <2>1. ASSUME pc' = "scan"
        PROVE  e.expect # None /\ prober' # "websocket" /\ Scanning(e, p)'
    <3>1. e.expect # None /\ prober # "websocket"
      BY <1>11, <2>1, FirstStageIs
    <3>2. CASE scanner.eof
      BY <1>1, <1>8, <3>1, <3>2, <1>12 DEF Scanning, Stands, Lapsed, server, connection
    <3>3. CASE ~scanner.eof
      <4>1. p = Consumed + 1 /\ Consumed \in Nat
        BY <1>2, <1>8, <3>3, ConsumedIs DEF Stands
      <4>2. PICK c : c = Consumed
        OBVIOUS
      <4>3. Consumed' = c
        BY <1>1, <4>2 DEF Consumed, server, connection
      <4>4. MatchEnds(e, p) \subseteq p .. at + 1 /\ MatchEnds(e, p)' = MatchEnds(e, p)
        <5>1. p >= 1
          BY <1>9
        <5>2. Quiet
          BY <1>1, <1>2 DEF Quiet, server
        <5> QED
          BY <1>2, <5>1, <5>2, MatchEndsIn, LinesQuiet
      <4>5. \A x \in MatchEnds(e, p)' : x > c
        BY <4>1, <4>2, <4>4, ConsumedIs, <1>2
      <4>6. p \in 1 .. c + 1 /\ p = c + 1 /\ ~scanner'.eof
        BY <1>1, <3>3, <4>1, <4>2 DEF connection
      <4> QED
        BY <1>12, <3>1, <4>3, <4>5, <4>6 DEF Scanning
    <3> QED
      BY <3>2, <3>3
  <2>2. ASSUME pc' = "message"
        PROVE  e.expect # None /\ prober' = "websocket" /\ Stands(p)'
    BY <1>11, <1>12, <2>2, FirstStageIs
  <2>3. ASSUME pc' = "read"
        PROVE  /\ e.expect = None /\ e.bytes # <<>> /\ prober' # "websocket"
               /\ scanner' = NewScanner /\ line' = <<>> /\ Stands(p)'
    <3>1. e.expect = None /\ e.bytes # <<>>
      BY <1>11, <2>3, FirstStageIs
    <3>2. prober # "websocket" /\ script[i].bytes # <<>>
      BY <1>7, <3>1
    <3>3. scanner.buffer = <<>> /\ ~scanner.eof
      BY <1>1, <1>2, <3>2, ScannerFresh
    <3>4. scanner = NewScanner
      BY <1>2, <3>3 DEF Typed, NewScanner
    <3> QED
      BY <1>1, <1>12, <3>1, <3>2, <3>4 DEF connection
  <2>4. ASSUME pc' = "send"
        PROVE  Met(e, p)' /\ MatchedWith(e, p, line)'
    <3>1. e.expect = None /\ e.bytes = <<>>
      BY <1>11, <2>4, FirstStageIs
    <3>2. BehindLine(e, p)' = p /\ BehindBytes(e, p)' = p
      BY <3>1 DEF BehindLine, BehindBytes
    <3> QED
      BY <1>1, <1>9, <1>12, <3>1, <3>2 DEF Met, MatchedWith
  <2>5. pc' # "handshake"
    BY <1>11, FirstStageIs
  <2> QED
    BY <2>1, <2>2, <2>3, <2>4, <2>5 DEF At
<1>14. Place'
  <2>1. pc' # "entry"
    BY <1>11, FirstStageIs
  <2> QED
    BY <1>9, <1>10, <1>7, <1>13, <2>1 DEF Place
<1>15. BufferSince'
  <2>1. ASSUME scanner.buffer # <<>> \/ scanner.eof
        PROVE  \E j \in 1 .. i :
                 script[j].expect # None /\ \A m \in j .. i - 1 : ~script[m].starttls
    BY <1>1, <1>2, <1>5, <2>1, Given DEF BufferSince
  <2>2. pc' # "entry"
    BY <1>11, FirstStageIs
  <2> QED
    BY <1>1, <2>1, <2>2 DEF BufferSince, connection, settings
<1>16. InOrder' /\ HelloAhead' /\ (prober' = "websocket" => scanner' = NewScanner)
  BY <1>1, <1>5 DEF InOrder, HelloAhead, Consumed, connection, settings, server, results
<1> QED
  BY <1>4, <1>14, <1>15, <1>16 DEF Standing

-----------------------------------------------------------------------------
(* expect: the scanner and its buffer.                                     *)

\* A line that has only been seen in the buffer starts where the buffer does.
LEMMA BufferedLine ==
  ASSUME Typed, InOrder, NEW p \in Nat, NEW c \in Nat, c = Consumed,
         p >= 1, p <= c + 1, p = c + 1 \/ said[c] = Newline,
         NEW n \in 0 .. Len(scanner.buffer),
         \A j \in 1 .. n : scanner.buffer[j] # Newline
  PROVE  /\ LineEndingAt(p, c + n + 1) = SubSeq(scanner.buffer, 1, n)
         /\ \A x \in NewlinesFrom(p) : x <= c \/ x > c + n
<1>1. PICK b : b = scanner.buffer
  OBVIOUS
<1>2. /\ b \in Seq(Alphabet) /\ Len(b) \in Nat /\ n \in 0 .. Len(b) /\ n \in Nat /\ at \in Nat
      /\ c + Len(b) <= at
  BY <1>1, ConsumedIs, Given
<1>3. \A j \in 1 .. Len(b) : b[j] = said[c + j]
  BY <1>1 DEF InOrder
<1>4. ASSUME NEW x \in NewlinesFrom(p) PROVE x <= c \/ x > c + n
  <2>1. SUFFICES ASSUME x > c, x <= c + n PROVE FALSE
    BY <1>2, HeardIs DEF NewlinesFrom
  <2>2. x - c \in 1 .. n /\ x - c \in 1 .. Len(b) /\ c + (x - c) = x
    BY <1>2, <2>1, HeardIs DEF NewlinesFrom
  <2>3. b[x - c] = said[x]
    BY <1>3, <2>2
  <2> QED
    BY <1>1, <2>2, <2>3 DEF NewlinesFrom
<1>5. PICK m \in Nat : m = c + 1
  OBVIOUS
<1>6. PICK e \in Nat : e = c + n + 1
  BY <1>2
<1>7. e >= p /\ e <= at + 1 /\ e - m = n
  BY <1>2, <1>5, <1>6
<1>8. m \in Starts(p, e)
  <2>1. CASE p = c + 1
    BY <1>5, <2>1 DEF Starts
  <2>2. CASE p # c + 1
    <3>1. c \in p .. at /\ said[c] = Newline /\ c < e
      BY <1>2, <1>6, <2>2
    <3>2. c \in {y \in NewlinesFrom(p) : y < e}
      BY <3>1 DEF NewlinesFrom
    <3> QED
      BY <1>5, <3>2 DEF Starts
  <2> QED
    BY <2>1, <2>2
<1>9. \A t \in Starts(p, e) : t <= m
  <2>1. ASSUME NEW y \in NewlinesFrom(p), y < e PROVE y + 1 <= m
    <3>1. y \in Nat /\ (y <= c \/ y > c + n)
      BY <1>4 DEF NewlinesFrom
    <3> QED
      BY <1>2, <1>5, <1>6, <2>1, <3>1
  <2>2. p <= m
    BY <1>5
  <2> QED
    BY <2>1, <2>2 DEF Starts
<1>10. LineEndingAt(p, e) = [j \in 1 .. n |-> said[m + j - 1]]
  BY <1>7, <1>8, <1>9, LineFrom
<1>11. SubSeq(b, 1, n) = [j \in 1 .. n |-> said[m + j - 1]]
  <2>1. SubSeq(b, 1, n) = [j \in 1 .. n |-> b[j]]
    BY <1>2
  <2>2. ASSUME NEW j \in 1 .. n PROVE b[j] = said[m + j - 1]
    <3>1. j \in 1 .. Len(b) /\ m + j - 1 = c + j
      BY <1>2, <1>5
    <3> QED
      BY <1>3, <3>1
  <2> QED
    BY <2>1, <2>2
<1> QED
  BY <1>1, <1>4, <1>6, <1>10, <1>11

\* The scanner has gone through the lines that end at c or before, in vain.
ScansFrom(e, p, c) ==
  /\ c = Consumed /\ p >= 1 /\ p <= c + 1
  /\ p = c + 1 \/ said[c] = Newline
  /\ \A x \in MatchEnds(e, p) : x > c

\* What the first whole line in the buffer is.
LEMMA WholeLine ==
  ASSUME Typed, InOrder, prober # "websocket",
         NEW p \in Nat, NEW c \in Nat, NEW e \in Entry, ScansFrom(e, p, c),
         NEW n \in 1 .. Len(scanner.buffer), n = Least(Breaks(scanner.buffer)),
         Breaks(scanner.buffer) # {}
  PROVE  /\ said[c + n] = Newline /\ c + n <= at
         /\ Matches(e.expect, SubSeq(scanner.buffer, 1, n - 1)) =>
              /\ MatchEnds(e, p) # {} /\ Least(MatchEnds(e, p)) = c + n
              /\ LineEndingAt(p, c + n) = SubSeq(scanner.buffer, 1, n - 1)
         /\ ~Matches(e.expect, SubSeq(scanner.buffer, 1, n - 1)) =>
              \A x \in MatchEnds(e, p) : x > c + n
<1>0. /\ c = Consumed /\ p >= 1 /\ p <= c + 1 /\ (p = c + 1 \/ said[c] = Newline)
      /\ \A x \in MatchEnds(e, p) : x > c
  BY DEF ScansFrom
<1>1. PICK b : b = scanner.buffer
  OBVIOUS
<1>2. /\ b \in Seq(Alphabet) /\ Len(b) \in Nat /\ n \in 1 .. Len(b) /\ n \in Nat /\ at \in Nat
      /\ c + Len(b) <= at
  BY <1>0, <1>1, ConsumedIs, Given
<1>3. \A j \in 1 .. Len(b) : b[j] = said[c + j]
  BY <1>0, <1>1 DEF InOrder
<1>4. b[n] = Newline /\ \A j \in 1 .. n - 1 : b[j] # Newline
  BY <1>1, <1>2, BreaksIn
<1>5. PICK m \in 0 .. Len(b) : m = n - 1
  BY <1>2
<1>6. c + m + 1 = c + n
  BY <1>2, <1>5
<1>7. /\ LineEndingAt(p, c + n) = SubSeq(b, 1, n - 1)
      /\ \A x \in NewlinesFrom(p) : x <= c \/ x > c + m
  <2>1. m \in 0 .. Len(scanner.buffer) /\ \A j \in 1 .. m : scanner.buffer[j] # Newline
    BY <1>1, <1>4, <1>5
  <2>2. /\ LineEndingAt(p, c + m + 1) = SubSeq(scanner.buffer, 1, m)
        /\ \A x \in NewlinesFrom(p) : x <= c \/ x > c + m
    BY <1>0, <2>1, BufferedLine
  <2> QED
    BY <1>1, <1>5, <1>6, <2>2
<1>8. PICK x \in Nat : x = c + n
  BY <1>2
<1>9. said[x] = Newline /\ x <= at /\ x >= p
  BY <1>0, <1>2, <1>3, <1>4, <1>8, SMTT(30)
<1>10. x \in LineEnds(p)
  <2>1. x \in NewlinesFrom(p)
    BY <1>2, <1>9 DEF NewlinesFrom
  <2> QED
    BY <1>0, <2>1, LineEndsAre
<1>11. ASSUME NEW y \in MatchEnds(e, p) PROVE y \in Nat /\ x <= y
  <2>1. y > c /\ y \in LineEnds(p) /\ y \in p .. at + 1
    BY <1>0, <1>2, MatchEndsIn
  <2>2. y \in NewlinesFrom(p) \/ y = at + 1
    BY <1>0, <2>1, LineEndsAre
  <2>3. CASE y \in NewlinesFrom(p)
    <3>1. y > c + m /\ y \in Nat
      BY <1>2, <1>7, <2>1, <2>3
    <3> QED
      BY <1>2, <1>5, <1>8, <3>1
  <2>4. CASE y = at + 1
    BY <1>2, <1>9, <2>4
  <2> QED
    BY <2>2, <2>3, <2>4
<1>12. ASSUME Matches(e.expect, SubSeq(b, 1, n - 1))
       PROVE  MatchEnds(e, p) # {} /\ Least(MatchEnds(e, p)) = x
  <2>1. x \in MatchEnds(e, p)
    BY <1>7, <1>8, <1>10, <1>12 DEF MatchEnds
  <2>2. MatchEnds(e, p) \subseteq Nat
    BY <1>11
  <2> QED
    BY <1>11, <2>1, <2>2, LeastUnique
<1>13. ASSUME ~Matches(e.expect, SubSeq(b, 1, n - 1)), NEW y \in MatchEnds(e, p)
       PROVE  y > x
  <2>1. x \notin MatchEnds(e, p)
    BY <1>7, <1>8, <1>13 DEF MatchEnds
  <2>2. y # x /\ y \in Nat /\ x <= y
    BY <1>11, <2>1
  <2> QED
    BY <2>2
<1> QED
  BY <1>1, <1>7, <1>8, <1>9, <1>12, <1>13

\* What the last line is, when the server has ended it by closing.
LEMMA LastLine ==
  ASSUME Typed, InOrder, prober # "websocket",
         NEW p \in Nat, NEW c \in Nat, NEW e \in Entry, ScansFrom(e, p, c),
         Breaks(scanner.buffer) = {}, wire = <<>>, closed
  PROVE  /\ Matches(e.expect, scanner.buffer) =>
              /\ MatchEnds(e, p) # {} /\ Least(MatchEnds(e, p)) = at + 1
              /\ LineEndingAt(p, at + 1) = scanner.buffer
         /\ ~Matches(e.expect, scanner.buffer) => MatchEnds(e, p) = {}
<1>0. /\ c = Consumed /\ p >= 1 /\ p <= c + 1 /\ (p = c + 1 \/ said[c] = Newline)
      /\ \A x \in MatchEnds(e, p) : x > c
  BY DEF ScansFrom
<1>1. PICK b : b = scanner.buffer
  OBVIOUS
<1>2. /\ b \in Seq(Alphabet) /\ Len(b) \in Nat /\ at \in Nat /\ c + Len(b) = at
  BY <1>0, <1>1, ConsumedIs, Given
<1>3. \A j \in 1 .. Len(b) : b[j] # Newline
  BY <1>1, <1>2 DEF Breaks
<1>4. SubSeq(b, 1, Len(b)) = b /\ Len(b) \in 0 .. Len(b) /\ c + Len(b) + 1 = at + 1
  BY <1>2
<1>5. /\ LineEndingAt(p, at + 1) = b
      /\ \A x \in NewlinesFrom(p) : x <= c \/ x > at
  <2>1. PICK n \in 0 .. Len(scanner.buffer) : n = Len(b)
    BY <1>1, <1>2
  <2>2. \A j \in 1 .. n : scanner.buffer[j] # Newline
    BY <1>1, <1>3, <2>1
  <2>3. /\ LineEndingAt(p, c + n + 1) = SubSeq(scanner.buffer, 1, n)
        /\ \A x \in NewlinesFrom(p) : x <= c \/ x > c + n
    BY <1>0, <2>2, BufferedLine
  <2> QED
    BY <1>1, <1>2, <1>4, <2>1, <2>3
<1>6. ASSUME NEW y \in MatchEnds(e, p) PROVE y = at + 1 /\ at + 1 \in LineEnds(p)
  <2>1. y > c /\ y \in LineEnds(p) /\ y \in p .. at + 1
    BY <1>0, <1>2, MatchEndsIn
  <2>2. y \in NewlinesFrom(p) \/ y = at + 1
    BY <1>0, <2>1, LineEndsAre
  <2>3. y \notin NewlinesFrom(p)
    <3>1. y \in NewlinesFrom(p) => y <= at
      BY HeardIs DEF NewlinesFrom
    <3> QED
      BY <1>2, <1>5, <2>1, <3>1
  <2> QED
    BY <2>1, <2>2, <2>3
<1>7. ASSUME Matches(e.expect, b)
      PROVE  MatchEnds(e, p) # {} /\ Least(MatchEnds(e, p)) = at + 1
  <2>1. Len(b) > 0
    BY <1>2, <1>7 DEF Matches
  <2>2. p <= at
    BY <1>0, <1>2, <2>1
  <2>3. at + 1 \in LineEnds(p)
    BY <1>0, <2>2, LineEndsAre
  <2>4. at + 1 \in MatchEnds(e, p)
    BY <1>5, <1>7, <2>3 DEF MatchEnds
  <2>5. PICK x \in Nat : x = at + 1
    BY <1>2
  <2>6. MatchEnds(e, p) \subseteq Nat /\ x \in MatchEnds(e, p) /\ \A y \in MatchEnds(e, p) : x <= y
    BY <1>6, <2>4, <2>5
  <2>7. Least(MatchEnds(e, p)) = x
    BY <2>6, LeastUnique
  <2> QED
    BY <2>5, <2>6, <2>7
<1>8. ASSUME ~Matches(e.expect, b) PROVE MatchEnds(e, p) = {}
  <2>1. ASSUME NEW y \in MatchEnds(e, p) PROVE FALSE
    <3>1. Matches(e.expect, LineEndingAt(p, y)) /\ y = at + 1
      BY <1>6 DEF MatchEnds
    <3> QED
      BY <1>5, <1>8, <3>1
  <2> QED
    BY <2>1
<1> QED
  BY <1>1, <1>5, <1>7, <1>8

LEMMA NoHelloYet ==
  ASSUME HelloAhead, pc # "handshake", registered \subseteq registered', at' = at, said' = said
  PROVE  HelloAhead'
BY DEF HelloAhead

\* The scanner holds something: the entry has an expression and no starttls
\* came since.
LEMMA HeldByThis ==
  ASSUME Typed, NEW k \in 1 .. Len(script), script[k].expect # None, i' = k, script' = script,
         pc' # "entry"
  PROVE  BufferSince'
<1>1. k \in Nat /\ k \in 1 .. k /\ \A m \in k .. k - 1 : ~script[m].starttls
  BY Given
<1> QED
  BY <1>1 DEF BufferSince

LEMMA ScanStarts ==
  ASSUME Conversation, pc = "scan"
  PROVE  /\ Typed /\ InOrder /\ HelloAhead /\ BufferSince
         /\ failedDueToRegex = 0 /\ failedDueToBytes = 0 /\ verdict = "none"
         /\ i \in 1 .. Len(script) /\ prober # "websocket" /\ Consumed \in Nat
         /\ \E p \in Nat, e \in Entry :
              /\ p = Behind[i - 1] /\ e = Asked(i) /\ e = script[i] /\ p # 0 /\ p >= 1
              /\ e.expect # None /\ Scanning(e, p)
<1>1. /\ Typed /\ InOrder /\ HelloAhead /\ BufferSince /\ Place
      /\ failedDueToRegex = 0 /\ failedDueToBytes = 0 /\ verdict = "none"
      /\ i \in 1 .. Len(script) /\ Consumed \in Nat
  BY InEntryWhere, ConsumedIs DEF Conversation, Standing, InEntry
<1>2. PICK p \in Nat, e \in Entry : p = Behind[i - 1] /\ e = Asked(i) /\ p # 0 /\ At(e, p)
  BY <1>1 DEF Place, InEntry
<1>3. e.expect # None /\ prober # "websocket" /\ Scanning(e, p)
  <2>1. pc = "scan" /\ At(e, p)
    BY <1>2
  <2> QED
    BY <2>1, Zenon DEF At
<1>4. Asked(i) = script[i]
  BY <1>1, <1>3, EntryFields
<1>5. e = script[i] /\ p >= 1
  BY <1>2, <1>4
<1> QED
  BY <1>1, <1>2, <1>3, <1>5

LEMMA StillScans ==
  ASSUME Conversation, Quiet, pc = "scan", pc' = "scan", UNCHANGED <<i, line, results, verdict>>,
         NEW p \in Nat, NEW e \in Entry, p = Behind[i - 1], e = Asked(i), p # 0, e.expect # None,
         Scanning(e, p)', InOrder'
  PROVE  Agreement' /\ Verdicts' /\ Standing'
<1>1. /\ Typed /\ HelloAhead /\ failedDueToRegex = 0 /\ failedDueToBytes = 0 /\ verdict = "none"
      /\ i \in 1 .. Len(script) /\ prober # "websocket"
  BY ScanStarts
<1>2. Onward /\ settings' = settings /\ at' = at
  BY DEF Onward, Quiet
<1>3. Agreement' /\ Verdicts'
  BY <1>1, <1>2, GoesOn DEF results, Conversation
<1>4. p = Behind'[i' - 1] /\ e = Asked(i)'
  <2>1. i' = i /\ i \in 1 .. Len(script) + 1
    BY <1>1, Given
  <2> QED
    BY <1>2, <2>1, HereOnward, EntryHereOnward
<1>5. Place'
  <2>1. At(e, p)'
    BY <1>1, <1>2 DEF At, settings
  <2> QED
    BY <1>4, <2>1 DEF Place
<1>6. HelloAhead'
  BY <1>1, <1>2, NoHelloYet DEF results, settings
<1>7. BufferSince'
  <2>1. script[i].expect # None /\ script' = script
    BY <1>1, <1>2, EntryFields DEF settings
  <2> QED
    BY <1>1, <2>1, HeldByThis
<1>8. prober' # "websocket"
  BY <1>1, <1>2 DEF settings
<1> QED
  BY <1>3, <1>5, <1>6, <1>7, <1>8 DEF Standing

LEMMA MatchedHolds ==
  ASSUME ReadsApart, Conversation, Typed', pc = "scan", NEW text, Matched(text),
         NEW p \in Nat, NEW e \in Entry, p = Behind[i - 1], e = Asked(i), p # 0, e.expect # None,
         NEW x \in Nat, MatchEnds(e, p) # {}, x = Least(MatchEnds(e, p)),
         text = LineEndingAt(p, x), Stands(x + 1)', InOrder'
  PROVE  Agreement' /\ Verdicts' /\ Standing'
<1>1. /\ Typed /\ HelloAhead /\ failedDueToRegex = 0 /\ failedDueToBytes = 0 /\ verdict = "none"
      /\ i \in 1 .. Len(script) /\ prober # "websocket"
  BY ScanStarts
<1>2. /\ line' = text /\ failedDueToRegex' = 0
      /\ UNCHANGED <<settings, server, wire, secure, i, sent, failedDueToBytes>>
      /\ registered \subseteq registered'
      /\ \/ pc' = AfterExpect(script[i]) /\ verdict' = verdict
         \/ pc' = "done" /\ verdict' = "panic"
  BY DEF Matched, Return
<1>3. Onward /\ Quiet
  BY <1>1, <1>2 DEF Onward, Quiet, server
<1>4. CASE pc' = "done" /\ verdict' = "panic"
  BY <1>1, <1>2, <1>3, <1>4, EndsBadly
<1>5. CASE pc' = AfterExpect(script[i]) /\ verdict' = verdict
  <2>1. e = script[i] /\ e.bytes = <<>>
    BY <1>1, EntryFields, NoBytesBehindExpect
  <2>2. pc' = "send"
    BY <1>5, <2>1, FirstStageIs
  <2>3. Agreement' /\ Verdicts'
    BY <1>1, <1>2, <1>3, <1>5, GoesOn
  <2>4. p = Behind'[i' - 1] /\ e = Asked(i)'
    <3>1. i' = i /\ i \in 1 .. Len(script) + 1
      BY <1>1, <1>2, Given
    <3> QED
      BY <1>3, <3>1, HereOnward, EntryHereOnward
  <2>5. BehindLine(e, p) = x + 1
    BY DEF BehindLine
  <2>6. PICK q \in Nat : q = x + 1
    OBVIOUS
  <2>7. q = BehindLine(e, p)' /\ q # 0
    BY <1>3, <2>5, <2>6, EntryQuiet
  <2>8. q = BehindBytes(e, q)'
    BY <2>1 DEF BehindBytes
  <2>9. Stands(q)'
    BY <2>6 DEF Stands, Lapsed
  <2>10. Met(e, p)'
    BY <2>7, <2>8, <2>9 DEF Met
  <2>11. MatchedWith(e, p, text)
    BY DEF MatchedWith
  <2>12. MatchedWith(e, p, line)'
    <3>1. MatchedWith(e, p, text)'
      BY <1>3, <2>11, MatchedOnward
    <3> QED
      BY <1>2, <3>1 DEF MatchedWith
  <2>13. Place'
    <3>1. At(e, p)'
      BY <2>2, <2>10, <2>12 DEF At
    <3> QED
      BY <2>2, <2>4, <3>1 DEF Place
  <2>14. HelloAhead' /\ prober' # "websocket"
    BY <1>1, <1>2, NoHelloYet DEF settings, server
  <2>15. BufferSince'
    <3>1. script' = script /\ i' = i /\ pc' # "entry" /\ script[i].expect # None
      BY <1>2, <2>1, <2>2 DEF settings
    <3> QED
      BY <1>1, <3>1, HeldByThis
  <2> QED
    BY <2>3, <2>13, <2>14, <2>15 DEF Standing
<1> QED
  BY <1>2, <1>4, <1>5

LEMMA ScanLineHolds ==
  ASSUME ReadsApart, Conversation, Typed', ScanLine
  PROVE  Agreement' /\ Verdicts' /\ Standing'
<1>1. pc = "scan" /\ Breaks(scanner.buffer) # {}
  BY DEF ScanLine
<1>2. /\ Typed /\ InOrder /\ i \in 1 .. Len(script) /\ prober # "websocket" /\ Consumed \in Nat
  BY <1>1, ScanStarts
<1>3. PICK p \in Nat, e \in Entry :
        /\ p = Behind[i - 1] /\ e = Asked(i) /\ e = script[i] /\ p # 0 /\ p >= 1
        /\ e.expect # None /\ Scanning(e, p)
  BY <1>1, ScanStarts
<1>4. PICK b : b = scanner.buffer
  OBVIOUS
<1>5. PICK n : n = Least(Breaks(b))
  OBVIOUS
<1>6. PICK text : text = SubSeq(b, 1, n - 1)
  OBVIOUS
<1>7. PICK c \in Nat : c = Consumed
  BY <1>2
<1>8. /\ b \in Seq(Alphabet) /\ Len(b) \in Nat /\ n \in 1 .. Len(b) /\ at \in Nat
      /\ at = c + Len(b) + Len(wire) /\ Len(wire) \in Nat
  BY <1>1, <1>2, <1>4, <1>5, <1>7, ConsumedIs, BreaksIn, Given
<1>9. /\ scanner' = [scanner EXCEPT !.buffer = SubSeq(b, n + 1, Len(b))]
      /\ IF Matches(e.expect, text) THEN Matched(text)
         ELSE UNCHANGED <<settings, server, wire, secure, pc, i, line, results, verdict>>
  BY <1>3, <1>4, <1>5, <1>6 DEF ScanLine
<1>10. /\ UNCHANGED <<settings, server, wire, i, sent, failedDueToBytes>>
  BY <1>9 DEF Matched, results
<1>11. Quiet
  BY <1>2, <1>10 DEF Quiet, server
<1>12. ~scanner.eof
  <2>1. b # <<>>
    BY <1>8
  <2> QED
    BY <1>3, <1>4, <2>1 DEF Scanning, Lapsed
<1>13. /\ scanner'.eof = scanner.eof /\ scanner'.buffer = SubSeq(b, n + 1, Len(b))
       /\ Len(scanner'.buffer) = Len(b) - n
       /\ \A j \in 1 .. Len(b) - n : scanner'.buffer[j] = b[n + j]
  <2>1. scanner'.eof = scanner.eof /\ scanner'.buffer = SubSeq(b, n + 1, Len(b))
    BY <1>2, <1>9 DEF Typed
  <2>2. Len(SubSeq(b, n + 1, Len(b))) = Len(b) - n
    BY <1>8
  <2>3. \A j \in 1 .. Len(b) - n : SubSeq(b, n + 1, Len(b))[j] = b[n + j]
    BY <1>8
  <2> QED
    BY <2>1, <2>2, <2>3
<1>14. Consumed' = c + n
  <2>1. at' = at /\ wire' = wire
    BY <1>10 DEF server
  <2>2. Consumed' = at - Len(wire) - (Len(b) - n)
    BY <1>13, <2>1 DEF Consumed
  <2> QED
    BY <1>8, <2>2
<1>15. InOrder'
  <2>1. ASSUME NEW j \in 1 .. Len(scanner'.buffer)
        PROVE  scanner'.buffer[j] = said'[c + n + j]
    <3>1. n + j \in 1 .. Len(b) /\ c + (n + j) = c + n + j /\ j \in 1 .. Len(b) - n
      BY <1>8, <1>13
    <3>2. b[n + j] = said[c + (n + j)]
      BY <1>2, <1>4, <1>7, <3>1 DEF InOrder
    <3> QED
      BY <1>10, <1>13, <3>1, <3>2 DEF settings
  <2>2. \A j \in 1 .. Len(wire') : wire'[j] = said'[at' - Len(wire') + j]
    BY <1>2, <1>10 DEF InOrder, settings, server
  <2> QED
    BY <1>14, <2>1, <2>2 DEF InOrder
<1>16. ScansFrom(e, p, c) /\ p <= c + 1
  BY <1>3, <1>7, <1>12 DEF Scanning, ScansFrom
<1>17. /\ said[c + n] = Newline /\ c + n <= at
       /\ Matches(e.expect, text) =>
            /\ MatchEnds(e, p) # {} /\ Least(MatchEnds(e, p)) = c + n
            /\ LineEndingAt(p, c + n) = text
       /\ ~Matches(e.expect, text) => \A x \in MatchEnds(e, p) : x > c + n
  <2>1. n \in 1 .. Len(scanner.buffer) /\ n = Least(Breaks(scanner.buffer))
    BY <1>4, <1>5, <1>8
  <2>2. /\ said[c + n] = Newline /\ c + n <= at
        /\ Matches(e.expect, SubSeq(scanner.buffer, 1, n - 1)) =>
             /\ MatchEnds(e, p) # {} /\ Least(MatchEnds(e, p)) = c + n
             /\ LineEndingAt(p, c + n) = SubSeq(scanner.buffer, 1, n - 1)
        /\ ~Matches(e.expect, SubSeq(scanner.buffer, 1, n - 1)) =>
             \A x \in MatchEnds(e, p) : x > c + n
    BY <1>1, <1>2, <1>16, <2>1, WholeLine
  <2> QED
    BY <1>4, <1>6, <2>2
<1>18. PICK x \in Nat : x = c + n
  BY <1>8
<1>19. CASE Matches(e.expect, text)
  <2>1. Matched(text)
    BY <1>9, <1>19
  <2>2. MatchEnds(e, p) # {} /\ x = Least(MatchEnds(e, p)) /\ text = LineEndingAt(p, x)
    BY <1>17, <1>18, <1>19
  <2>3. Stands(x + 1)'
    BY <1>12, <1>13, <1>14, <1>18 DEF Stands
  <2> QED
    BY <1>1, <1>3, <1>15, <2>1, <2>2, <2>3, MatchedHolds
<1>20. CASE ~Matches(e.expect, text)
  <2>1. pc' = "scan" /\ UNCHANGED <<i, line, results, verdict>>
    BY <1>1, <1>9, <1>20
  <2>2. \A y \in MatchEnds(e, p)' : y > x
    BY <1>11, <1>17, <1>18, <1>20, LinesQuiet
  <2>3. p \in 1 .. x + 1 /\ said'[x] = Newline /\ ~scanner'.eof /\ Consumed' = x
    <3>1. said'[x] = Newline /\ ~scanner'.eof /\ Consumed' = x
      BY <1>10, <1>12, <1>13, <1>14, <1>17, <1>18 DEF settings
    <3>2. p \in 1 .. x + 1
      BY <1>3, <1>8, <1>16, <1>18
    <3> QED
      BY <3>1, <3>2
  <2>4. Scanning(e, p)'
    BY <2>2, <2>3 DEF Scanning
  <2> QED
    BY <1>1, <1>3, <1>11, <1>15, <2>1, <2>4, StillScans
<1> QED
  BY <1>19, <1>20

LEMMA ScanReadsHolds ==
  ASSUME Conversation, Typed', ScanReads
  PROVE  Agreement' /\ Verdicts' /\ Standing'
<1>1. /\ pc = "scan" /\ ~scanner.eof
      /\ UNCHANGED <<settings, server, secure, pc, i, line, results, verdict>>
  BY DEF ScanReads, NeedsData
<1>2. /\ Typed /\ InOrder /\ i \in 1 .. Len(script) /\ prober # "websocket" /\ Consumed \in Nat
  BY <1>1, ScanStarts
<1>3. PICK p \in Nat, e \in Entry :
        /\ p = Behind[i - 1] /\ e = Asked(i) /\ e = script[i] /\ p # 0 /\ p >= 1
        /\ e.expect # None /\ Scanning(e, p)
  BY <1>1, ScanStarts
<1>4. PICK n \in ReadSizes(MaxToken - Len(scanner.buffer)) :
        /\ scanner' = [scanner EXCEPT !.buffer = @ \o SubSeq(wire, 1, n)]
        /\ wire' = SubSeq(wire, n + 1, Len(wire))
  BY DEF ScanReads
<1>5. PICK b : b = scanner.buffer
  OBVIOUS
<1>6. PICK c \in Nat : c = Consumed
  BY <1>2
<1>7. /\ b \in Seq(Alphabet) /\ Len(b) \in Nat /\ wire \in Seq(Alphabet) /\ Len(wire) \in Nat
      /\ at \in Nat /\ at = c + Len(b) + Len(wire)
  BY <1>2, <1>5, <1>6, ConsumedIs, Given DEF Typed
<1>8. n \in Nat /\ n <= Len(wire)
  <2>1. MaxToken - Len(scanner.buffer) \in Int /\ MaxToken - Len(scanner.buffer) >= 0
    BY <1>2, Given
  <2> QED
    BY <1>2, <2>1, ReadSizesAre
<1>9. PICK part : part = SubSeq(wire, 1, n)
  OBVIOUS
<1>10. part \in Seq(Alphabet) /\ Len(part) = n /\ \A j \in 1 .. n : part[j] = wire[j]
  BY <1>7, <1>8, <1>9
<1>11. scanner'.eof = scanner.eof /\ scanner'.buffer = b \o part
  BY <1>2, <1>4, <1>5, <1>9 DEF Typed
<1>12. /\ Len(b \o part) = Len(b) + n
       /\ \A j \in 1 .. Len(b) + n : (b \o part)[j] = IF j <= Len(b) THEN b[j] ELSE part[j - Len(b)]
  BY <1>7, <1>10, ConcatProperties
<1>13. Len(wire') = Len(wire) - n /\ \A j \in 1 .. Len(wire) - n : wire'[j] = wire[n + j]
  <2>1. PICK m \in Nat : m = Len(wire)
    BY <1>7
  <2>2. wire' = SubSeq(wire, n + 1, m)
    BY <1>4, <2>1
  <2>3. wire \in Seq(Alphabet) /\ n \in Nat /\ n <= m
    BY <1>7, <1>8, <2>1
  <2>4. Len(wire') = m - n /\ \A j \in 1 .. m - n : wire'[j] = wire[n + j]
    BY <2>1, <2>2, <2>3, SMTT(60)
  <2> QED
    BY <2>1, <2>4
<1>14. at' = at /\ said' = said /\ Consumed' = c
  <2>1. at' = at /\ said' = said
    BY <1>1 DEF server, settings
  <2> QED
    BY <1>7, <1>8, <1>11, <1>12, <1>13, <2>1 DEF Consumed
<1>15. InOrder'
  <2>1. /\ \A j \in 1 .. Len(b) : b[j] = said[c + j]
        /\ \A j \in 1 .. Len(wire) : wire[j] = said[at - Len(wire) + j]
    BY <1>2, <1>5, <1>6 DEF InOrder
  <2>2. ASSUME NEW j \in 1 .. Len(b) + n PROVE (b \o part)[j] = said[c + j]
    <3>1. CASE j <= Len(b)
      BY <1>7, <1>8, <1>12, <2>1, <3>1
    <3>2. CASE ~(j <= Len(b))
      <4>1. j - Len(b) \in 1 .. n /\ j - Len(b) \in 1 .. Len(wire)
        BY <1>7, <1>8, <3>2
      <4>2. at - Len(wire) + (j - Len(b)) = c + j
        BY <1>7, <4>1
      <4>3. (b \o part)[j] = wire[j - Len(b)]
        BY <1>10, <1>12, <3>2, <4>1
      <4> QED
        BY <2>1, <4>1, <4>2, <4>3
    <3> QED
      BY <3>1, <3>2
  <2>3. ASSUME NEW j \in 1 .. Len(wire') PROVE wire'[j] = said[at - Len(wire') + j]
    <3>1. /\ j \in 1 .. Len(wire) - n /\ n + j \in 1 .. Len(wire)
          /\ at - Len(wire) + (n + j) = at - Len(wire') + j
      BY <1>7, <1>8, <1>13
    <3>2. wire'[j] = wire[n + j]
      BY <1>13, <3>1
    <3>3. wire[n + j] = said[at - Len(wire) + (n + j)]
      BY <2>1, <3>1
    <3> QED
      BY <3>1, <3>2, <3>3
  <2> QED
    BY <1>11, <1>12, <1>14, <2>2, <2>3 DEF InOrder
<1>16. Quiet
  BY <1>1, <1>2 DEF Quiet, server
<1>17. Scanning(e, p)'
  <2>1. /\ p \in 1 .. c + 1 /\ (p = c + 1 \/ said[c] = Newline)
        /\ \A x \in MatchEnds(e, p) : x > c
    BY <1>1, <1>3, <1>6 DEF Scanning
  <2>2. \A x \in MatchEnds(e, p)' : x > c
    BY <1>16, <2>1, LinesQuiet
  <2>3. ~scanner'.eof
    BY <1>1, <1>11
  <2> QED
    BY <1>14, <2>1, <2>2, <2>3 DEF Scanning
<1> QED
  BY <1>1, <1>3, <1>15, <1>16, <1>17, StillScans

-----------------------------------------------------------------------------
(* The end of the connection, and expect_bytes.                            *)

\* What is left when the first n elements are taken.
LEMMA RestIs ==
  ASSUME NEW s \in Seq(Alphabet), NEW n \in Nat, n <= Len(s)
  PROVE  /\ Len(SubSeq(s, n + 1, Len(s))) = Len(s) - n
         /\ \A j \in 1 .. Len(s) - n : SubSeq(s, n + 1, Len(s))[j] = s[n + j]
OBVIOUS

LEMMA BlameRegex ==
  ASSUME Conversation, Onward, pc' = "done", verdict' = "failure", failedDueToBytes' = 0,
         sent' = sent, RegexBlamed'
  PROVE  Agreement' /\ Verdicts' /\ Standing'
BY AgreementOnward DEF Conversation, Verdicts, Standing

LEMMA ScanEndsHolds ==
  ASSUME ReadsApart, Conversation, Typed', ScanEnds
  PROVE  Agreement' /\ Verdicts' /\ Standing'
<1>1. /\ pc = "scan" /\ Breaks(scanner.buffer) = {}
      /\ scanner.eof \/ (closed /\ wire = <<>>)
      /\ scanner' = [buffer |-> <<>>, eof |-> TRUE]
  BY DEF ScanEnds
<1>2. /\ Typed /\ InOrder /\ i \in 1 .. Len(script) /\ prober # "websocket" /\ Consumed \in Nat
      /\ failedDueToBytes = 0
  BY <1>1, ScanStarts
<1>3. PICK p \in Nat, e \in Entry :
        /\ p = Behind[i - 1] /\ e = Asked(i) /\ e = script[i] /\ p # 0 /\ p >= 1
        /\ e.expect # None /\ Scanning(e, p)
  BY <1>1, ScanStarts
<1>4. PICK b : b = scanner.buffer
  OBVIOUS
<1>5. \/ Matches(e.expect, b) /\ Matched(b)
      \/ /\ ~Matches(e.expect, b)
         /\ failedDueToRegex' = 1 /\ Return("failure")
         /\ UNCHANGED <<settings, server, wire, secure, i, line, sent, registered,
                        failedDueToBytes>>
  BY <1>3, <1>4 DEF ScanEnds
<1>6. UNCHANGED <<settings, server, wire, i, sent, failedDueToBytes>>
  BY <1>5 DEF Matched
<1>7. Quiet /\ Onward
  BY <1>2, <1>6 DEF Quiet, Onward, server
<1>8. closed /\ wire = <<>>
  BY <1>1, <1>3 DEF Scanning, Lapsed
<1>9. /\ Matches(e.expect, b) => /\ MatchEnds(e, p) # {} /\ Least(MatchEnds(e, p)) = at + 1
                                 /\ LineEndingAt(p, at + 1) = b
      /\ ~Matches(e.expect, b) => MatchEnds(e, p) = {}
  <2>1. CASE scanner.eof
    <3>1. p = at + 2 /\ b = <<>> /\ at \in Nat
      BY <1>2, <1>3, <1>4, <2>1, ConsumedIs DEF Scanning, Lapsed
    <3>2. ~Matches(e.expect, b)
      BY <3>1 DEF Matches
    <3>3. MatchEnds(e, p) \subseteq p .. at + 1
      BY <1>2, <1>3, MatchEndsIn
    <3>4. MatchEnds(e, p) = {}
      BY <3>1, <3>3
    <3> QED
      BY <3>2, <3>4
  <2>2. CASE ~scanner.eof
    <3>1. PICK c \in Nat : c = Consumed
      BY <1>2
    <3>2. ScansFrom(e, p, c)
      BY <1>3, <2>2, <3>1 DEF Scanning, ScansFrom
    <3>3. /\ Matches(e.expect, scanner.buffer) =>
               /\ MatchEnds(e, p) # {} /\ Least(MatchEnds(e, p)) = at + 1
               /\ LineEndingAt(p, at + 1) = scanner.buffer
          /\ ~Matches(e.expect, scanner.buffer) => MatchEnds(e, p) = {}
      BY <1>1, <1>2, <1>8, <3>2, LastLine
    <3> QED
      BY <1>4, <3>3
  <2> QED
    BY <2>1, <2>2
<1>10. CASE Matches(e.expect, b) /\ Matched(b)
  <2>1. PICK x \in Nat : x = at + 1
    BY <1>2, ConsumedIs
  <2>2. MatchEnds(e, p) # {} /\ x = Least(MatchEnds(e, p)) /\ b = LineEndingAt(p, x)
    BY <1>9, <1>10, <2>1
  <2>3. closed' = closed /\ wire' = wire /\ at' = at /\ said' = said
    BY <1>6 DEF server, settings
  <2>4. x + 1 = at' + 2
    BY <1>2, <2>1, <2>3, ConsumedIs
  <2>5. Stands(x + 1)'
    BY <1>1, <1>8, <2>3, <2>4 DEF Stands, Lapsed
  <2>6. InOrder'
    <3>1. scanner'.buffer = <<>> /\ wire' = <<>>
      BY <1>1, <1>8, <2>3
    <3> QED
      BY <3>1 DEF InOrder
  <2> QED
    BY <1>1, <1>3, <1>10, <2>2, <2>5, <2>6, MatchedHolds
<1>11. CASE /\ ~Matches(e.expect, b)
            /\ failedDueToRegex' = 1 /\ Return("failure")
            /\ UNCHANGED <<settings, server, wire, secure, i, line, sent, registered,
                           failedDueToBytes>>
  <2>1. MatchEnds(e, p) = {}
    BY <1>9, <1>11
  <2>2. MatchEnds(e, p)' = {}
    BY <1>7, <2>1, LinesQuiet
  <2>3. p = Behind'[i' - 1]
    <3>1. i' = i /\ i \in 1 .. Len(script) + 1
      BY <1>2, <1>6, Given
    <3> QED
      BY <1>3, <1>7, <3>1, HereOnward
  <2>4. closed' /\ prober' # "websocket" /\ e.expect = script'[i'].expect
    BY <1>2, <1>3, <1>6, <1>8 DEF server, settings
  <2>5. RegexBlamed'
    BY <1>2, <1>3, <1>6, <2>2, <2>3, <2>4 DEF RegexBlamed, settings
  <2> QED
    BY <1>2, <1>7, <1>11, <2>5, BlameRegex DEF Return
<1> QED
  BY <1>5, <1>10, <1>11

LEMMA BytesHold ==
  ASSUME Conversation, Typed', ReadBytes
  PROVE  Agreement' /\ Verdicts' /\ Standing'
<1>1. /\ pc = "read"
      /\ UNCHANGED <<settings, server, scanner, secure, i, line, sent, registered,
                     failedDueToRegex>>
  BY DEF ReadBytes
<1>2. /\ Typed /\ InOrder /\ HelloAhead /\ BufferSince /\ Place /\ i \in 1 .. Len(script)
      /\ failedDueToRegex = 0 /\ failedDueToBytes = 0 /\ verdict = "none"
  BY <1>1, InEntryWhere DEF Conversation, Standing, InEntry
<1>3. PICK p \in Nat, e \in Entry : p = Behind[i - 1] /\ e = Asked(i) /\ p # 0 /\ At(e, p)
  BY <1>1, <1>2 DEF Place, InEntry
<1>4. /\ e.expect = None /\ e.bytes # <<>> /\ prober # "websocket"
      /\ scanner = NewScanner /\ line = <<>> /\ Stands(p)
  BY <1>1, <1>3 DEF At
<1>5. e = script[i] /\ e.bytes \in Seq(Alphabet)
  <2>1. Asked(i) = script[i]
    BY <1>2, <1>4, EntryFields
  <2> QED
    BY <1>3, <2>1 DEF Entry
<1>6. PICK len \in Nat : len = Len(e.bytes)
  BY <1>5
<1>7. PICK n \in ReadSizes(len) :
        /\ wire' = SubSeq(wire, n + 1, Len(wire))
        /\ \/ n < len /\ Return("failure") /\ UNCHANGED failedDueToBytes
           \/ /\ n = len /\ SubSeq(wire, 1, n) # e.bytes
              /\ failedDueToBytes' = 1 /\ Return("failure")
           \/ /\ ~(n < len) /\ ~(n = len /\ SubSeq(wire, 1, n) # e.bytes)
              /\ failedDueToBytes' = 0 /\ pc' = "send" /\ UNCHANGED verdict
  BY <1>5, <1>6 DEF ReadBytes
<1>8. n \in Nat /\ n <= Len(wire) /\ n <= len
  BY <1>2, <1>6, <1>7, ReadSizesAre
<1>9. /\ wire \in Seq(Alphabet) /\ Len(wire) \in Nat /\ at \in Nat /\ at - Len(wire) + 1 = p
      /\ scanner.buffer = <<>> /\ ~scanner.eof
  <2>1. scanner.buffer = <<>> /\ ~scanner.eof /\ Len(scanner.buffer) = 0
    BY <1>4 DEF NewScanner
  <2> QED
    BY <1>2, <1>4, <2>1, ConsumedIs DEF Typed, Stands, Consumed
<1>10. Quiet /\ Onward
  BY <1>1, <1>2 DEF Quiet, Onward, server
<1>11. p = Behind'[i' - 1] /\ e = Asked(i)' /\ e = script'[i'] /\ prober' = prober /\ at' = at
  <2>1. i' = i /\ i \in 1 .. Len(script) + 1
    BY <1>1, <1>2, Given
  <2>2. p = Behind'[i' - 1] /\ e = Asked(i)'
    BY <1>3, <1>10, <2>1, HereOnward, EntryHereOnward
  <2> QED
    BY <1>1, <1>5, <2>2 DEF settings, server
<1>12. BehindLine(e, p) = p /\ BehindLine(e, p)' = p
  BY <1>4 DEF BehindLine
<1>13. ASSUME n = len
       PROVE  p + len - 1 <= at /\ (StandAt(e.bytes, p) <=> SubSeq(wire, 1, n) = e.bytes)
  <2>1. p + len - 1 <= at /\ p + len - 1 \in Int /\ p + len - 1 >= p - 1 /\ p >= 1
    BY <1>3, <1>8, <1>9, <1>13
  <2>2. SubSeq(Heard, p, p + len - 1) = [j \in 1 .. (p + len - 1) - p + 1 |-> said[p + j - 1]]
    BY <1>2, <2>1, HeardPart
  <2>3. (p + len - 1) - p + 1 = n
    BY <1>3, <1>13
  <2>4. SubSeq(wire, 1, n) = [j \in 1 .. n |-> wire[j]]
    BY <1>8, <1>9
  <2>5. ASSUME NEW j \in 1 .. n PROVE wire[j] = said[p + j - 1]
    <3>1. j \in 1 .. Len(wire) /\ at - Len(wire) + j = p + j - 1
      BY <1>8, <1>9
    <3> QED
      BY <1>2, <3>1 DEF InOrder
  <2>6. SubSeq(wire, 1, n) = SubSeq(Heard, p, p + len - 1)
    BY <2>2, <2>3, <2>4, <2>5
  <2> QED
    BY <1>6, <2>1, <2>6 DEF StandAt
<1>14. CASE n < len /\ Return("failure") /\ UNCHANGED failedDueToBytes
  BY <1>1, <1>2, <1>10, <1>14, EndsBadly DEF Return
<1>15. CASE /\ n = len /\ SubSeq(wire, 1, n) # e.bytes
            /\ failedDueToBytes' = 1 /\ Return("failure")
  <2>1. p + Len(e.bytes) - 1 <= at' /\ ~StandAt(e.bytes, p)
    BY <1>6, <1>11, <1>13, <1>15
  <2>2. ~StandAt(e.bytes, p)'
    BY <1>10, <2>1, EntryQuiet
  <2>3. BytesBlamed'
    BY <1>1, <1>2, <1>3, <1>11, <1>12, <2>1, <2>2 DEF BytesBlamed, settings
  <2>4. Verdicts' /\ Standing'
    BY <1>1, <1>2, <1>15, <2>3 DEF Verdicts, Standing, Return
  <2> QED
    BY <1>1, <1>10, <2>4, AgreementOnward DEF Conversation
<1>16. CASE /\ ~(n < len) /\ ~(n = len /\ SubSeq(wire, 1, n) # e.bytes)
            /\ failedDueToBytes' = 0 /\ pc' = "send" /\ UNCHANGED verdict
  <2>1. n = len /\ StandAt(e.bytes, p)
    <3>1. n = len
      BY <1>8, <1>16
    <3> QED
      BY <1>13, <1>16, <3>1
  <2>2. BehindBytes(e, p) = p + len /\ p + len \in Nat /\ p + len # 0
    BY <1>3, <1>4, <1>6, <2>1 DEF BehindBytes
  <2>3. BehindBytes(e, p)' = p + len
    BY <1>10, <2>2, EntryQuiet
  <2>4. /\ Len(wire') = Len(wire) - n /\ \A j \in 1 .. Len(wire) - n : wire'[j] = wire[n + j]
    <3>1. wire' = SubSeq(wire, n + 1, Len(wire))
      BY <1>7
    <3> QED
      BY <1>8, <1>9, <3>1, RestIs
  <2>5. Stands(p + len)'
    <3>1. scanner' = scanner /\ Len(scanner'.buffer) = 0 /\ ~scanner'.eof
      BY <1>1, <1>9
    <3>2. Consumed' = at - (Len(wire) - n) - 0
      BY <1>11, <2>4, <3>1 DEF Consumed
    <3>3. p + len = Consumed' + 1
      BY <1>8, <1>9, <2>1, <3>2
    <3> QED
      BY <3>1, <3>3 DEF Stands
  <2>6. Met(e, p)'
    BY <1>3, <1>12, <2>2, <2>3, <2>5 DEF Met
  <2>7. MatchedWith(e, p, line)'
    BY <1>1, <1>4 DEF MatchedWith
  <2>8. Place'
    <3>1. At(e, p)'
      BY <1>16, <2>6, <2>7 DEF At
    <3> QED
      BY <1>3, <1>11, <1>16, <3>1 DEF Place
  <2>9. InOrder'
    <3>1. scanner'.buffer = <<>> /\ said' = said
      BY <1>1, <1>9 DEF settings
    <3>2. ASSUME NEW j \in 1 .. Len(wire') PROVE wire'[j] = said'[at' - Len(wire') + j]
      <4>1. /\ j \in 1 .. Len(wire) - n /\ n + j \in 1 .. Len(wire)
            /\ at - Len(wire) + (n + j) = at - Len(wire') + j
        BY <1>8, <1>9, <2>4
      <4>2. wire[n + j] = said[at - Len(wire) + (n + j)]
        BY <1>2, <4>1 DEF InOrder
      <4> QED
        BY <1>11, <2>4, <3>1, <4>1, <4>2
    <3> QED
      BY <3>1, <3>2 DEF InOrder
  <2>10. HelloAhead'
    BY <1>1, <1>2, <1>11, NoHelloYet DEF settings
  <2>11. BufferSince'
    BY <1>1, <1>9 DEF BufferSince
  <2>12. Agreement' /\ Verdicts'
    BY <1>1, <1>2, <1>10, <1>16, GoesOn
  <2> QED
    BY <1>4, <1>11, <2>8, <2>9, <2>10, <2>11, <2>12 DEF Standing
<1> QED
  BY <1>7, <1>14, <1>15, <1>16

-----------------------------------------------------------------------------
(* send and starttls.                                                      *)

\* The position behind an entry, from the position behind its bytes.
LEMMA NextPlace ==
  ASSUME Typed, NEW k \in 1 .. Len(script), NEW p \in Nat, NEW e \in Entry,
         p = Behind[k - 1], e = Asked(k), p # 0,
         NEW q \in Nat, NEW r \in Nat, q = BehindLine(e, p), r = BehindBytes(e, q)
  PROVE  Behind[k] = BehindHello(e, r)
<1>1. k \in 0 .. Len(script) /\ k # 0
  BY Given
<1>2. Behind[k] = BehindEntry(e, p)
  BY <1>1, BehindStepsHold DEF BehindSteps
<1> QED
  BY <1>2 DEF BehindEntry

LEMMA SendHolds ==
  ASSUME Conversation, Typed', Send
  PROVE  Agreement' /\ Verdicts' /\ Standing'
<1>1. /\ pc = "send" /\ sent' = Append(sent, SendText)
      /\ UNCHANGED <<settings, server, connection, line, registered, failedDueToRegex,
                     failedDueToBytes, verdict>>
      /\ \/ Asked(i).starttls /\ pc' = "handshake" /\ i' = i
         \/ ~Asked(i).starttls /\ pc' = "entry" /\ i' = i + 1
  BY DEF Send
<1>2. /\ Typed /\ Agreement /\ InOrder /\ HelloAhead /\ BufferSince /\ Place
      /\ i \in 1 .. Len(script) /\ Len(script) \in Nat
      /\ failedDueToRegex = 0 /\ failedDueToBytes = 0 /\ verdict = "none"
      /\ prober = "websocket" => scanner = NewScanner
  BY <1>1, InEntryWhere, Given DEF Conversation, Standing, InEntry
<1>3. PICK p \in Nat, e \in Entry : p = Behind[i - 1] /\ e = Asked(i) /\ p # 0 /\ At(e, p)
  BY <1>1, <1>2 DEF Place, InEntry
<1>4. Met(e, p) /\ MatchedWith(e, p, line)
  <2>1. pc = "send" /\ At(e, p)
    BY <1>1, <1>3
  <2> QED
    BY <2>1, Zenon DEF At
<1>5. PICK q, r \in Nat : /\ q = BehindLine(e, p) /\ q # 0
                          /\ r = BehindBytes(e, q) /\ r # 0
                          /\ Stands(r)
  BY <1>4 DEF Met
<1>6. /\ e.expect = script[i].expect /\ e.send = script[i].send
      /\ prober = "websocket" => ~e.starttls
      /\ prober # "websocket" => e = script[i]
  BY <1>2, <1>3, EntryFields
<1>7. Quiet /\ Onward
  BY <1>1, <1>2 DEF Quiet, Onward, server
<1>8. PICK answer : answer = SendText
  OBVIOUS
<1>9. answer = Expand(e, line)
  BY <1>6, <1>8 DEF SendText, Expand
<1>10. PICK k \in 1 .. Len(script) : k = i
  BY <1>2
<1>11. Answers(k, answer)'
  <2>1. AgreedOn(e, p, answer)
    BY <1>4, <1>5, <1>9 DEF AgreedOn
  <2>2. Answers(k, answer)
    BY <1>3, <1>10, <2>1 DEF Answers
  <2> QED
    BY <1>7, <1>10, <2>2, AnswerOnward
<1>12. Agreement'
  <2>1. Len(sent) = k - 1 /\ sent \in Seq(Sound)
    BY <1>1, <1>2, <1>10 DEF Typed
  <2>2. SendText \in Sound
    <3>1. script[i] \in Entry /\ line \in Seq(Alphabet)
      BY <1>2, EntryFields DEF Typed
    <3>2. script[i].expect # None => Matches(script[i].expect, line)
      BY <1>1, <1>2 DEF Typed
    <3> QED
      BY <3>1, <3>2, ExpandTypes DEF SendText
  <2>3. /\ Len(sent') = k /\ sent'[k] = answer
        /\ \A j \in 1 .. k - 1 : sent'[j] = sent[j]
    BY <1>1, <1>8, <2>1, <2>2
  <2>4. ASSUME NEW j \in 1 .. Len(sent')
        PROVE  \E a : a = sent'[j] /\ Answers(j, a)'
    <3>1. CASE j = k
      BY <1>11, <2>3, <3>1
    <3>2. CASE j # k
      <4>1. j \in 1 .. k - 1 /\ j \in 1 .. Len(sent) /\ j \in 1 .. Len(script)
        BY <1>2, <2>1, <2>3, <3>2
      <4>2. PICK a : a = sent[j] /\ Answers(j, a)
        BY <1>2, <4>1 DEF Agreement
      <4>3. Answers(j, a)'
        BY <1>7, <4>1, <4>2, AnswerOnward
      <4> QED
        BY <2>3, <4>1, <4>2, <4>3
    <3> QED
      BY <3>1, <3>2
  <2>5. Len(sent') <= Len(script')
    BY <1>1, <1>2, <2>3 DEF settings
  <2> QED
    BY <2>4, <2>5 DEF Agreement
<1>13. Verdicts'
  BY <1>1, <1>2 DEF Verdicts
<1>14. InOrder' /\ HelloAhead' /\ (prober' = "websocket" => scanner' = NewScanner) /\ Stands(r)'
  <2>1. HelloAhead'
    BY <1>1, <1>2, NoHelloYet DEF settings, server
  <2>2. InOrder' /\ Stands(r)'
    BY <1>1, <1>2, <1>5 DEF InOrder, Stands, Lapsed, Consumed, connection, settings, server
  <2>3. prober' = "websocket" => scanner' = NewScanner
    BY <1>1, <1>2 DEF connection, settings
  <2> QED
    BY <2>1, <2>2, <2>3
<1>15. CASE e.starttls
  <2>1. pc' = "handshake" /\ i' = i /\ prober # "websocket"
    BY <1>1, <1>3, <1>6, <1>15
  <2>2. q = BehindLine(e, p)' /\ r = BehindBytes(e, q)'
    BY <1>3, <1>5, <1>7, LineOnward, BytesOnward
  <2>3. At(e, p)'
    <3>1. Met(e, p)'
      BY <1>5, <1>14, <2>2 DEF Met
    <3>2. prober' # "websocket"
      BY <1>1, <2>1 DEF settings
    <3> QED
      BY <1>15, <2>1, <3>1, <3>2 DEF At
  <2>4. p = Behind'[i' - 1] /\ e = Asked(i)'
    <3>1. i \in 1 .. Len(script) + 1
      BY <1>2
    <3> QED
      BY <1>3, <1>7, <2>1, <3>1, HereOnward, EntryHereOnward
  <2>5. Place'
    BY <1>3, <2>1, <2>3, <2>4 DEF Place
  <2>6. BufferSince'
    <3>1. scanner' = scanner /\ script' = script
      BY <1>1 DEF connection, settings
    <3> QED
      BY <1>1, <1>2, <2>1, <3>1 DEF BufferSince
  <2> QED
    BY <1>12, <1>13, <1>14, <2>5, <2>6 DEF Standing
<1>16. CASE ~e.starttls
  <2>1. pc' = "entry" /\ i' = i + 1
    BY <1>1, <1>3, <1>16
  <2>2. Behind[k] = r
    <3>1. Behind[k] = BehindHello(e, r)
      BY <1>2, <1>3, <1>5, <1>10, NextPlace
    <3> QED
      BY <1>16, <3>1 DEF BehindHello
  <2>3. Behind'[k] = r
    <3>1. k \in 0 .. Len(script)
      BY <1>2
    <3> QED
      BY <1>5, <1>7, <2>2, <3>1, BehindKept
  <2>4. i' - 1 = k
    BY <1>2, <1>10, <2>1
  <2>5. Place'
    <3>1. pc' \notin InEntry
      BY <2>1 DEF InEntry
    <3> QED
      BY <1>14, <2>1, <2>3, <2>4, <3>1 DEF Place
  <2>6. BufferSince'
    <3>1. scanner' = scanner /\ script' = script
      BY <1>1 DEF connection, settings
    <3>2. SUFFICES ASSUME scanner.buffer # <<>> \/ scanner.eof
          PROVE  \E j \in 1 .. k : script[j].expect # None /\ \A m \in j .. k : ~script[m].starttls
      BY <2>1, <2>4, <3>1 DEF BufferSince
    <3>3. prober # "websocket"
      BY <1>2, <3>2 DEF NewScanner
    <3>4. ~script[k].starttls
      BY <1>6, <1>10, <1>16, <3>3
    <3>5. PICK j \in 1 .. k : script[j].expect # None /\ \A m \in j .. k - 1 : ~script[m].starttls
      BY <1>1, <1>2, <1>10, <3>2 DEF BufferSince
    <3>6. \A m \in j .. k : m \in j .. k - 1 \/ m = k
      BY <1>2
    <3> QED
      BY <3>4, <3>5, <3>6
  <2> QED
    BY <1>12, <1>13, <1>14, <2>5, <2>6 DEF Standing
<1> QED
  BY <1>15, <1>16

LEMMA SendFailsHolds ==
  ASSUME Conversation, Typed', SendFails
  PROVE  Agreement' /\ Verdicts' /\ Standing'
<1>1. /\ pc = "send" /\ (TimedOut \/ closed \/ broken)
      /\ failedDueToRegex' = IF prober = "websocket" THEN 1 ELSE failedDueToRegex
      /\ pc' = "done" /\ verdict' = "failure"
      /\ UNCHANGED <<settings, server, connection, i, line, sent, registered, failedDueToBytes>>
  BY DEF SendFails, Return
<1>2. /\ Typed /\ Place /\ i \in 1 .. Len(script) /\ Len(script) \in Nat
      /\ failedDueToRegex = 0 /\ failedDueToBytes = 0
  BY <1>1, InEntryWhere, Given DEF Conversation, Standing, InEntry
<1>3. Onward
  BY <1>1, <1>2 DEF Quiet, Onward, server
<1>4. CASE prober # "websocket"
  BY <1>1, <1>2, <1>3, <1>4, EndsBadly
<1>5. CASE prober = "websocket"
  <2>1. PICK p \in Nat, e \in Entry : p = Behind[i - 1] /\ e = Asked(i) /\ p # 0
    BY <1>1, <1>2 DEF Place, InEntry
  <2>2. closed \/ broken
    BY <1>1, <1>5 DEF TimedOut
  <2>3. e.expect = script'[i'].expect
    BY <1>1, <1>2, <2>1, EntryFields DEF settings
  <2>4. p = Behind'[i' - 1]
    <3>1. i' = i /\ i \in 1 .. Len(script) + 1
      BY <1>1, <1>2
    <3> QED
      BY <1>3, <2>1, <3>1, HereOnward
  <2>5. RegexBlamed'
    BY <1>1, <1>2, <1>5, <2>1, <2>2, <2>3, <2>4 DEF RegexBlamed, settings, server
  <2> QED
    BY <1>1, <1>2, <1>3, <2>5, BlameRegex
<1> QED
  BY <1>4, <1>5

-----------------------------------------------------------------------------
(* The messages of a websocket.                                            *)

LEMMA HandshakeHolds ==
  ASSUME Conversation, Typed', Handshake
  PROVE  Agreement' /\ Verdicts' /\ Standing'
<1>1. /\ pc = "handshake" /\ wire # <<>> /\ Head(wire) = Hello /\ wire' = Tail(wire)
      /\ scanner' = NewScanner
      /\ UNCHANGED <<settings, server, line, sent, failedDueToRegex, failedDueToBytes>>
      /\ \/ /\ "ssl" \notin registered /\ registered' = registered \cup {"ssl"}
            /\ pc' = "entry" /\ i' = i + 1 /\ verdict' = verdict
         \/ pc' = "done" /\ verdict' = "panic"
  BY DEF Handshake, MustRegister, Return
<1>2. /\ Typed /\ InOrder /\ HelloAhead /\ Place /\ i \in 1 .. Len(script)
      /\ Len(script) \in Nat
      /\ failedDueToRegex = 0 /\ failedDueToBytes = 0 /\ verdict = "none"
  BY <1>1, InEntryWhere, Given DEF Conversation, Standing, InEntry
<1>3. Quiet /\ Onward
  BY <1>1, <1>2 DEF Quiet, Onward, server
<1>4. CASE pc' = "done" /\ verdict' = "panic"
  BY <1>1, <1>2, <1>3, <1>4, EndsBadly
<1>5. CASE /\ "ssl" \notin registered /\ registered' = registered \cup {"ssl"}
           /\ pc' = "entry" /\ i' = i + 1 /\ verdict' = verdict
  <2>1. PICK p \in Nat, e \in Entry : p = Behind[i - 1] /\ e = Asked(i) /\ p # 0 /\ At(e, p)
    BY <1>1, <1>2 DEF Place, InEntry
  <2>2. Met(e, p) /\ e.starttls /\ prober # "websocket"
    <3>1. pc = "handshake" /\ At(e, p)
      BY <1>1, <2>1
    <3> QED
      BY <3>1, Zenon DEF At
  <2>3. PICK q, r \in Nat : /\ q = BehindLine(e, p) /\ q # 0
                            /\ r = BehindBytes(e, q) /\ r # 0
                            /\ Stands(r)
    BY <2>2 DEF Met
  <2>4. PICK k \in 1 .. Len(script) : k = i
    BY <1>2
  <2>5. /\ wire \in Seq(Alphabet) /\ Len(wire) \in Nat /\ Len(wire) > 0 /\ at \in Nat
        /\ at = Consumed + Len(scanner.buffer) + Len(wire) /\ Consumed \in Nat
        /\ Len(scanner.buffer) \in Nat
    BY <1>1, <1>2, ConsumedIs DEF Typed
  <2>6. PICK h \in Nat : h = at - Len(wire) + 1
    BY <2>5
  <2>7. r <= h /\ r >= 1 /\ h <= at
    <3>1. ~scanner.eof
      BY <1>1, <2>3 DEF Stands, Lapsed
    <3>2. r = Consumed + 1
      BY <2>3, <3>1 DEF Stands
    <3> QED
      BY <2>3, <2>5, <2>6, <3>2
  <2>8. said[h] = Hello
    <3>1. 1 \in 1 .. Len(wire) /\ at - Len(wire) + 1 = h /\ wire[1] = Head(wire)
      BY <2>5, <2>6
    <3> QED
      BY <1>1, <1>2, <3>1 DEF InOrder
  <2>9. HellosFrom(r) \subseteq Nat /\ h \in HellosFrom(r) /\ \A y \in HellosFrom(r) : h <= y
    <3>1. h \in HellosFrom(r)
      BY <2>3, <2>5, <2>7, <2>8 DEF HellosFrom
    <3>2. ASSUME NEW y \in HellosFrom(r) PROVE y \in Nat /\ h <= y
      <4>1. y \in 1 .. at /\ said[y] = Hello /\ y \in Nat
        BY <2>3, <2>5, <2>7 DEF HellosFrom
      <4>2. y > at - Len(wire)
        BY <1>2, <1>5, <4>1 DEF HelloAhead
      <4> QED
        BY <2>5, <2>6, <4>1, <4>2
    <3> QED
      BY <3>1, <3>2
  <2>10. Behind[k] = h + 1
    <3>1. Behind[k] = BehindHello(e, r)
      BY <1>2, <2>1, <2>3, <2>4, NextPlace
    <3>2. Least(HellosFrom(r)) = h
      BY <2>9, LeastUnique
    <3> QED
      BY <1>2, <2>2, <2>3, <2>7, <2>9, <3>1, <3>2, BehindHelloIs
  <2>11. Behind'[k] = h + 1
    <3>1. k \in 0 .. Len(script) /\ h + 1 # 0
      BY <1>2
    <3> QED
      BY <1>3, <2>10, <3>1, BehindKept
  <2>12. i' - 1 = k
    BY <1>2, <1>5, <2>4
  <2>13. /\ scanner'.buffer = <<>> /\ Len(scanner'.buffer) = 0 /\ ~scanner'.eof
         /\ at' = at /\ said' = said
         /\ Len(wire') = Len(wire) - 1 /\ \A j \in 1 .. Len(wire) - 1 : wire'[j] = wire[j + 1]
    BY <1>1, <2>5 DEF NewScanner, server, settings
  <2>14. Stands(h + 1)'
    <3>1. Consumed' = at - (Len(wire) - 1) - 0
      BY <2>13 DEF Consumed
    <3>2. h + 1 = Consumed' + 1
      BY <2>5, <2>6, <3>1
    <3> QED
      BY <2>13, <3>2 DEF Stands
  <2>15. Place'
    <3>1. pc' \notin InEntry
      BY <1>5 DEF InEntry
    <3>2. PICK b \in Nat : b = h + 1
      OBVIOUS
    <3>3. b = Behind'[i' - 1] /\ Stands(b)'
      BY <2>11, <2>12, <2>14, <3>2 DEF Stands, Lapsed
    <3> QED
      BY <1>5, <3>1, <3>3 DEF Place
  <2>16. InOrder'
    <3>1. ASSUME NEW j \in 1 .. Len(wire) - 1
          PROVE  wire'[j] = said[at - (Len(wire) - 1) + j]
      <4>1. j + 1 \in 1 .. Len(wire) /\ at - Len(wire) + (j + 1) = at - (Len(wire) - 1) + j
        <5>1. PICK w \in Nat : w = Len(wire)
          BY <2>5
        <5>2. j \in 1 .. w - 1 /\ at \in Nat
          BY <2>5, <5>1
        <5>3. j + 1 \in 1 .. w /\ at - w + (j + 1) = at - (w - 1) + j
          BY <5>2
        <5> QED
          BY <5>1, <5>3
      <4>2. wire[j + 1] = said[at - Len(wire) + (j + 1)]
        BY <1>2, <4>1 DEF InOrder
      <4> QED
        BY <2>13, <4>1, <4>2
    <3> QED
      BY <2>13, <3>1 DEF InOrder
  <2>17. HelloAhead' /\ BufferSince'
    BY <1>5, <2>13 DEF HelloAhead, BufferSince
  <2>18. Agreement' /\ Verdicts'
    BY <1>1, <1>2, <1>3, <1>5, GoesOn
  <2> QED
    BY <1>1, <2>15, <2>16, <2>17, <2>18 DEF Standing
<1> QED
  BY <1>1, <1>4, <1>5

LEMMA MessageStarts ==
  ASSUME Conversation, pc = "message"
  PROVE  /\ Typed /\ InOrder /\ HelloAhead /\ Place /\ i \in 1 .. Len(script)
         /\ Len(script) \in Nat /\ i \in 1 .. Len(script) + 1
         /\ failedDueToRegex = 0 /\ failedDueToBytes = 0 /\ verdict = "none"
         /\ prober = "websocket" /\ scanner = NewScanner
         /\ \E p \in Nat, e \in Entry :
              /\ p = Behind[i - 1] /\ e = Asked(i) /\ p # 0 /\ e.expect = script[i].expect
              /\ e.expect # None /\ e.bytes = <<>> /\ Stands(p)
<1>1. /\ Typed /\ InOrder /\ HelloAhead /\ Place /\ i \in 1 .. Len(script)
      /\ Len(script) \in Nat
      /\ failedDueToRegex = 0 /\ failedDueToBytes = 0 /\ verdict = "none"
      /\ prober = "websocket" => scanner = NewScanner
  BY InEntryWhere, Given DEF Conversation, Standing, InEntry
<1>2. PICK p \in Nat, e \in Entry : p = Behind[i - 1] /\ e = Asked(i) /\ p # 0 /\ At(e, p)
  BY <1>1 DEF Place, InEntry
<1>3. e.expect # None /\ prober = "websocket" /\ Stands(p)
  <2>1. pc = "message" /\ At(e, p)
    BY <1>2
  <2> QED
    BY <2>1, Zenon DEF At
<1>4. e.expect = script[i].expect /\ e.bytes = <<>>
  BY <1>1, <1>2, <1>3, EntryFields
<1> QED
  BY <1>1, <1>2, <1>3, <1>4

LEMMA MessageFailsHolds ==
  ASSUME Conversation, Typed', MessageFails
  PROVE  Agreement' /\ Verdicts' /\ Standing'
<1>1. /\ pc = "message" /\ (closed \/ broken) /\ failedDueToRegex' = 1
      /\ pc' = "done" /\ verdict' = "failure"
      /\ UNCHANGED <<settings, server, connection, i, line, sent, registered, failedDueToBytes>>
  BY DEF MessageFails, Return
<1>2. /\ Typed /\ i \in 1 .. Len(script) /\ i \in 1 .. Len(script) + 1
      /\ failedDueToBytes = 0 /\ prober = "websocket"
  BY <1>1, MessageStarts
<1>3. Onward
  BY <1>1, <1>2 DEF Quiet, Onward, server
<1>4. PICK p \in Nat, e \in Entry :
        /\ p = Behind[i - 1] /\ e = Asked(i) /\ p # 0 /\ e.expect = script[i].expect
  BY <1>1, MessageStarts
<1>5. p = Behind'[i' - 1]
  BY <1>1, <1>2, <1>3, <1>4, HereOnward
<1>6. RegexBlamed'
  BY <1>1, <1>2, <1>4, <1>5 DEF RegexBlamed, settings, server
<1> QED
  BY <1>1, <1>2, <1>3, <1>6, BlameRegex

LEMMA ReceiveHolds ==
  ASSUME Conversation, Typed', ReceiveMessage
  PROVE  Agreement' /\ Verdicts' /\ Standing'
<1>1. pc = "message" /\ Breaks(wire) # {}
  BY DEF ReceiveMessage
<1>2. /\ Typed /\ InOrder /\ HelloAhead /\ i \in 1 .. Len(script)
      /\ i \in 1 .. Len(script) + 1
      /\ failedDueToRegex = 0 /\ failedDueToBytes = 0 /\ verdict = "none"
      /\ prober = "websocket" /\ scanner = NewScanner
  BY <1>1, MessageStarts
<1>3. PICK p \in Nat, e \in Entry :
        /\ p = Behind[i - 1] /\ e = Asked(i) /\ p # 0 /\ e.expect = script[i].expect
        /\ e.expect # None /\ e.bytes = <<>> /\ Stands(p)
  BY <1>1, MessageStarts
<1>4. PICK n : n = Least(Breaks(wire))
  OBVIOUS
<1>5. PICK message : message = SubSeq(wire, 1, n - 1)
  OBVIOUS
<1>6. /\ wire' = SubSeq(wire, n + 1, Len(wire))
      /\ UNCHANGED <<settings, server, scanner, secure, i, sent, registered, failedDueToBytes>>
      /\ \/ /\ Matches(e.expect, message) /\ line' = message /\ pc' = "send"
            /\ UNCHANGED <<failedDueToRegex, verdict>>
         \/ /\ ~Matches(e.expect, message) /\ failedDueToRegex' = 1
            /\ pc' = "done" /\ verdict' = "failure"
  BY <1>3, <1>4, <1>5 DEF ReceiveMessage, Return
<1>7. /\ wire \in Seq(Alphabet) /\ Len(wire) \in Nat /\ at \in Nat /\ p = at - Len(wire) + 1
      /\ scanner.buffer = <<>> /\ ~scanner.eof /\ p >= 1
  <2>1. scanner.buffer = <<>> /\ ~scanner.eof /\ Len(scanner.buffer) = 0
    BY <1>2 DEF NewScanner
  <2> QED
    BY <1>2, <1>3, <2>1, ConsumedIs DEF Typed, Stands, Consumed
<1>8. /\ n \in 1 .. Len(wire) /\ wire[n] = Newline
      /\ \A j \in 1 .. n - 1 : wire[j] # Newline
  BY <1>1, <1>4, <1>7, BreaksIn
<1>9. PICK x \in Nat : x = p + n - 1
  <2>1. n \in Nat /\ n >= 1
    BY <1>7, <1>8
  <2>2. p + n - 1 \in Nat
    BY <2>1
  <2> QED
    BY <2>2
<1>10. /\ x <= at /\ x >= p /\ x = at - Len(wire) + n /\ x - p = n - 1
  BY <1>7, <1>8, <1>9
<1>11. \A j \in 1 .. Len(wire) : wire[j] = said[at - Len(wire) + j]
  BY <1>2 DEF InOrder
<1>12. x \in NewlinesFrom(p) /\ \A y \in NewlinesFrom(p) : y \in Nat /\ x <= y
  <2>1. said[x] = Newline
    BY <1>8, <1>10, <1>11
  <2>2. ASSUME NEW y \in NewlinesFrom(p) PROVE y \in Nat /\ x <= y
    <3>1. y \in p .. at /\ said[y] = Newline /\ y \in Nat
      BY <1>7 DEF NewlinesFrom
    <3>2. SUFFICES ASSUME y < x PROVE FALSE
      BY <3>1
    <3>3. PICK j \in Nat : j = y - p + 1
      BY <1>7, <3>1
    <3>4. j \in 1 .. n - 1 /\ j \in 1 .. Len(wire) /\ at - Len(wire) + j = y
      BY <1>7, <1>8, <1>10, <3>1, <3>2, <3>3
    <3> QED
      BY <1>8, <1>11, <3>1, <3>4
  <2> QED
    BY <1>7, <1>10, <2>1, <2>2 DEF NewlinesFrom
<1>13. LineEnds(p) = {x}
  <2>1. LineEnds(p) = {y \in NewlinesFrom(p) : \A z \in NewlinesFrom(p) : y <= z}
    BY <1>2, <1>7, LineEndsAre
  <2>2. x \in LineEnds(p)
    BY <1>12, <2>1
  <2>3. ASSUME NEW y \in LineEnds(p) PROVE y = x
    <3>1. y \in Nat /\ x <= y /\ y <= x
      BY <1>12, <2>1
    <3> QED
      BY <3>1
  <2> QED
    BY <2>2, <2>3
<1>14. LineEndingAt(p, x) = message
  <2>1. Starts(p, x) = {p}
    BY <1>12 DEF Starts
  <2>2. LineEndingAt(p, x) = [j \in 1 .. x - p |-> said[p + j - 1]]
    <3>1. p \in Starts(p, x) /\ \A t \in Starts(p, x) : t <= p
      BY <2>1
    <3>2. x <= at + 1 /\ x >= p /\ p >= 1
      BY <1>7, <1>10
    <3> QED
      BY <1>2, <3>1, <3>2, LineFrom
  <2>3. message = [j \in 1 .. n - 1 |-> wire[j]]
    BY <1>5, <1>7, <1>8
  <2>4. ASSUME NEW j \in 1 .. n - 1 PROVE wire[j] = said[p + j - 1]
    <3>1. j \in 1 .. Len(wire) /\ at - Len(wire) + j = p + j - 1
      BY <1>7, <1>8
    <3> QED
      BY <1>11, <3>1
  <2> QED
    BY <1>10, <2>2, <2>3, <2>4
<1>15. Quiet /\ Onward
  BY <1>2, <1>6 DEF Quiet, Onward, server
<1>16. p = Behind'[i' - 1] /\ e = Asked(i)' /\ prober' = prober
  BY <1>2, <1>3, <1>6, <1>15, HereOnward, EntryHereOnward DEF settings
<1>17. CASE /\ ~Matches(e.expect, message) /\ failedDueToRegex' = 1
            /\ pc' = "done" /\ verdict' = "failure"
  <2>1. LineEnds(p) # {} /\ MatchEnds(e, p) = {}
    BY <1>13, <1>14, <1>17 DEF MatchEnds
  <2>2. LineEnds(p)' # {} /\ MatchEnds(e, p)' = {}
    BY <1>15, <2>1, LinesQuiet
  <2>3. e.expect = script'[i'].expect
    BY <1>3, <1>6 DEF settings
  <2>4. RegexBlamed'
    BY <1>2, <1>3, <1>6, <1>16, <2>2, <2>3 DEF RegexBlamed, settings
  <2> QED
    BY <1>2, <1>6, <1>15, <1>17, <2>4, BlameRegex
<1>18. CASE /\ Matches(e.expect, message) /\ line' = message /\ pc' = "send"
            /\ UNCHANGED <<failedDueToRegex, verdict>>
  <2>1. MatchEnds(e, p) = {x}
    BY <1>13, <1>14, <1>18 DEF MatchEnds
  <2>2. Least(MatchEnds(e, p)) = x
    <3>1. PICK S : S = MatchEnds(e, p)
      OBVIOUS
    <3>2. S \subseteq Nat /\ x \in S /\ \A y \in S : x <= y
      BY <2>1, <3>1
    <3>3. Least(S) = x
      BY <3>2, LeastUnique
    <3> QED
      BY <3>1, <3>3
  <2>3. MatchedWith(e, p, message)
    BY <1>3, <1>14, <2>1, <2>2 DEF MatchedWith
  <2>4. MatchedWith(e, p, line)'
    <3>1. MatchedWith(e, p, message)'
      BY <1>3, <1>15, <2>3, MatchedOnward
    <3> QED
      BY <1>18, <3>1 DEF MatchedWith
  <2>5. BehindLine(e, p) = x + 1
    BY <1>3, <2>1, <2>2 DEF BehindLine
  <2>6. PICK q \in Nat : q = x + 1
    OBVIOUS
  <2>7. q = BehindLine(e, p)' /\ q # 0
    BY <1>15, <2>5, <2>6, EntryQuiet
  <2>8. q = BehindBytes(e, q)'
    BY <1>3 DEF BehindBytes
  <2>9. /\ Len(wire') = Len(wire) - n /\ \A j \in 1 .. Len(wire) - n : wire'[j] = wire[n + j]
    <3>1. n \in Nat /\ n <= Len(wire) /\ wire' = SubSeq(wire, n + 1, Len(wire))
      BY <1>6, <1>8
    <3> QED
      BY <1>7, <3>1, RestIs
  <2>10. at' = at /\ said' = said /\ scanner'.buffer = <<>> /\ ~scanner'.eof
         /\ Len(scanner'.buffer) = 0
    BY <1>6, <1>7 DEF server, settings
  <2>11. Stands(q)'
    <3>1. Consumed' = at - (Len(wire) - n) - 0
      BY <2>9, <2>10 DEF Consumed
    <3>2. q = Consumed' + 1
      BY <1>7, <1>8, <1>9, <2>6, <3>1
    <3> QED
      BY <2>10, <3>2 DEF Stands
  <2>12. Place'
    <3>1. Met(e, p)'
      BY <2>7, <2>8, <2>11 DEF Met
    <3>2. At(e, p)'
      BY <1>18, <2>4, <3>1 DEF At
    <3> QED
      BY <1>3, <1>16, <1>18, <3>2 DEF Place
  <2>13. InOrder'
    <3>1. ASSUME NEW j \in 1 .. Len(wire') PROVE wire'[j] = said'[at' - Len(wire') + j]
      <4>1. /\ j \in 1 .. Len(wire) - n /\ n + j \in 1 .. Len(wire)
            /\ at - Len(wire) + (n + j) = at - Len(wire') + j
        BY <1>7, <1>8, <2>9
      <4>2. wire[n + j] = said[at - Len(wire) + (n + j)]
        BY <1>11, <4>1
      <4> QED
        BY <2>9, <2>10, <4>1, <4>2
    <3> QED
      BY <2>10, <3>1 DEF InOrder
  <2>14. HelloAhead'
    BY <1>1, <1>2, <1>6, <2>10, NoHelloYet
  <2>15. BufferSince' /\ scanner' = NewScanner
    BY <1>2, <1>6, <2>10 DEF BufferSince
  <2>16. Agreement' /\ Verdicts'
    BY <1>2, <1>6, <1>15, <1>18, GoesOn
  <2> QED
    BY <2>12, <2>13, <2>14, <2>15, <2>16 DEF Standing
<1> QED
  BY <1>6, <1>17, <1>18

-----------------------------------------------------------------------------
(* The server, the network and the clock.                                  *)

LEMMA StandingOnward ==
  ASSUME Conversation, Onward, pc # "done",
         UNCHANGED <<scanner, pc, i, line, results, verdict>>,
         InOrder', HelloAhead',
         \A r \in Nat : Stands(r) => Stands(r)',
         \A p \in Nat, e \in Entry : p # 0 /\ Scanning(e, p) => Scanning(e, p)'
  PROVE  Agreement' /\ Verdicts' /\ Standing'
<1>1. /\ Typed /\ BufferSince /\ Place
      /\ failedDueToRegex = 0 /\ failedDueToBytes = 0 /\ verdict = "none"
      /\ prober = "websocket" => scanner = NewScanner
      /\ UNCHANGED settings
  BY InEntryWhere, OnwardMeans DEF Conversation, Standing
<1>2. Agreement' /\ Verdicts'
  BY <1>1, GoesOn DEF results
<1>3. BufferSince'
  BY <1>1 DEF BufferSince, settings
<1>4. ASSUME pc = "entry"
      PROVE  \E p \in Nat : p = Behind'[i' - 1] /\ Stands(p)'
  <2>1. PICK p \in Nat : p = Behind[i - 1] /\ Stands(p)
    BY <1>1, <1>4 DEF Place
  <2>2. p # 0 /\ i \in 1 .. Len(script) + 1
    BY <1>1, <1>4, <2>1, StandsIs, InEntryWhere
  <2>3. p = Behind'[i' - 1]
    BY <2>1, <2>2, HereOnward
  <2> QED
    BY <2>1, <2>3
<1>5. ASSUME pc \in InEntry
      PROVE  \E p \in Nat, e \in Entry :
               p = Behind'[i' - 1] /\ e = Asked(i)' /\ p # 0 /\ At(e, p)'
  <2>1. PICK p \in Nat, e \in Entry : p = Behind[i - 1] /\ e = Asked(i) /\ p # 0 /\ At(e, p)
    BY <1>1, <1>5 DEF Place
  <2>2. i \in 1 .. Len(script) + 1
    BY <1>1, <1>5, InEntryWhere DEF InEntry
  <2>3. p = Behind'[i' - 1] /\ e = Asked(i)'
    BY <2>1, <2>2, HereOnward, EntryHereOnward
  <2>4. Met(e, p) => Met(e, p)'
    BY <2>1, LineOnward, BytesOnward DEF Met
  <2>5. MatchedWith(e, p, line) => MatchedWith(e, p, line)'
    <3>1. PICK text : text = line
      OBVIOUS
    <3>2. MatchedWith(e, p, text) => MatchedWith(e, p, text)'
      BY <2>1, MatchedOnward
    <3> QED
      BY <3>1, <3>2 DEF MatchedWith
  <2>6. At(e, p)'
    <3>1. prober' = prober /\ scanner' = scanner /\ line' = line /\ pc' = pc
      BY <1>1 DEF settings
    <3>2. pc = "scan" => e.expect # None /\ prober # "websocket" /\ Scanning(e, p)
      BY <2>1, Zenon DEF At
    <3>3. pc = "message" => e.expect # None /\ prober = "websocket" /\ Stands(p)
      BY <2>1, Zenon DEF At
    <3>4. pc = "read" => /\ e.expect = None /\ e.bytes # <<>> /\ prober # "websocket"
                         /\ scanner = NewScanner /\ line = <<>> /\ Stands(p)
      BY <2>1, Zenon DEF At
    <3>5. pc = "send" => Met(e, p) /\ MatchedWith(e, p, line)
      BY <2>1, Zenon DEF At
    <3>6. pc = "handshake" => Met(e, p) /\ e.starttls /\ prober # "websocket"
      BY <2>1, Zenon DEF At
    <3>7. /\ Scanning(e, p) => Scanning(e, p)'
          /\ Stands(p) => Stands(p)'
      BY <2>1
    <3> QED
      BY <2>4, <2>5, <3>1, <3>2, <3>3, <3>4, <3>5, <3>6, <3>7 DEF At
  <2> QED
    BY <2>1, <2>3, <2>6
<1>6. Place'
  BY <1>4, <1>5 DEF Place
<1>7. prober' = "websocket" => scanner' = NewScanner
  BY <1>1 DEF settings
<1> QED
  BY <1>2, <1>3, <1>6, <1>7 DEF Standing

LEMMA GrowsScanning ==
  ASSUME Grows, NEW p \in Nat, p # 0, NEW e \in Entry, Scanning(e, p), scanner' = scanner,
         Consumed' = Consumed, Consumed \in Nat, at \in Nat, Consumed <= at
  PROVE  Scanning(e, p)'
<1>1. ~scanner.eof
  BY DEF Grows, Scanning, Lapsed
<1>2. PICK c \in Nat : c = Consumed
  OBVIOUS
<1>3. /\ p \in 1 .. c + 1 /\ (p = c + 1 \/ said[c] = Newline)
      /\ \A x \in MatchEnds(e, p) : x > c
  BY <1>1, <1>2 DEF Scanning
<1>4. \A x \in MatchEnds(e, p)' : x \in MatchEnds(e, p) \/ x = at + 1
  <2>1. p >= 1
    OBVIOUS
  <2> QED
    BY <2>1, MatchEndsKept
<1>5. \A x \in MatchEnds(e, p)' : x > c
  BY <1>2, <1>3, <1>4
<1>6. said' = said /\ Consumed' = c
  BY <1>2 DEF Grows, settings
<1> QED
  BY <1>1, <1>3, <1>5, <1>6 DEF Scanning

\* At the end nothing moves any more.
LEMMA DoneHolds ==
  ASSUME Conversation, Quiet, pc = "done",
         UNCHANGED <<broken, pc, i, line, results, verdict>>
  PROVE  Agreement' /\ Verdicts' /\ Standing'
<1>1. /\ Typed /\ Onward /\ Len(script) \in Nat
      /\ UNCHANGED settings /\ at' = at /\ closed' = closed
  BY Given DEF Quiet, Onward
<1>2. Agreement'
  BY <1>1, AgreementOnward DEF Conversation, results
<1>3. RegexBlamed => RegexBlamed'
  <2>1. SUFFICES ASSUME RegexBlamed PROVE RegexBlamed'
    OBVIOUS
  <2>2. PICK p \in Nat, e \in Entry :
          /\ p = Behind[i - 1] /\ p # 0 /\ i \in 1 .. Len(script) /\ e.expect = script[i].expect
          /\ IF prober = "websocket"
             THEN closed \/ broken \/ (LineEnds(p) # {} /\ MatchEnds(e, p) = {})
             ELSE closed /\ MatchEnds(e, p) = {}
    BY <2>1 DEF RegexBlamed
  <2>3. p = Behind'[i' - 1]
    <3>1. i \in 1 .. Len(script) + 1
      BY <1>1, <2>2
    <3> QED
      BY <1>1, <2>2, <3>1, HereOnward
  <2>4. LineEnds(p)' = LineEnds(p) /\ MatchEnds(e, p)' = MatchEnds(e, p)
    BY LinesQuiet
  <2> QED
    BY <1>1, <2>2, <2>3, <2>4 DEF RegexBlamed, settings
<1>4. BytesBlamed => BytesBlamed'
  <2>1. SUFFICES ASSUME BytesBlamed PROVE BytesBlamed'
    OBVIOUS
  <2>2. PICK p, q \in Nat, e \in Entry :
          /\ p = Behind[i - 1] /\ p # 0 /\ i \in 1 .. Len(script)
          /\ e = script[i] /\ q = BehindLine(e, p) /\ q # 0
          /\ q + Len(e.bytes) - 1 <= at /\ ~StandAt(e.bytes, q)
    BY <2>1 DEF BytesBlamed
  <2>3. p = Behind'[i' - 1]
    <3>1. i \in 1 .. Len(script) + 1
      BY <1>1, <2>2
    <3> QED
      BY <1>1, <2>2, <3>1, HereOnward
  <2>4. q = BehindLine(e, p)' /\ ~StandAt(e.bytes, q)'
    BY <2>2, EntryQuiet
  <2> QED
    BY <1>1, <2>2, <2>3, <2>4 DEF BytesBlamed, settings
<1>5. Behind[Len(script)] # 0 => Behind'[Len(script')] # 0
  <2>1. Len(script) \in 0 .. Len(script) /\ Len(script') = Len(script)
    BY <1>1 DEF settings
  <2> QED
    BY <1>1, <2>1, BehindKept
<1>6. Verdicts'
  BY <1>3, <1>4, <1>5 DEF Conversation, Verdicts, results
<1> QED
  BY <1>2, <1>6 DEF Standing

LEMMA WorldHolds ==
  ASSUME Conversation, Typed', Deliver \/ Close
  PROVE  Agreement' /\ Verdicts' /\ Standing'
<1>1. /\ pc \notin {"dial", "done"} /\ ~closed
      /\ UNCHANGED <<settings, scanner, pc, i, line, results, verdict>>
      /\ \/ /\ at < Len(said) /\ (said[at + 1] = Hello => pc = "handshake")
            /\ at' = at + 1 /\ closed' = closed /\ wire' = Append(wire, said[at + 1])
         \/ at' = at /\ closed' = TRUE /\ wire' = wire
  BY DEF Deliver, Close, connection
<1>2. Typed /\ InOrder /\ HelloAhead
  BY <1>1 DEF Conversation, Standing
<1>3. Grows /\ Onward
  <2>1. (at' = at + 1 /\ closed' = closed) \/ (at' = at /\ closed' = TRUE)
    BY <1>1
  <2> QED
    BY <1>1, <1>2, <2>1 DEF Grows, Onward
<1>4. /\ wire \in Seq(Alphabet) /\ Len(wire) \in Nat /\ at \in Nat /\ Consumed \in Nat
      /\ at = Consumed + Len(scanner.buffer) + Len(wire) /\ Len(scanner.buffer) \in Nat
  BY <1>2, ConsumedIs DEF Typed
<1>5. CASE at' = at
  <2>1. wire' = wire
    BY <1>1, <1>4, <1>5
  <2>2. Consumed' = Consumed
    BY <1>1, <1>5, <2>1 DEF Consumed
  <2>3. InOrder' /\ HelloAhead'
    BY <1>1, <1>2, <1>5, <2>1, <2>2 DEF InOrder, HelloAhead, settings, results
  <2>4. ASSUME NEW r \in Nat, Stands(r) PROVE Stands(r)'
    BY <1>1, <2>2, <2>4 DEF Stands, Lapsed
  <2>5. ASSUME NEW p \in Nat, NEW e \in Entry, p # 0, Scanning(e, p) PROVE Scanning(e, p)'
    <3>1. Consumed <= at
      BY <1>4
    <3> QED
      BY <1>1, <1>3, <1>4, <2>2, <2>5, <3>1, GrowsScanning
  <2> QED
    BY <1>1, <1>3, <2>3, <2>4, <2>5, StandingOnward
<1>6. CASE /\ at < Len(said) /\ (said[at + 1] = Hello => pc = "handshake")
           /\ at' = at + 1 /\ closed' = closed /\ wire' = Append(wire, said[at + 1])
  <2>1. PICK byte \in Alphabet : byte = said[at + 1]
    BY <1>2, <1>4, <1>6, Given
  <2>2. /\ Len(wire') = Len(wire) + 1 /\ wire'[Len(wire) + 1] = byte
        /\ \A j \in 1 .. Len(wire) : wire'[j] = wire[j]
    BY <1>4, <1>6, <2>1
  <2>3. Consumed' = Consumed /\ at' - Len(wire') = at - Len(wire)
    <3>1. PICK a \in Nat, w \in Nat, n \in Nat : a = at /\ w = Len(wire) /\ n = Len(scanner.buffer)
      BY <1>4
    <3>2. at' = a + 1 /\ Len(wire') = w + 1 /\ Len(scanner'.buffer) = n
      BY <1>1, <1>6, <2>2, <3>1
    <3>3. Consumed' = (a + 1) - (w + 1) - n /\ Consumed = a - w - n
      BY <3>1, <3>2 DEF Consumed
    <3>4. (a + 1) - (w + 1) - n = a - w - n /\ (a + 1) - (w + 1) = a - w
      OBVIOUS
    <3> QED
      BY <3>1, <3>2, <3>3, <3>4
  <2>4. PICK w \in Nat : w = Len(wire)
    BY <1>4
  <2>5. InOrder'
    <3>1. ASSUME NEW j \in 1 .. w + 1 PROVE wire'[j] = said[at - w + j]
      <4>1. CASE j \in 1 .. w
        BY <1>2, <2>2, <2>4, <4>1 DEF InOrder
      <4>2. CASE j = w + 1
        <5>1. at - w + (w + 1) = at + 1
          <6>1. at \in Nat /\ w \in Nat
            BY <1>4
          <6> QED
            BY ONLY <6>1
        <5> QED
          BY <2>1, <2>2, <2>4, <4>2, <5>1
      <4> QED
        BY <4>1, <4>2
    <3> QED
      BY <1>1, <1>2, <2>2, <2>3, <2>4, <3>1 DEF InOrder, settings
  <2>6. HelloAhead'
    <3>1. SUFFICES ASSUME "ssl" \notin registered, NEW j \in 1 .. at + 1, said[j] = Hello
                   PROVE  pc = "handshake" /\ j > at - Len(wire)
      BY <1>1, <1>6, <2>3 DEF HelloAhead, settings, results
    <3>2. CASE j \in 1 .. at
      BY <1>2, <3>1, <3>2 DEF HelloAhead
    <3>3. CASE j = at + 1
      BY <1>4, <1>6, <3>1, <3>3
    <3> QED
      BY <1>4, <3>2, <3>3
  <2>7. ASSUME NEW r \in Nat, Stands(r) PROVE Stands(r)'
    BY <1>1, <2>3, <2>7 DEF Stands, Lapsed
  <2>8. ASSUME NEW p \in Nat, NEW e \in Entry, p # 0, Scanning(e, p) PROVE Scanning(e, p)'
    <3>1. Consumed <= at
      BY <1>4
    <3> QED
      BY <1>1, <1>3, <1>4, <2>3, <2>8, <3>1, GrowsScanning
  <2> QED
    BY <1>1, <1>3, <2>5, <2>6, <2>7, <2>8, StandingOnward
<1> QED
  BY <1>1, <1>5, <1>6

LEMMA ExpireHolds ==
  ASSUME Conversation, Typed', Expire \/ Break \/ UNCHANGED vars
  PROVE  Agreement' /\ Verdicts' /\ Standing'
<1>1. /\ UNCHANGED <<settings, at, closed, connection, pc, i, line, results, verdict>>
      /\ pc = "done" => broken' = broken
  BY DEF Expire, Break, vars, server
<1>2. Typed
  BY DEF Conversation
<1>3. Quiet /\ Onward
  BY <1>1, <1>2 DEF Quiet, Onward
<1>4. CASE pc # "done"
  <2>1. InOrder /\ HelloAhead
    BY <1>4 DEF Conversation, Standing
  <2>2. Consumed' = Consumed
    BY <1>1 DEF Consumed, connection
  <2>3. InOrder' /\ HelloAhead'
    BY <1>1, <2>1, <2>2 DEF InOrder, HelloAhead, settings, results, connection
  <2>4. ASSUME NEW r \in Nat, Stands(r) PROVE Stands(r)'
    BY <1>1, <2>2, <2>4 DEF Stands, Lapsed, connection
  <2>5. ASSUME NEW p \in Nat, NEW e \in Entry, p # 0, Scanning(e, p) PROVE Scanning(e, p)'
    <3>1. MatchEnds(e, p)' = MatchEnds(e, p)
      BY <1>3, LinesQuiet
    <3> QED
      BY <1>1, <2>2, <2>5, <3>1 DEF Scanning, Lapsed, connection, settings
  <2> QED
    BY <1>1, <1>3, <1>4, <2>3, <2>4, <2>5, StandingOnward DEF connection
<1>5. CASE pc = "done"
  BY <1>1, <1>2, <1>3, <1>5, DoneHolds
<1> QED
  BY <1>4, <1>5

-----------------------------------------------------------------------------
(* The properties.                                                         *)

\* Every step keeps the invariant.
LEMMA NextConversation ==
  ASSUME ReadsApart
  PROVE  Conversation /\ [Next]_vars => Conversation'
<1> SUFFICES ASSUME Conversation, [Next]_vars PROVE Conversation'
  OBVIOUS
<1>1. Typed'
  BY NextTyped DEF Conversation
<1>2. Agreement' /\ Verdicts' /\ Standing'
  <2>1. CASE Expire \/ Break \/ UNCHANGED vars
    BY <1>1, <2>1, ExpireHolds
  <2>2. CASE Deliver \/ Close
    BY <1>1, <2>2, WorldHolds
  <2>3. CASE Dialled \/ Upgraded
    BY <1>1, <2>3, DialHolds
  <2>4. CASE DialFails \/ SetDeadlineFails \/ ScanFails \/ ReadFails \/ HandshakeFails
    BY <1>1, <2>4, FailHolds
  <2>5. CASE BeginEntry
    BY <1>1, <2>5, BeginHolds
  <2>6. CASE AllMet
    BY <1>1, <2>6, SuccessHolds
  <2>7. CASE ScanLine
    BY <1>1, <2>7, ScanLineHolds
  <2>8. CASE ScanReads
    BY <1>1, <2>8, ScanReadsHolds
  <2>9. CASE ScanEnds
    BY <1>1, <2>9, ScanEndsHolds
  <2>10. CASE ReadBytes
    BY <1>1, <2>10, BytesHold
  <2>11. CASE Send
    BY <1>1, <2>11, SendHolds
  <2>12. CASE SendFails
    BY <1>1, <2>12, SendFailsHolds
  <2>13. CASE Handshake
    BY <1>1, <2>13, HandshakeHolds
  <2>14. CASE ReceiveMessage
    BY <1>1, <2>14, ReceiveHolds
  <2>15. CASE MessageFails
    BY <1>1, <2>15, MessageFailsHolds
  <2> QED
    BY <2>1, <2>2, <2>3, <2>4, <2>5, <2>6, <2>7, <2>8, <2>9, <2>10, <2>11, <2>12, <2>13,
       <2>14, <2>15 DEF Next, Probe
<1> QED
  BY <1>1, <1>2 DEF Conversation

LEMMA ConversationHolds ==
  ASSUME ReadsApart
  PROVE  Spec => []Conversation
BY InitConversation, NextConversation, PTL DEF Spec

\* When a probe succeeds, the bytes the server sent meet the whole list in
\* their order, each used once and none from before a starttls, however they
\* were cut into segments and read ahead (query_response.go:105-201).
THEOREM MatchedOnSuccess ==
  ASSUME ReadsApart
  PROVE  Spec => []SuccessMeansMatched
<1>1. Conversation => SuccessMeansMatched
  BY DEF Conversation, Verdicts, SuccessMeansMatched
<1> QED
  BY <1>1, ConversationHolds, PTL

LEMMA AnswersAgreed == Conversation => SentAsAgreed
<1> SUFFICES ASSUME Conversation, NEW k \in 1 .. Len(sent)
             PROVE  LET e == Asked(k)
                        p == Behind[k - 1]
                    IN  /\ p # 0 /\ BehindBytes(e, BehindLine(e, p)) # 0
                        /\ sent[k] = Expand(e, IF e.expect = None THEN <<>>
                                               ELSE LineEndingAt(p, Least(MatchEnds(e, p))))
  BY DEF SentAsAgreed
<1>1. PICK answer : answer = sent[k] /\ Answers(k, answer)
  BY DEF Conversation, Agreement
<1>2. PICK p \in Nat, e \in Entry :
        p = Behind[k - 1] /\ e = Asked(k) /\ p # 0 /\ AgreedOn(e, p, answer)
  BY <1>1 DEF Answers
<1>3. PICK q, r \in Nat : /\ q = BehindLine(e, p) /\ q # 0
                          /\ r = BehindBytes(e, q) /\ r # 0
                          /\ \E text : MatchedWith(e, p, text) /\ answer = Expand(e, text)
  BY <1>2 DEF AgreedOn
<1>4. PICK text : MatchedWith(e, p, text) /\ answer = Expand(e, text)
  BY <1>3
<1>5. text = IF e.expect = None THEN <<>> ELSE LineEndingAt(p, Least(MatchEnds(e, p)))
  BY <1>4 DEF MatchedWith
<1>6. BehindBytes(e, BehindLine(e, p)) # 0
  BY <1>3
<1>7. sent[k] = Expand(e, IF e.expect = None THEN <<>>
                          ELSE LineEndingAt(p, Least(MatchEnds(e, p))))
  BY <1>1, <1>4, <1>5
<1> QED
  BY <1>2, <1>6, <1>7

\* Everything that is sent is expanded from the line that met its own entry,
\* whose bytes were met as well (query_response.go:107-166).
THEOREM AgreedOnSent ==
  ASSUME ReadsApart
  PROVE  Spec => []SentAsAgreed
BY AnswersAgreed, ConversationHolds, PTL

LEMMA GaugesBlame == Conversation => GaugesTruthful
<1> SUFFICES ASSUME Conversation PROVE GaugesTruthful
  OBVIOUS
<1>1. ASSUME failedDueToRegex = 1
      PROVE  /\ verdict = "failure"
             /\ IF prober = "websocket"
                THEN closed \/ broken
                     \/ (LineEnds(Behind[i - 1]) # {} /\ MatchEnds(script[i], Behind[i - 1]) = {})
                ELSE closed /\ MatchEnds(script[i], Behind[i - 1]) = {}
  <2>1. verdict = "failure" /\ RegexBlamed
    BY <1>1 DEF Conversation, Verdicts
  <2>2. PICK p \in Nat, e \in Entry :
          /\ p = Behind[i - 1] /\ e.expect = script[i].expect
          /\ IF prober = "websocket"
             THEN closed \/ broken \/ (LineEnds(p) # {} /\ MatchEnds(e, p) = {})
             ELSE closed /\ MatchEnds(e, p) = {}
    BY <2>1 DEF RegexBlamed
  <2>3. MatchEnds(script[i], p) = MatchEnds(e, p)
    BY <2>2 DEF MatchEnds
  <2> QED
    BY <2>1, <2>2, <2>3
<1>2. ASSUME failedDueToBytes = 1
      PROVE  /\ verdict = "failure"
             /\ BehindLine(script[i], Behind[i - 1]) + Len(script[i].bytes) - 1 <= at
             /\ ~StandAt(script[i].bytes, BehindLine(script[i], Behind[i - 1]))
  <2>1. verdict = "failure" /\ BytesBlamed
    BY <1>2 DEF Conversation, Verdicts
  <2> QED
    BY <2>1 DEF BytesBlamed
<1> QED
  BY <1>1, <1>2 DEF GaugesTruthful

\* probe_failed_due_to_regex and probe_failed_due_to_bytes are set only when
\* the rest of the conversation did not match, never for a deadline, a lost
\* connection or a line too long (query_response.go:119-156).
THEOREM GaugesBlameTruly ==
  ASSUME ReadsApart
  PROVE  Spec => []GaugesTruthful
BY GaugesBlame, ConversationHolds, PTL
=============================================================================
