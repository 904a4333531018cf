--------------------------- MODULE QueryResponse ---------------------------
(***************************************************************************)
(* One probe of the tcp, unix or websocket prober (prober/tcp.go, unix.go, *)
(* websocket.go) and the conversation it has over its connection: it works *)
(* through the query_response list of the module while the server sends    *)
(* what it sends, in segments of any size, closes whenever it likes, the   *)
(* connection breaks, and the deadline of the probe passes.                *)
(*                                                                         *)
(* In probeQueryResponses "expect" reads lines through a bufio.Scanner,    *)
(* which takes from the connection all that is there; "expect_bytes" reads *)
(* the connection directly; "starttls" replaces the connection and the     *)
(* scanner. The websocket prober reads whole messages and looks at the     *)
(* next one only; the end of a line stands for the end of a message.       *)
(*                                                                         *)
(* A byte is a value of a small set; a regular expression is the byte it   *)
(* looks for; what is sent is a literal, or the part of the line behind    *)
(* the match, which stands for every template that expands a group.        *)
(***************************************************************************)
EXTENDS Integers, Sequences

CONSTANTS
  Alphabet,     \* the bytes that are told apart
  Scripts,      \* query_response lists a module may have
  Streams,      \* what servers say; Hello in it starts a TLS handshake
  Newline, Hello,
  MaxToken,     \* bufio.MaxScanTokenSize, scaled down
  None          \* no regular expression

\* config.QueryResponse.
Entry ==
  [expect : Alphabet \cup {None}, bytes : Seq(Alphabet), send : STRING, labels : BOOLEAN,
   starttls : BOOLEAN]

ASSUME QueryAssumption ==
  /\ MaxToken \in Nat \ {0}
  /\ Newline # Hello
  /\ Scripts \subseteq Seq(Entry) /\ Streams \subseteq Seq(Alphabet)
  /\ None \notin Alphabet

VARIABLES
  prober,       \* "tcp", "unix" or "websocket"
  useTLS,       \* tls: true in the module; wss: in the target
  tlsBroken,    \* the files of tls_config cannot be loaded
  script,       \* the query_response list
  said, at,     \* the server's stream, and how much of it has arrived
  closed,       \* the server has closed the connection
  broken,       \* the connection was reset, or the TLS stream cut off
  expired,      \* the deadline of the probe has passed
  wire,         \* what has arrived and nobody has read
  scanner,      \* bufio.Scanner: its buffer, and whether it has seen the end
  secure,       \* conn is a TLS connection
  pc,           \* the step the prober is at, "done" at the end
  i,            \* the entry being processed
  line,         \* scanner.Bytes() when the regular expression matched
  sent,         \* what was sent for each entry, <<>> for nothing
  registered,   \* metrics in the registry of the probe
  failedDueToRegex, failedDueToBytes,  \* the two gauges
  verdict       \* "none", "success", "failure" or "panic"

settings == <<prober, useTLS, tlsBroken, script, said>>
server == <<at, closed, broken, expired>>
connection == <<wire, scanner, secure>>
results == <<sent, registered, failedDueToRegex, failedDueToBytes>>

vars == <<settings, server, connection, pc, i, line, results, verdict>>

NewScanner == [buffer |-> <<>>, eof |-> FALSE]

Init ==
  /\ prober \in {"tcp", "unix", "websocket"}
  /\ useTLS \in BOOLEAN
  /\ tlsBroken \in BOOLEAN
  /\ script \in Scripts
  /\ said \in Streams
  /\ at = 0 /\ closed = FALSE /\ broken = FALSE /\ expired = FALSE
  /\ wire = <<>> /\ scanner = NewScanner /\ secure = FALSE
  /\ pc = "dial" /\ i = 0 /\ line = <<>>
  /\ sent = <<>> /\ registered = {}
  /\ failedDueToRegex = 0 /\ failedDueToBytes = 0
  /\ verdict = "none"

-----------------------------------------------------------------------------
(* The server, the network and the clock.                                  *)

\* The next byte arrives. A server starts its side of a TLS handshake only
\* after the client has started its own.
Deliver ==
  /\ pc \notin {"dial", "done"}
  /\ ~closed /\ ~broken
  /\ at < Len(said)
  /\ said[at + 1] = Hello => pc = "handshake"
  /\ at' = at + 1
  /\ wire' = Append(wire, said[at + 1])
  /\ UNCHANGED <<settings, closed, broken, expired, scanner, secure, pc, i, line, results,
                 verdict>>

Close ==
  /\ pc \notin {"dial", "done"}
  /\ ~closed /\ ~broken
  /\ closed' = TRUE
  /\ UNCHANGED <<settings, at, broken, expired, connection, pc, i, line, results, verdict>>

\* Nothing more arrives, and a read or a write may fail from now on. A server
\* that has closed resets the connection when it is still written to.
Break ==
  /\ pc \notin {"dial", "done"}
  /\ ~broken
  /\ broken' = TRUE
  /\ UNCHANGED <<settings, at, closed, expired, connection, pc, i, line, results, verdict>>

\* The deadline of ctx. The connection of the tcp or unix prober shares it:
\* from now on every read and every write fails. A websocket has none once it
\* is open.
Expire ==
  /\ pc # "done"
  /\ ~expired
  /\ expired' = TRUE
  /\ UNCHANGED <<settings, at, closed, broken, connection, pc, i, line, results, verdict>>

-----------------------------------------------------------------------------
(* The probe.                                                              *)

Return(v) ==
  /\ pc' = "done"
  /\ verdict' = v

TimedOut == expired /\ prober # "websocket"

\* What is asked for the k-th entry: the websocket prober knows no
\* expect_bytes, no labels and no starttls.
Asked(k) ==
  IF prober = "websocket"
  THEN [script[k] EXCEPT !.bytes = <<>>, !.labels = FALSE, !.starttls = FALSE]
  ELSE script[k]

AfterExpect(e) == IF e.bytes # <<>> THEN "read" ELSE "send"

FirstStage(e) ==
  IF e.expect = None THEN AfterExpect(e)
  ELSE IF prober = "websocket" THEN "message" ELSE "scan"

\* dialUnix returns the error of the dial that did not happen, nil, when the
\* TLS configuration cannot be made; ProbeUnix then closes a nil connection.
DialsNothing == prober = "unix" /\ useTLS /\ tlsBroken

\* registry.MustRegister: a metric that is there already makes it panic.
MustRegister(metrics) == metrics \cap registered = {}

\* dialTCP or dialUnix, and what is done before the first entry.
Dialled ==
  /\ pc = "dial" /\ prober # "websocket"
  /\ ~expired
  /\ ~(useTLS /\ tlsBroken)
  /\ secure' = useTLS
  /\ registered' = {"regex", "bytes"} \cup (IF useTLS THEN {"ssl"} ELSE {})
  /\ pc' = "entry"
  /\ i' = 1
  /\ UNCHANGED <<settings, server, wire, scanner, line, sent, failedDueToRegex,
                 failedDueToBytes, verdict>>

\* The connection takes no deadline.
SetDeadlineFails ==
  /\ pc = "dial" /\ prober # "websocket"
  /\ ~expired
  /\ ~(useTLS /\ tlsBroken)
  /\ registered' = {"regex", "bytes"}
  /\ Return("failure")
  /\ UNCHANGED <<settings, server, connection, i, line, sent, failedDueToRegex,
                 failedDueToBytes>>

\* The connection is made and upgraded to a websocket.
Upgraded ==
  /\ pc = "dial" /\ prober = "websocket"
  /\ ~expired /\ ~tlsBroken
  /\ secure' = useTLS
  /\ registered' = {"regex"}
  /\ pc' = "entry"
  /\ i' = 1
  /\ UNCHANGED <<settings, server, wire, scanner, line, sent, failedDueToRegex,
                 failedDueToBytes, verdict>>

\* The target does not resolve, the source address is none, the connection is
\* refused or not upgraded, the handshake fails, the deadline passes.
DialFails ==
  /\ pc = "dial"
  /\ IF DialsNothing THEN Return("panic") ELSE Return("failure")
  /\ UNCHANGED <<settings, server, connection, i, line, results>>

AllMet ==
  /\ pc = "entry"
  /\ i > Len(script)
  /\ Return("success")
  /\ UNCHANGED <<settings, server, connection, i, line, results>>

\* Faulty variant: every entry gets a scanner of its own.
BeginEntryAfresh ==
  /\ pc = "entry"
  /\ i <= Len(script)
  /\ pc' = FirstStage(Asked(i))
  /\ line' = <<>>
  /\ scanner' = NewScanner
  /\ UNCHANGED <<settings, server, wire, secure, i, results, verdict>>

BeginEntry ==
  /\ pc = "entry"
  /\ i <= Len(script)
  /\ pc' = FirstStage(Asked(i))
  /\ line' = <<>>
  /\ UNCHANGED <<settings, server, connection, i, results, verdict>>

-----------------------------------------------------------------------------
(* expect                                                                  *)

Breaks(bytes) == {j \in DOMAIN bytes : bytes[j] = Newline}

Least(S) == CHOOSE x \in S : \A y \in S : x <= y

Matches(pattern, text) == \E j \in DOMAIN text : text[j] = pattern

\* What one Read returns of n bytes asked for: all that is there, up to n;
\* over TLS perhaps less, because it never returns more than one record.
ReadSizes(n) ==
  LET most == IF Len(wire) < n THEN Len(wire) ELSE n
  IN  IF secure THEN 1 .. most ELSE {most} \ {0}

\* The line matches: the loop ends and the labels are exported.
Matched(text) ==
  /\ line' = text
  /\ failedDueToRegex' = 0
  /\ IF ~script[i].labels
     THEN pc' = AfterExpect(script[i]) /\ UNCHANGED <<registered, verdict>>
     ELSE IF MustRegister({"info"})
     THEN /\ registered' = registered \cup {"info"}
          /\ pc' = AfterExpect(script[i])
          /\ UNCHANGED verdict
     ELSE Return("panic") /\ UNCHANGED registered
  /\ UNCHANGED <<settings, server, wire, secure, i, sent, failedDueToBytes>>

\* Scan finds a whole line in the buffer.
ScanLine ==
  /\ pc = "scan"
  /\ Breaks(scanner.buffer) # {}
  /\ LET end == Least(Breaks(scanner.buffer))
         text == SubSeq(scanner.buffer, 1, end - 1)
     IN  /\ scanner' = [scanner EXCEPT !.buffer = SubSeq(@, end + 1, Len(@))]
         /\ IF Matches(script[i].expect, text)
            THEN Matched(text)
            ELSE UNCHANGED <<settings, server, wire, secure, pc, i, line, results, verdict>>

NeedsData == pc = "scan" /\ Breaks(scanner.buffer) = {} /\ ~scanner.eof

\* Scan reads more into the buffer.
ScanReads ==
  /\ NeedsData
  /\ ~expired
  /\ \E n \in ReadSizes(MaxToken - Len(scanner.buffer)) :
       /\ scanner' = [scanner EXCEPT !.buffer = @ \o SubSeq(wire, 1, n)]
       /\ wire' = SubSeq(wire, n + 1, Len(wire))
  /\ UNCHANGED <<settings, server, secure, pc, i, line, results, verdict>>

\* scanner.Err(): the deadline, a broken connection, or a line that does not fit
\* the buffer. What is left in the buffer may match or not: the error comes first.
ScanFails ==
  /\ NeedsData
  /\ expired \/ broken \/ Len(scanner.buffer) >= MaxToken
  /\ Return("failure")
  /\ UNCHANGED <<settings, server, connection, i, line, results>>

\* The end of the connection ends the last line.
ScanEnds ==
  /\ pc = "scan"
  /\ Breaks(scanner.buffer) = {}
  /\ scanner.eof \/ (/\ closed /\ wire = <<>> /\ ~expired /\ ~broken
                      /\ Len(scanner.buffer) < MaxToken)
  /\ scanner' = [buffer |-> <<>>, eof |-> TRUE]
  /\ IF Matches(script[i].expect, scanner.buffer)
     THEN Matched(scanner.buffer)
     ELSE /\ failedDueToRegex' = 1
          /\ Return("failure")
          /\ UNCHANGED <<settings, server, wire, secure, i, line, sent, registered,
                         failedDueToBytes>>

-----------------------------------------------------------------------------
(* expect_bytes, send and starttls                                         *)

\* One Read of the connection, not of the scanner, for as many bytes as are
\* expected.
ReadBytes ==
  /\ pc = "read"
  /\ ~expired
  /\ \E n \in ReadSizes(Len(script[i].bytes)) :
       /\ wire' = SubSeq(wire, n + 1, Len(wire))
       /\ CASE n < Len(script[i].bytes) ->
                 Return("failure") /\ UNCHANGED failedDueToBytes
            [] n = Len(script[i].bytes) /\ SubSeq(wire, 1, n) # script[i].bytes ->
                 failedDueToBytes' = 1 /\ Return("failure")
            [] OTHER ->
                 failedDueToBytes' = 0 /\ pc' = "send" /\ UNCHANGED verdict
  /\ UNCHANGED <<settings, server, scanner, secure, i, line, sent, registered, failedDueToRegex>>

\* Faulty variant: the connection has no deadline.
ReadFailsAtEnd ==
  /\ pc = "read"
  /\ closed /\ wire = <<>>
  /\ Return("failure")
  /\ UNCHANGED <<settings, server, connection, i, line, results>>

ReadFails ==
  /\ pc = "read"
  /\ expired \/ broken \/ (closed /\ wire = <<>>)
  /\ Return("failure")
  /\ UNCHANGED <<settings, server, connection, i, line, results>>

\* Regexp.Expand of the template with the line that matched; without a
\* regular expression the text is sent as it stands.
Expand(e, text) ==
  IF e.send = "rest" /\ e.expect # None
  THEN SubSeq(text, Least({j \in DOMAIN text : text[j] = e.expect}) + 1, Len(text))
  ELSE IF e.send = "" THEN <<>> ELSE <<e.send>>

\* Faulty variant: the template is sent whenever there is one.
SendTextOfTemplate == IF script[i].send = "" THEN <<>> ELSE <<script[i].send>>

SendText == Expand(script[i], line)

Send ==
  /\ pc = "send"
  /\ ~TimedOut \/ SendText = <<>>
  /\ sent' = Append(sent, SendText)
  /\ IF Asked(i).starttls THEN pc' = "handshake" /\ UNCHANGED i
                           ELSE pc' = "entry" /\ i' = i + 1
  /\ UNCHANGED <<settings, server, connection, line, registered, failedDueToRegex,
                 failedDueToBytes, verdict>>

\* Faulty variant: the error is logged and the list goes on.
SendFailsGoesOn ==
  /\ pc = "send"
  /\ SendText # <<>>
  /\ TimedOut \/ closed \/ broken
  /\ pc' = "entry" /\ i' = i + 1
  /\ UNCHANGED <<settings, server, connection, line, results, verdict>>

SendFails ==
  /\ pc = "send"
  /\ SendText # <<>>
  /\ TimedOut \/ closed \/ broken
  /\ failedDueToRegex' = IF prober = "websocket" THEN 1 ELSE failedDueToRegex
  /\ Return("failure")
  /\ UNCHANGED <<settings, server, connection, i, line, sent, registered, failedDueToBytes>>

\* Faulty variant: the old scanner, with what it has read ahead, stays.
HandshakeKeepsScanner ==
  /\ pc = "handshake"
  /\ ~tlsBroken /\ ~expired
  /\ wire # <<>> /\ Head(wire) = Hello
  /\ wire' = Tail(wire)
  /\ secure' = TRUE
  /\ IF MustRegister({"ssl"})
     THEN /\ registered' = registered \cup {"ssl"}
          /\ pc' = "entry" /\ i' = i + 1
          /\ UNCHANGED verdict
     ELSE Return("panic") /\ UNCHANGED <<registered, i>>
  /\ UNCHANGED <<settings, server, scanner, line, sent, failedDueToRegex, failedDueToBytes>>

Handshake ==
  /\ pc = "handshake"
  /\ ~tlsBroken /\ ~expired
  /\ wire # <<>> /\ Head(wire) = Hello
  /\ wire' = Tail(wire)
  /\ secure' = TRUE
  /\ scanner' = NewScanner
  /\ IF MustRegister({"ssl"})
     THEN /\ registered' = registered \cup {"ssl"}
          /\ pc' = "entry" /\ i' = i + 1
          /\ UNCHANGED verdict
     ELSE Return("panic") /\ UNCHANGED <<registered, i>>
  /\ UNCHANGED <<settings, server, line, sent, failedDueToRegex, failedDueToBytes>>

\* The configuration cannot be made, the server says something else, is gone or
\* cut off, shows a certificate that does not verify, or takes too long.
HandshakeFails ==
  /\ pc = "handshake"
  /\ tlsBroken \/ wire # <<>> \/ closed \/ broken \/ expired
  /\ Return("failure")
  /\ UNCHANGED <<settings, server, connection, i, line, results>>

-----------------------------------------------------------------------------
(* The messages of a websocket.                                            *)

\* ReadMessage returns the next whole message. Whatever fails in an entry sets
\* the gauge of the regular expression.
ReceiveMessage ==
  /\ pc = "message"
  /\ Breaks(wire) # {}
  /\ LET end == Least(Breaks(wire))
         message == SubSeq(wire, 1, end - 1)
     IN  /\ wire' = SubSeq(wire, end + 1, Len(wire))
         /\ IF Matches(script[i].expect, message)
            THEN /\ line' = message
                 /\ pc' = "send"
                 /\ UNCHANGED <<failedDueToRegex, verdict>>
            ELSE /\ failedDueToRegex' = 1
                 /\ Return("failure")
                 /\ UNCHANGED line
  /\ UNCHANGED <<settings, server, scanner, secure, i, sent, registered, failedDueToBytes>>

MessageFails ==
  /\ pc = "message"
  /\ broken \/ (closed /\ Breaks(wire) = {})
  /\ failedDueToRegex' = 1
  /\ Return("failure")
  /\ UNCHANGED <<settings, server, connection, i, line, sent, registered, failedDueToBytes>>

-----------------------------------------------------------------------------
Probe ==
  \/ Dialled \/ SetDeadlineFails \/ Upgraded \/ DialFails \/ BeginEntry \/ AllMet
  \/ ScanLine \/ ScanReads \/ ScanFails \/ ScanEnds
  \/ ReadBytes \/ ReadFails
  \/ Send \/ SendFails \/ Handshake \/ HandshakeFails
  \/ ReceiveMessage \/ MessageFails

Next == Probe \/ Deliver \/ Close \/ Break \/ Expire

Spec == Init /\ [][Next]_vars

\* A goroutine that can run does, and the deadline comes.
FairSpec == Spec /\ WF_vars(Probe) /\ WF_vars(Expire)

-----------------------------------------------------------------------------
(* What the list asks for, said without segments, buffers and scanners.    *)

Heard == SubSeq(said, 1, at)

\* The lines of what was heard from position p on end before these positions.
\* A message counts when all of it is there, and only the next one does.
LineEnds(p) ==
  LET ends == {e \in p .. Len(Heard) : Heard[e] = Newline}
  IN  IF prober = "websocket" THEN {e \in ends : \A x \in ends : e <= x}
      ELSE ends \cup (IF closed /\ p <= Len(Heard) THEN {Len(Heard) + 1} ELSE {})

LineEndingAt(p, e) ==
  LET starts == {p} \cup {j + 1 : j \in {b \in Breaks(Heard) : p <= b /\ b < e}}
  IN  SubSeq(Heard, CHOOSE s \in starts : \A t \in starts : t <= s, e - 1)

MatchEnds(e, p) == {x \in LineEnds(p) : Matches(e.expect, LineEndingAt(p, x))}

\* The position behind the line that meets expect, 0 if there is none yet.
BehindLine(e, p) ==
  IF e.expect = None THEN p
  ELSE IF MatchEnds(e, p) = {} THEN 0 ELSE Least(MatchEnds(e, p)) + 1

StandAt(bytes, p) == p + Len(bytes) - 1 <= at /\ SubSeq(Heard, p, p + Len(bytes) - 1) = bytes

BehindBytes(e, p) ==
  IF p = 0 \/ e.bytes = <<>> THEN p
  ELSE IF StandAt(e.bytes, p) THEN p + Len(e.bytes) ELSE 0

BehindHello(e, p) ==
  IF p = 0 \/ ~e.starttls THEN p
  ELSE LET hellos == {h \in p .. Len(Heard) : Heard[h] = Hello}
       IN  IF hellos = {} THEN 0 ELSE Least(hellos) + 1

BehindEntry(e, p) ==
  IF p = 0 THEN 0 ELSE BehindHello(e, BehindBytes(e, BehindLine(e, p)))

\* Behind[k]: the position behind all that the first k entries ask for.
Behind ==
  LET behind[k \in 0 .. Len(script)] ==
        IF k = 0 THEN 1 ELSE BehindEntry(Asked(k), behind[k - 1])
  IN  behind

\* No expect_bytes comes at or after an expect without a starttls between the
\* two: its direct read would miss what the scanner has read ahead.
ReadsApart ==
  \A s \in Scripts : \A j, k \in DOMAIN s :
    j <= k /\ s[j].expect # None /\ s[k].bytes # <<>> => \E m \in j .. k - 1 : s[m].starttls

-----------------------------------------------------------------------------
(* Properties.                                                             *)

Gauge == {0, 1}

\* The types of the variables; a verdict is there exactly at the end.
TypeOK ==
  /\ prober \in {"tcp", "unix", "websocket"} /\ useTLS \in BOOLEAN /\ tlsBroken \in BOOLEAN
  /\ script \in Scripts /\ said \in Streams
  /\ at \in 0 .. Len(said) /\ closed \in BOOLEAN /\ broken \in BOOLEAN /\ expired \in BOOLEAN
  /\ Len(wire) + Len(scanner.buffer) <= at
  /\ Len(scanner.buffer) <= MaxToken /\ scanner.eof \in BOOLEAN
  /\ secure \in BOOLEAN
  /\ pc \in {"dial", "entry", "scan", "read", "message", "send", "handshake", "done"}
  /\ i \in 0 .. Len(script) + 1
  /\ Len(sent) \in {0, i - 1, i}
  /\ registered \subseteq {"regex", "bytes", "ssl", "info"}
  /\ failedDueToRegex \in Gauge /\ failedDueToBytes \in Gauge
  /\ verdict \in {"none", "success", "failure", "panic"}
  /\ verdict = "none" <=> pc # "done"

\* A probe succeeds only if the bytes the server sent, in their order and each
\* used once, meet the whole list, however they were cut into segments and
\* whatever the scanner had read ahead; and what was said in clear before a
\* starttls meets nothing that is expected behind it (query_response.go:105-201).
SuccessMeansMatched == verdict = "success" => Behind[Len(script)] # 0

\* What is sent for an entry is made from the line that met its expectation,
\* in the order of the list and only after it was met.
SentAsAgreed ==
  \A k \in 1 .. Len(sent) :
    LET e == Asked(k)
        p == Behind[k - 1]
    IN  /\ p # 0 /\ BehindBytes(e, BehindLine(e, p)) # 0
        /\ sent[k] = Expand(e, IF e.expect = None THEN <<>>
                               ELSE LineEndingAt(p, Least(MatchEnds(e, p))))

\* The gauges blame the right thing: probe_failed_due_to_regex only when the
\* server had ended and no line of the rest matched, and
\* probe_failed_due_to_bytes only when other bytes stood there; neither for a
\* deadline, a lost connection or a line too long (query_response.go:119-156).
\* That of the websocket prober is set for a lost connection too, but never
\* while the server may still answer (websocket.go:134-177).
GaugesTruthful ==
  /\ failedDueToRegex = 1 =>
       /\ verdict = "failure"
       /\ IF prober = "websocket"
          THEN closed \/ broken
               \/ (LineEnds(Behind[i - 1]) # {} /\ MatchEnds(script[i], Behind[i - 1]) = {})
          ELSE closed /\ MatchEnds(script[i], Behind[i - 1]) = {}
  /\ failedDueToBytes = 1 =>
       /\ verdict = "failure"
       /\ LET p == BehindLine(script[i], Behind[i - 1])
          IN  /\ p + Len(script[i].bytes) - 1 <= at
              /\ ~StandAt(script[i].bytes, p)

\* Whatever the server does, says nothing or goes on for ever, the probe ends:
\* the deadline reaches every read and write (query_response.go:89). The one
\* exception is a websocket whose server neither sends the message that is waited
\* for nor closes or breaks the connection: ReadMessage has no deadline
\* (websocket.go:147).
EveryProbeEnds ==
  LET held == /\ prober = "websocket" /\ pc = "message"
              /\ ~closed /\ ~broken /\ LineEnds(Behind[i - 1]) = {}
  IN  <>[](pc = "done" \/ held)
=============================================================================
