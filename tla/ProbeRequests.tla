--------------------------- MODULE ProbeRequests ---------------------------
(***************************************************************************)
(* Requests for /probe, from the server's goroutine that takes the loaded  *)
(* configuration (main.go) to the answer (prober/handler.go), while the    *)
(* configuration is reloaded and scrapers hang up. ConfigReload says when  *)
(* a configuration is loaded, and ResultHistory what becomes of a result   *)
(* that is added.                                                          *)
(*                                                                         *)
(* Time is counted in ticks of half a second, the default of               *)
(* --timeout-offset. What a goroutine does without waiting takes no time:  *)
(* the clock stands while such a step is possible.                         *)
(***************************************************************************)
EXTENDS Integers, Sequences

CONSTANTS
  Slots,        \* connections: requests that can be served at one time
  Requests,     \* what a scraper may ask
  Config,       \* Config[v][name]: the modules of each version of the file
  Default,      \* 120 seconds, scaled down
  Offset,       \* --timeout-offset
  Absent,       \* no such module, no hostname, no Host header, no header
  Bad,          \* a timeout header that does not parse
  LastArrival,  \* bound: requests arrive before this time
  MaxTime,      \* bound: the clock stops here
  MaxRequests   \* bound: requests in a behaviour

Versions == 1 .. Len(Config)
Names == DOMAIN Config[1]

ASSUME RequestAssumption ==
  /\ Default \in Nat /\ Offset \in Nat
  /\ LastArrival \in Nat /\ MaxTime \in Nat /\ MaxRequests \in Nat
  /\ Len(Config) \in Nat \ {0}
  /\ \A v \in Versions, m \in Names : Config[v][m] = Absent \/ Config[v][m].timeout \in Nat
  /\ \A q \in Requests : q.module \in Names /\ q.header \in {Absent, Bad} \cup Int
  /\ Bad # Absent /\ Bad \notin Int /\ Absent \notin Int

VARIABLES
  clock,
  loaded,         \* sc.C: the version in force
  hostOf,         \* hostOf[v][m]: the Host header in the map of a loaded module
  moduleUnknown,  \* moduleUnknownCounter
  log,            \* the results added to the history
  fate,           \* history: what each request was told in the end
  pc,             \* "idle", "config", "handle", "build", "probe", "record", "answer"
  number,         \* which request of the behaviour a slot serves
  asked,          \* its parameters and headers
  arrived,        \* when it arrived
  conf,           \* the configuration it uses
  module,         \* its module
  headers,        \* module.HTTP.Headers: the loaded map, or a copy with a Host
  deadline,       \* of its context
  hungUp,         \* the scraper is gone: the context is cancelled
  sent,           \* the Host header of the request the http prober has built
  success         \* the verdict of the prober

process == <<loaded, hostOf, moduleUnknown, log, fate>>
request == <<number, asked, arrived>>
probe == <<conf, module, headers, deadline, sent, success>>
vars == <<clock, process, pc, request, hungUp, probe>>

Hosts ==
  {Absent} \cup {q.hostname : q \in Requests}
    \cup UNION {{Config[v][m].host : m \in {n \in Names : Config[v][n] # Absent}} : v \in Versions}

Shared == [own |-> FALSE, host |-> Absent]

Init ==
  /\ clock = 0 /\ loaded = 1
  /\ hostOf = [v \in Versions |->
                 [m \in Names |-> IF Config[v][m] = Absent THEN Absent ELSE Config[v][m].host]]
  /\ moduleUnknown = 0 /\ log = <<>> /\ fate = <<>>
  /\ pc = [r \in Slots |-> "idle"]
  /\ number = [r \in Slots |-> 0]
  /\ asked = [r \in Slots |-> Absent]
  /\ arrived = [r \in Slots |-> 0]
  /\ conf = [r \in Slots |-> 1]
  /\ module = [r \in Slots |-> Absent]
  /\ headers = [r \in Slots |-> Shared]
  /\ deadline = [r \in Slots |-> 0]
  /\ hungUp = [r \in Slots |-> FALSE]
  /\ sent = [r \in Slots |-> Absent]
  /\ success = [r \in Slots |-> FALSE]

-----------------------------------------------------------------------------
Arrive(r, q) ==
  /\ pc[r] = "idle"
  /\ clock < LastArrival /\ Len(fate) < MaxRequests
  /\ pc' = [pc EXCEPT ![r] = "config"]
  /\ fate' = Append(fate, "open")
  /\ number' = [number EXCEPT ![r] = Len(fate) + 1]
  /\ asked' = [asked EXCEPT ![r] = q]
  /\ arrived' = [arrived EXCEPT ![r] = clock]
  /\ UNCHANGED <<clock, loaded, hostOf, moduleUnknown, log, hungUp, probe>>

\* conf := sc.C, under the lock.
TakeConfig(r) ==
  /\ pc[r] = "config"
  /\ conf' = [conf EXCEPT ![r] = loaded]
  /\ pc' = [pc EXCEPT ![r] = "handle"]
  /\ UNCHANGED <<clock, process, request, hungUp, module, headers, deadline, sent, success>>

\* The goroutine ends: its local variables are gone.
Forget(r) ==
  /\ pc' = [pc EXCEPT ![r] = "idle"]
  /\ number' = [number EXCEPT ![r] = 0]
  /\ asked' = [asked EXCEPT ![r] = Absent]
  /\ arrived' = [arrived EXCEPT ![r] = 0]
  /\ conf' = [conf EXCEPT ![r] = 1]
  /\ module' = [module EXCEPT ![r] = Absent]
  /\ headers' = [headers EXCEPT ![r] = Shared]
  /\ deadline' = [deadline EXCEPT ![r] = 0]
  /\ hungUp' = [hungUp EXCEPT ![r] = FALSE]
  /\ sent' = [sent EXCEPT ![r] = Absent]
  /\ success' = [success EXCEPT ![r] = FALSE]

Close(r, f) ==
  /\ fate' = [fate EXCEPT ![number[r]] = f]
  /\ Forget(r)

-----------------------------------------------------------------------------
(* Handler, up to the call of the prober.                                  *)

\* c.Modules[moduleName]
ModuleOf(r) == Config[conf[r]][asked[r].module]

\* Faulty variant: a timeout of the module always wins.
GetTimeoutOfModule(header, timeout) ==
  LET limit == (IF header \in {Absent, 0} THEN Default ELSE header) - Offset
  IN  IF timeout > 0 THEN timeout ELSE limit

\* getTimeout: "&&" binds tighter than "||".
GetTimeout(header, timeout) ==
  LET limit == (IF header \in {Absent, 0} THEN Default ELSE header) - Offset
  IN  IF (timeout < limit /\ timeout > 0) \/ limit < 0 THEN timeout ELSE limit

\* The request gives a hostname for the http prober.
NamesHost(r) == ModuleOf(r).prober = "http" /\ asked[r].hostname # Absent

\* setHTTPHost: the module has a Host header of its own, and it is another.
HostClash(r) ==
  /\ NamesHost(r)
  /\ LET host == hostOf[conf[r]][asked[r].module]
     IN  host # Absent /\ host # asked[r].hostname

\* Faulty variant: the header is written into the map of the configuration.
SetHTTPHostInPlace(r) ==
  /\ hostOf' = [hostOf EXCEPT ![conf[r]][asked[r].module] = asked[r].hostname]
  /\ headers' = [headers EXCEPT ![r] = Shared]

\* setHTTPHost: "By creating a new hashmap and copying values there we ensure
\* that the initial configuration remain intact." (handler.go:160)
SetHTTPHost(r) ==
  /\ headers' = [headers EXCEPT ![r] = [own |-> TRUE, host |-> asked[r].hostname]]
  /\ UNCHANGED hostOf

RefuseModule(r) ==
  /\ pc[r] = "handle"
  /\ ModuleOf(r) = Absent
  /\ moduleUnknown' = moduleUnknown + 1
  /\ Close(r, "unknown module")
  /\ UNCHANGED <<clock, loaded, hostOf, log>>

\* The timeout does not parse, the target is missing, the prober is unknown or
\* the Host header is given twice.
Unacceptable(r) ==
  \/ asked[r].header = Bad
  \/ ~asked[r].target
  \/ ModuleOf(r).prober = "nosuch"
  \/ HostClash(r)

\* Faulty variant: the error is written and the handler goes on.
RefuseGoesOn(r) ==
  /\ pc[r] = "handle"
  /\ ModuleOf(r) # Absent
  /\ Unacceptable(r)
  /\ fate' = [fate EXCEPT ![number[r]] = "refused"]
  /\ pc' = [pc EXCEPT ![r] = "probe"]
  /\ module' = [module EXCEPT ![r] = ModuleOf(r)]
  /\ UNCHANGED <<clock, loaded, hostOf, moduleUnknown, log, request, hungUp, conf, headers,
                 deadline, sent, success>>

Refuse(r) ==
  /\ pc[r] = "handle"
  /\ ModuleOf(r) # Absent
  /\ Unacceptable(r)
  /\ Close(r, "refused")
  /\ UNCHANGED <<clock, loaded, hostOf, moduleUnknown, log>>

Begin(r) ==
  /\ pc[r] = "handle"
  /\ ModuleOf(r) # Absent
  /\ ~Unacceptable(r)
  /\ module' = [module EXCEPT ![r] = ModuleOf(r)]
  /\ deadline' = [deadline EXCEPT ![r] =
                    clock + GetTimeout(asked[r].header, ModuleOf(r).timeout)]
  /\ IF NamesHost(r) THEN SetHTTPHost(r) ELSE UNCHANGED <<headers, hostOf>>
  /\ pc' = [pc EXCEPT ![r] = IF ModuleOf(r).prober = "http" THEN "build" ELSE "probe"]
  /\ UNCHANGED <<clock, loaded, moduleUnknown, log, fate, request, hungUp, conf,
                 sent, success>>

-----------------------------------------------------------------------------
(* The prober and what follows it.                                         *)

\* ProbeHTTP resolves its target first, and then copies the headers.
Build(r) ==
  /\ pc[r] = "build"
  /\ sent' = [sent EXCEPT ![r] =
                IF headers[r].own THEN headers[r].host ELSE hostOf[conf[r]][asked[r].module]]
  /\ pc' = [pc EXCEPT ![r] = "probe"]
  /\ UNCHANGED <<clock, process, request, hungUp, conf, module, headers, deadline, success>>

Overdue(r) == clock >= deadline[r]

\* The deadline has passed, or the context was cancelled. What reads and writes
\* with nothing but the deadline of its connection need not notice the latter.
Done(r) == Overdue(r) \/ hungUp[r]

\* ProbeGRPC calls the server with context.Background(), and the websocket of
\* ProbeWebsocket has no deadline once it is open.
HonoursContext(r) == module[r].prober \notin {"grpc", "websocket"}

Probing(r) == pc[r] \in {"build", "probe"}

\* The prober has its result.
ProbeReturns(r, s) ==
  /\ Probing(r)
  /\ s => pc[r] = "probe"
  /\ Overdue(r) => ~HonoursContext(r)
  /\ success' = [success EXCEPT ![r] = s]
  /\ pc' = [pc EXCEPT ![r] = "record"]
  /\ UNCHANGED <<clock, process, request, hungUp, conf, module, headers, deadline, sent>>

\* The context is done, and what the prober waits for fails.
ProbeTimesOut(r) ==
  /\ Probing(r)
  /\ Done(r) /\ HonoursContext(r)
  /\ pc' = [pc EXCEPT ![r] = "record"]
  /\ UNCHANGED <<clock, process, request, hungUp, probe>>

\* A prober panics and net/http recovers: the connection is closed.
ProbePanics(r) ==
  /\ Probing(r)
  /\ Close(r, "aborted")
  /\ UNCHANGED <<clock, loaded, hostOf, moduleUnknown, log>>

\* Faulty variant: nothing is kept for a scraper that is gone.
RecordIfHeard(r) ==
  /\ pc[r] = "record"
  /\ log' = IF hungUp[r] THEN log
            ELSE Append(log, [number |-> number[r], success |-> success[r]])
  /\ pc' = [pc EXCEPT ![r] = "answer"]
  /\ UNCHANGED <<clock, loaded, hostOf, moduleUnknown, fate, request, hungUp, probe>>

\* rh.Add
Record(r) ==
  /\ pc[r] = "record"
  /\ log' = Append(log, [number |-> number[r], success |-> success[r]])
  /\ pc' = [pc EXCEPT ![r] = "answer"]
  /\ UNCHANGED <<clock, loaded, hostOf, moduleUnknown, fate, request, hungUp, probe>>

\* Faulty variant: the handler waits for the scraper to take the answer.
AnswerIfHeard(r) ==
  /\ pc[r] = "answer"
  /\ ~hungUp[r]
  /\ Close(r, IF success[r] THEN "success" ELSE "failure")
  /\ UNCHANGED <<clock, loaded, hostOf, moduleUnknown, log>>

\* The metrics, or the debug output, are written; to nobody, perhaps.
Answer(r) ==
  /\ pc[r] = "answer"
  /\ Close(r, IF success[r] THEN "success" ELSE "failure")
  /\ UNCHANGED <<clock, loaded, hostOf, moduleUnknown, log>>

-----------------------------------------------------------------------------
(* The rest of the world.                                                  *)

\* The scraper closes the connection: net/http cancels the request's context.
HangUp(r) ==
  /\ pc[r] # "idle" /\ ~hungUp[r]
  /\ hungUp' = [hungUp EXCEPT ![r] = TRUE]
  /\ UNCHANGED <<clock, process, pc, request, probe>>

\* ConfigReload puts another version into force: a new value of sc.C.
Reload ==
  /\ loaded + 1 \in Versions
  /\ loaded' = loaded + 1
  /\ UNCHANGED <<clock, hostOf, moduleUnknown, log, fate, pc, request, hungUp, probe>>

Waiting(r) ==
  \/ pc[r] = "idle"
  \/ pc[r] \in {"build", "probe"} /\ (Overdue(r) => ~HonoursContext(r))

Tick ==
  /\ clock < MaxTime
  /\ \A r \in Slots : Waiting(r)
  /\ clock' = clock + 1
  /\ UNCHANGED <<process, pc, request, hungUp, probe>>

Serve(r) ==
  \/ TakeConfig(r) \/ RefuseModule(r) \/ Refuse(r) \/ Begin(r)
  \/ ProbeTimesOut(r) \/ Record(r) \/ Answer(r)

Next ==
  \/ \E r \in Slots, q \in Requests : Arrive(r, q)
  \/ \E r \in Slots : Serve(r) \/ Build(r) \/ ProbePanics(r) \/ HangUp(r)
  \/ \E r \in Slots, s \in BOOLEAN : ProbeReturns(r, s)
  \/ Reload \/ Tick

Spec == Init /\ [][Next]_vars

\* Goroutines that can run do, a prober notices that its context is done, and
\* time passes. Nothing is assumed of targets and scrapers.
FairSpec == Spec /\ WF_vars(Tick) /\ \A r \in Slots : WF_vars(Serve(r))

-----------------------------------------------------------------------------
(* Properties.                                                             *)

Fates == {"open", "unknown module", "refused", "aborted", "success", "failure"}

\* The types of the variables; no two slots serve one request.
TypeOK ==
  /\ clock \in 0 .. MaxTime /\ loaded \in Versions
  /\ moduleUnknown \in Nat
  /\ fate \in Seq(Fates)
  /\ log \in Seq([number: Nat, success: BOOLEAN])
  /\ pc \in [Slots -> {"idle", "config", "handle", "build", "probe", "record", "answer"}]
  /\ number \in [Slots -> Nat]
  /\ asked \in [Slots -> Requests \cup {Absent}]
  /\ arrived \in [Slots -> Nat] /\ deadline \in [Slots -> Int]
  /\ conf \in [Slots -> Versions]
  /\ module \in [Slots -> {Absent} \cup UNION {{Config[v][m] : m \in Names} : v \in Versions}]
  /\ hostOf \in [Versions -> [Names -> Hosts]]
  /\ headers \in [Slots -> [own: BOOLEAN, host: Hosts]] /\ sent \in [Slots -> Hosts]
  /\ hungUp \in [Slots -> BOOLEAN] /\ success \in [Slots -> BOOLEAN]
  /\ \A r \in Slots : pc[r] = "idle" => number[r] = 0
  /\ \A r \in Slots : pc[r] # "idle" =>
       /\ asked[r] \in Requests
       /\ number[r] \in 1 .. Len(fate) /\ fate[number[r]] = "open"
       /\ \A s \in Slots : number[s] = number[r] => s = r

\* A request is served by one configuration from beginning to end, whatever is
\* loaded meanwhile, and its probe carries the Host header it asked for, or
\* else the one of its module, whatever other requests of the same module ask
\* for at the same time (main.go:208-213, handler.go:159-174).
AsConfigured ==
  \A r \in Slots :
    /\ pc[r] \in {"build", "probe", "record", "answer"} =>
         module[r] = Config[conf[r]][asked[r].module]
    /\ sent[r] # Absent =>
         sent[r] = IF asked[r].hostname # Absent THEN asked[r].hostname
                   ELSE Config[conf[r]][asked[r].module].host

Scrape(r) == IF asked[r].header \in {Absent, 0} THEN Default ELSE asked[r].header

\* A probe is over when Prometheus gives up, less the offset, and when the
\* timeout of its module has passed (README.md:187, CONFIGURATION.md:63). A
\* scrape timeout that is not longer than the offset is out of reach.
InTime ==
  \A r \in Slots : pc[r] \in {"build", "probe", "record", "answer"} =>
    /\ Scrape(r) >= Offset => clock <= arrived[r] + Scrape(r) - Offset
    /\ module[r].timeout > 0 => clock <= arrived[r] + module[r].timeout

\* What a scraper was told stands in the history exactly once, as it was told,
\* and what was refused or aborted does not; a probe whose scraper has gone is
\* recorded like any other (handler.go:135-157).
RecordedOnce ==
  \A n \in 1 .. Len(fate) :
    LET entries == {j \in 1 .. Len(log) : log[j].number = n} IN
      /\ \A j, k \in entries : j = k
      /\ fate[n] \in {"success", "failure"} =>
           \E j \in entries : log[j].success = (fate[n] = "success")
      /\ fate[n] \in {"unknown module", "refused", "aborted"} => entries = {}

\* Every request is answered, or its prober panicked: a context that is done
\* ends the probe, and nothing else is waited for, be it a target that says
\* nothing or a scraper that does not take its answer.
EveryRequestAnswered == \A r \in Slots : pc[r] # "idle" ~> pc[r] = "idle"
=============================================================================
