---------------------------- MODULE ConfigReload ----------------------------
(***************************************************************************)
(* Loading and reloading the configuration: SafeConfig.ReloadConfig        *)
(* (config/config.go), the goroutine of main.go that runs it on SIGHUP, on *)
(* a POST to /-/reload and on a timer, and an operator who rewrites the    *)
(* file meanwhile.                                                         *)
(*                                                                         *)
(* A version is a content of the file; the operator may write any of them  *)
(* at any time, also one the file had before. ReloadConfig reads the file  *)
(* twice, first for its checksum and then to decode it; no lock covers the *)
(* two, so the checksum it remembers may be that of another version than   *)
(* the one it loads.                                                       *)
(*                                                                         *)
(* What every module has is called Reload... here, so that one module of   *)
(* proofs, SharedStateProofs, can extend this module and CounterCache.     *)
(***************************************************************************)
EXTENDS Naturals

CONSTANTS
  MaxWrites,    \* bound: the file is rewritten at most this often
  Versions,     \* the contents the file may have
  Malformed,    \* versions that do not decode
  Unreadable,   \* versions that stand for a file that cannot be read
  Requests,     \* POSTs to /-/reload in progress at one time
  Nothing       \* no checksum yet, no request

ASSUME ReloadAssumption ==
  /\ MaxWrites \in Nat
  /\ Malformed \subseteq Versions /\ Unreadable \subseteq Versions
  /\ Nothing \notin Versions \cup Requests \cup {"start", "hup", "tick", "ok", "error"}
  /\ Requests \cap {"start", "hup", "tick"} = {}

Bad == Malformed \cup Unreadable

VARIABLES
  enableAutoReload,\* --config.enable-auto-reload, chosen when the process is started
  file,            \* the content of the configuration file
  writes,          \* how often it has been rewritten
  loaded,          \* sc.C, the configuration probes are run with
  configChecksum,  \* sc.configChecksum
  reloadSuccess,   \* the gauge blackbox_exporter_config_last_reload_successful
  hup,             \* the buffered channel of SIGHUP holds a signal
  loop,            \* where the reload goroutine is
  cause,           \* what the running reload is for
  hashed,          \* currentConfigChecksum of the running reload
  decoded,         \* the configuration the running reload has decoded
  outcome,         \* "ok" or "error", when ReloadConfig is about to return
  request,         \* request[r]: where the handler of /-/reload is
  reply,           \* reply[r]: what it answered
  signalled,       \* history: a SIGHUP was sent after the file was last changed
  sinceSent,       \* history: what the file has been since r was sent, while r is pending
  since,           \* history: what the file has been since the running reload began
  raced            \* history: the file was changed between the two readings of loaded

operatorVars == <<enableAutoReload, file, writes, hup, signalled>>
localVars    == <<hashed, decoded, outcome>>
configVars   == <<loaded, configChecksum, reloadSuccess, raced>>
requestVars  == <<request, reply, sinceSent>>
reloadVars == <<operatorVars, configVars, loop, cause, localVars, since, requestVars>>

-----------------------------------------------------------------------------
\* main loads the configuration once before it serves anything.
ReloadInit ==
  /\ enableAutoReload \in BOOLEAN
  /\ file \in Versions
  /\ writes = 0
  /\ loaded = Nothing
  /\ configChecksum = Nothing
  /\ reloadSuccess = FALSE
  /\ hup = FALSE
  /\ loop = "hash"
  /\ cause = "start"
  /\ hashed = Nothing /\ decoded = Nothing /\ outcome = Nothing
  /\ request = [r \in Requests |-> "idle"]
  /\ reply = [r \in Requests |-> Nothing]
  /\ signalled = FALSE
  /\ sinceSent = [r \in Requests |-> {}]
  /\ since = {file}
  /\ raced = FALSE

-----------------------------------------------------------------------------
(* The operator.                                                           *)

\* Another content is put into the file.
Write(v) ==
  /\ v # file /\ writes < MaxWrites
  /\ file' = v /\ writes' = writes + 1
  /\ signalled' = FALSE
  /\ since' = IF loop = "select" THEN {} ELSE since \cup {v}
  /\ sinceSent' = [r \in Requests |->
                    IF request[r] = "idle" THEN {} ELSE sinceSent[r] \cup {v}]
  /\ UNCHANGED <<enableAutoReload, hup, configVars, loop, cause, localVars, request,
                 reply>>

\* Faulty variant: a channel without a buffer drops the signal when the
\* goroutine is busy.
SignalUnbuffered ==
  /\ cause # "start"
  /\ hup' = (hup \/ loop = "select")
  /\ signalled' = TRUE
  /\ UNCHANGED <<enableAutoReload, file, writes, configVars, loop, cause, localVars, since,
                 requestVars>>

\* SIGHUP: the runtime delivers into a channel of capacity one, or drops. The
\* handler is installed after the first load.
Signal ==
  /\ cause # "start"
  /\ hup' = TRUE
  /\ signalled' = TRUE
  /\ UNCHANGED <<enableAutoReload, file, writes, configVars, loop, cause, localVars, since,
                 requestVars>>

\* A POST to /-/reload: the handler offers its reply channel on reloadCh.
Post(r) ==
  /\ cause # "start"
  /\ request[r] = "idle"
  /\ request' = [request EXCEPT ![r] = "offer"]
  /\ reply' = [reply EXCEPT ![r] = Nothing]
  /\ sinceSent' = [sinceSent EXCEPT ![r] = {file}]
  /\ UNCHANGED <<operatorVars, configVars, loop, cause, localVars, since>>

-----------------------------------------------------------------------------
(* The reload goroutine.                                                   *)

BeginReload(c) ==
  /\ loop = "select"
  /\ loop' = "hash"
  /\ cause' = c
  /\ since' = {file}

SelectHup ==
  /\ hup
  /\ BeginReload("hup")
  /\ hup' = FALSE
  /\ UNCHANGED <<enableAutoReload, file, writes, signalled, configVars, localVars, requestVars>>

SelectRequest(r) ==
  /\ request[r] = "offer"
  /\ BeginReload(r)
  /\ request' = [request EXCEPT ![r] = "wait"]
  /\ UNCHANGED <<operatorVars, configVars, localVars, reply, sinceSent>>

\* Faulty variant: the timer case does not reload.
SelectTickIdle ==
  /\ enableAutoReload
  /\ loop = "select"
  /\ UNCHANGED reloadVars

\* The timer case; without the flag it changes nothing.
SelectTick ==
  /\ enableAutoReload
  /\ BeginReload("tick")
  /\ UNCHANGED <<operatorVars, configVars, localVars, requestVars>>

\* GenerateChecksum cannot read the file.
HashFails ==
  /\ loop = "hash"
  /\ file \in Unreadable
  /\ loop' = "return" /\ outcome' = "error"
  /\ UNCHANGED <<operatorVars, configVars, cause, hashed, decoded, since, requestVars>>

\* "Configuration checksum check passed. No changes detected."
NoChange ==
  /\ loop = "hash"
  /\ file \notin Unreadable
  /\ file = configChecksum
  /\ loop' = "return" /\ outcome' = "ok"
  /\ UNCHANGED <<operatorVars, configVars, cause, hashed, decoded, since, requestVars>>

\* Faulty variant: the checksum is remembered before the file has decoded.
HashDiffersRemembered ==
  /\ loop = "hash"
  /\ file \notin Unreadable
  /\ file # configChecksum
  /\ loop' = "decode" /\ hashed' = file /\ configChecksum' = file
  /\ UNCHANGED <<operatorVars, loaded, reloadSuccess, raced, cause, decoded, outcome, since,
                 requestVars>>

\* The checksum differs from the one remembered.
HashDiffers ==
  /\ loop = "hash"
  /\ file \notin Unreadable
  /\ file # configChecksum
  /\ loop' = "decode" /\ hashed' = file
  /\ UNCHANGED <<operatorVars, configVars, cause, decoded, outcome, since, requestVars>>

\* The file is opened again and does not decode.
DecodeFails ==
  /\ loop = "decode"
  /\ file \in Bad
  /\ loop' = "return" /\ outcome' = "error"
  /\ UNCHANGED <<operatorVars, configVars, cause, hashed, decoded, since, requestVars>>

\* The file is opened again and decodes.
DecodeSucceeds ==
  /\ loop = "decode"
  /\ file \notin Bad
  /\ loop' = "return" /\ outcome' = "ok" /\ decoded' = file
  /\ UNCHANGED <<operatorVars, configVars, cause, hashed, since, requestVars>>

\* Under the lock: the decoded configuration is put into place with the
\* checksum of what the file was before.
Install ==
  IF decoded = Nothing THEN UNCHANGED <<loaded, configChecksum, raced>>
  ELSE loaded' = decoded /\ configChecksum' = hashed /\ raced' = (decoded # hashed)

\* Faulty variant: a failed reload answers nobody (continue without rc <- err).
AnswerSilent ==
  IF cause \in Requests /\ outcome = "ok"
  THEN /\ request' = [request EXCEPT ![cause] = "idle"]
       /\ reply' = [reply EXCEPT ![cause] = "ok"]
       /\ sinceSent' = [sinceSent EXCEPT ![cause] = {}]
  ELSE UNCHANGED requestVars

\* Faulty variant: the error of a reload is not passed on.
AnswerAlwaysOk ==
  IF cause \in Requests
  THEN /\ request' = [request EXCEPT ![cause] = "idle"]
       /\ reply' = [reply EXCEPT ![cause] = "ok"]
       /\ sinceSent' = [sinceSent EXCEPT ![cause] = {}]
  ELSE UNCHANGED requestVars

\* The handler that asked for the reload receives its outcome.
Answered ==
  IF cause \in Requests
  THEN /\ request' = [request EXCEPT ![cause] = "idle"]
       /\ reply' = [reply EXCEPT ![cause] = outcome]
       /\ sinceSent' = [sinceSent EXCEPT ![cause] = {}]
  ELSE UNCHANGED requestVars

\* ReloadConfig returns: the deferred function sets the gauge, a request gets
\* its answer, and a failed first load ends the process.
Finish ==
  /\ loop = "return"
  /\ Install
  /\ reloadSuccess' = (outcome = "ok")
  /\ hashed' = Nothing /\ decoded' = Nothing /\ outcome' = Nothing
  /\ loop' = IF cause = "start" /\ outcome = "error" THEN "exit" ELSE "select"
  /\ cause' = IF cause = "start" /\ outcome = "error" THEN cause ELSE Nothing
  /\ Answered
  /\ since' = {}
  /\ UNCHANGED operatorVars

Reload == \/ HashFails \/ NoChange \/ HashDiffers \/ DecodeFails \/ DecodeSucceeds \/ Finish

ReloadNext ==
  \/ \E v \in Versions : Write(v)
  \/ Signal
  \/ \E r \in Requests : Post(r)
  \/ SelectHup
  \/ \E r \in Requests : SelectRequest(r)
  \/ SelectTick
  \/ Reload

ReloadSpec == ReloadInit /\ [][ReloadNext]_reloadVars

\* The goroutine runs; select picks among ready cases at random, so a case
\* that is ready again and again is picked in the end.
ReloadFairness ==
  /\ WF_reloadVars(Reload)
  /\ SF_reloadVars(SelectHup)
  /\ \A r \in Requests : SF_reloadVars(SelectRequest(r))
  /\ WF_reloadVars(SelectTick)

ReloadFairSpec == ReloadSpec /\ ReloadFairness

-----------------------------------------------------------------------------
(* Properties.                                                             *)

Phases == {"hash", "decode", "return", "select", "exit"}

\* The types of the variables, and that a request waits exactly while the
\* reload it asked for is running.
ReloadTypeOK ==
  /\ enableAutoReload \in BOOLEAN
  /\ file \in Versions
  /\ writes \in 0 .. MaxWrites
  /\ loaded \in Versions \cup {Nothing}
  /\ configChecksum \in Versions \cup {Nothing}
  /\ reloadSuccess \in BOOLEAN
  /\ hup \in BOOLEAN
  /\ loop \in Phases
  /\ cause \in {"start", "hup", "tick", Nothing} \cup Requests
  /\ hashed \in Versions \cup {Nothing}
  /\ request \in [Requests -> {"idle", "offer", "wait"}]
  /\ reply \in [Requests -> {"ok", "error", Nothing}]
  /\ signalled \in BOOLEAN
  /\ sinceSent \in [Requests -> SUBSET Versions]
  /\ since \in SUBSET Versions
  /\ raced \in BOOLEAN
  /\ decoded \in Versions \cup {Nothing}
  /\ outcome \in {"ok", "error", Nothing}
  /\ loop = "decode" => hashed # Nothing
  /\ loop = "return" <=> outcome # Nothing
  /\ decoded # Nothing => outcome = "ok" /\ hashed # Nothing
  /\ loop = "select" <=> cause = Nothing
  /\ \A r \in Requests : request[r] = "wait" <=> cause = r

\* "If the new configuration is not well-formed, the changes will not be
\* applied" (README.md:171), although the file is read twice and may turn bad
\* between the two.
OnlyWellFormed == loaded # Nothing => loaded \notin Bad

\* The running configuration is one that the file was at some time in W. The
\* exception is a file that changed between the two readings of that
\* configuration and is put back afterwards: a reload that finds it so takes
\* it for the one that is loaded, and is skipped.
LoadedSince(W) ==
  /\ loaded # Nothing
  /\ loaded \in W \/ (raced /\ configChecksum \in W)

\* A request is answered: at a success the running configuration is one the
\* file has been since the request was sent, and at a failure the file has been
\* bad at some time since.
TruthfulAnswer ==
  \A r \in Requests, W \in SUBSET Versions :
    request[r] = "wait" /\ request'[r] = "idle" /\ W = sinceSent[r] =>
      IF reply'[r] = "ok" THEN LoadedSince(W)' ELSE W \cap Bad # {}

\* What POST /-/reload answers can be relied on, with the exception of LoadedSince,
\* although the request may be sent while a reload is running that has read the
\* file already.
AnswersTruthful == [][TruthfulAnswer]_reloadVars

\* A reload ends: the same of the gauge and of the time since it began.
TruthfulGauge ==
  \A W \in SUBSET Versions :
    loop = "return" /\ loop' # "return" /\ W = since =>
      IF reloadSuccess' THEN LoadedSince(W)' ELSE W \cap Bad # {}

\* The gauge of the last reload tells whether the running configuration is
\* one that the file has been since that reload began, also when the reload
\* was skipped because the checksum had not changed, with that same exception.
GaugeTruthful == [][TruthfulGauge]_reloadVars

\* A version is in force when it is loaded, or taken to be: when the running
\* configuration was read after its checksum was taken of that version.
Taken(v) == loaded = v \/ (raced /\ configChecksum = v)

\* A SIGHUP that follows the last change of the file is never lost, although
\* the channel holds one signal and the goroutine may be busy with a reload
\* that has read the file already.
SignalObeyed ==
  \A v \in Versions \ Bad :
    ~enableAutoReload /\ signalled /\ file = v /\ loop # "exit" ~> Taken(v) \/ file # v

\* Every POST to /-/reload is answered, whatever signals and ticks compete.
RequestAnswered == \A r \in Requests : request[r] = "offer" ~> request[r] = "idle"

\* With automatic reloading a well-formed file that stays is loaded.
FileFollowed ==
  \A v \in Versions \ Bad :
    enableAutoReload /\ file = v /\ loop # "exit" ~> Taken(v) \/ file # v \/ loop = "exit"
=============================================================================
