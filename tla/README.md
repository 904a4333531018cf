# A formal model of blackbox_exporter

This directory holds TLA+ specifications of the concurrent and stateful parts of
this fork of `blackbox_exporter`, the TLC configurations that check them on small
instances, and proofs, checked by TLAPS, of the properties that matter most. All
definitions are translated from the Go code; `PROJECT.json` maps every one of them
to its lines.

1. [The system](#1-the-system)
2. [The modules and the code](#2-the-modules-and-the-code)
3. [What is checked](#3-what-is-checked)
4. [Where code and documentation disagree](#4-where-code-and-documentation-disagree)
5. [What is proved](#5-what-is-proved)
6. [What is not modelled](#6-what-is-not-modelled)
7. [Plan](#7-plan)
8. [Running it](#8-running-it)

## 1. The system

The exporter is one process that runs a *prober* for each scrape of `/probe` and
answers with the metrics of that probe alone. A second program,
`wecom_probe_syncer`, turns rows of WeCom smart sheets into Kubernetes `Probe`
objects, which tell Prometheus what to ask the exporter for.

| Component | State | Operations | Hard behaviours | What makes it correct |
|---|---|---|---|---|
| Probe history (`prober/history.go`) | window of the last results, preserved failures, IDs; slices share backing arrays | `Add`, `List`, `GetByID`, `GetByTarget` | `List` hands a slice out of the lock, so readers and writers share memory | a reader's list never changes; window and failures are exactly the newest |
| Dashboard and `/logs` (`main.go`) | the page being written | write a row, look up a result | iterates without the lock while probes finish | each lookup returns the result it was asked for |
| Billing probers (`justmysocks.go`, `tencent_billing.go`) | one cache per URL file or account: snapshot, next refresh, mutex | probe: take the mutex, serve or fetch | a mutex is held over an HTTP request; the time is read before waiting; failures are cached | dates are true, the API is spared, answers never go back |
| Configuration reload (`config.go`, `main.go`) | running configuration, checksum, success gauge, signal channel, reload goroutine | SIGHUP, `POST /-/reload`, timer | file read twice without a lock, file changes at any time, unbuffered reply channel | only well-formed files get loaded; answers and gauge are true; no trigger is lost |
| WeCom syncer (`internal/wecomsync`, `cmd/wecom_probe_syncer`) | nothing but what is in the cluster | token, pages, apply, list, prune | paging by offset over a sheet people edit; partial failure; death between calls | nothing that is wanted gets deleted; the cluster converges |
| TCP and Unix probers (`tcp.go`, `unix.go`, `query_response.go`) | connection, scanner buffer, list position, registry | scan, compare bytes, send, start TLS | segments cut anywhere, read-ahead, two ways of reading, one deadline | success only if the server's bytes meet the list |
| WebSocket prober (`websocket.go`) | connection, list position | upgrade, receive a message, send | no deadline once the connection is upgraded | the same |
| Probe handler (`handler.go`, `main.go`) | loaded configuration and its shared header maps, deadline, verdict | choose module, refuse, probe, record, answer | configuration replaced during requests, three timeouts, scrapers that hang up, panics | one configuration per request, in time, answered and recorded once |
| ICMP prober (`icmp.go`) | shared 16-bit sequence counter, sockets, packets in the network | open, write, read | concurrent probes; lost, late, duplicated, foreign packets; fields the exporter cannot see | the own reply, and only that, is accepted |
| Target resolution (`utils.go`) | none | `chooseProtocol` | preference and fallback | the address the user asked for |
| DNS prober (`dns.go`) | two flags per section, the place in the answer | choose transport, port and address, exchange, judge code and records | empty sections, expressions compiled only when used, four kinds of rules over loops | success exactly if code and sections meet the rules |
| HTTP prober (`http.go`) | the list of traces, the reader of the body, gauges | requests with redirects, callbacks, checks of the answer | callbacks of a losing dial in the trace of a later request, one reader for several checks, bodies that get lost | success exactly if the answer meets the rules; phases lie in their requests |
| gRPC prober (`grpc.go`) | none | one call of a health check | the call does not get the probe's context | see `ProbeRequests` |
| Validation of configurations, TLS helpers, command line | none that changes | sequential checks | – | – |

How they interact:

- `main.go` hands the running configuration (`sc.C`, taken under `sc.Lock()`) to
  `prober.Handler`; a reload replaces the pointer and never edits what it points to.
- `Handler` runs a prober under a context with a deadline, adds the outcome to the
  shared history and answers. Probers share only the billing caches and the counter
  of ICMP sequence numbers.
- The dashboard and `/logs` read the history. `/-/reload` sends a channel to the
  reload goroutine and waits on it.
- The syncer talks to WeCom and Kubernetes only.

The complete list of what is hard to test in this code, line by line, with the
properties that watch over it, is `hazards` in `PROJECT.json`.

## 2. The modules and the code

| Module | Models | Proofs | Instance |
|---|---|---|---|
| `RecentResults` | what the history promises, said without slices | | |
| `ResultHistory` | `history.go`, the dashboard and `/logs` | `ResultHistoryProofs` | `MCResultHistory` |
| `LeasedResult` | what a billing cache promises, said without mutex and waiting | | |
| `CounterCache` | the cache protocol of both billing probers | `SharedStateProofs` | `MCCounterCache` |
| `ConfigReload` | `ReloadConfig`, the reload goroutine, `/-/reload` | `SharedStateProofs` | `MCConfigReload` |
| `WecomSync` | `SyncOnce` with its calls, and the loop around it | `WecomSyncProofs` | `MCWecomSync` |
| `QueryResponse` | tcp, unix and websocket probers and `probeQueryResponses` | `QueryResponseProofs` | `MCQueryResponse` |
| `ProbeRequests` | `Handler`, from the lookup of the module to the answer | `ProbeRequestsProofs` | `MCProbeRequests` |
| `TargetIP` | `chooseProtocol`, an operator | lemmas in `IcmpEchoProofs` and `DnsProbeProofs` | used by `IcmpEcho` and `DnsProbe` |
| `IcmpEcho` | `ProbeICMP`, its sockets and the network | `IcmpEchoProofs` | `MCIcmpEcho` |
| `DnsProbe` | `ProbeDNS`, `validRRs`, `validRcode` | `DnsProbeProofs` | `MCDnsProbe` |
| `HttpProbe` | `ProbeHTTP`, its `transport` and the checks of the answer | `HttpProbeProofs` | `MCHttpProbe` |

Definitions named "Faulty variant" stand before the ones they spoil. Nothing uses
them; they are the plausible bugs against which the properties were tried, one at
least for each property, listed under `mutants`.

### ResultHistory

`results` and `preservedFailedResults` are the two slices. The preserved one is kept
as Go keeps it: an array with a length and a *capacity*, so that `append` in `List`
either copies or writes into spare room of an array that others can see. A dashboard
holds the slice `List` returned and writes one row per step, without the lock, while
`Add` goes on. `Add` is one action because it holds the mutex throughout. `log` is a
history variable: everything that was ever added. `RecentResults` says what all this
is for in terms of the log only, and `KeepsPromise` is the refinement.

The logs of a result are left out: a result is its ID, module, target and verdict.

### CounterCache

A probe reads the time (`now`), waits for the mutex of its cache, and then either is
served from the snapshot or fetches with the mutex held. `FetchSucceeds` and
`FetchFails` are the whole of `refresh` with the reading of the metrics from the
snapshot; the request, signature and JSON are one nondeterministic outcome. `clock`
advances between steps; a fetch ends by its deadline because `net/http` enforces it.
`Timeouts` include 0: a scraper that hung up before the fetch began. `endedAt` is a
history variable: when the last fetch really ended.

`LeasedResult` says what that amounts to: a result under a lease, where a probe is
answered at one moment, with the result if the lease ran when the probe started, and
otherwise with what it has learnt itself. `KeepsLease` is the refinement (`lease` is
`nextRefresh`): waiting for the mutex and beginning a fetch are stutters, the return
is the moment. `AnswersInForce`, which follows from the books of the cache, is proved
and not among the properties of the run, since `KeepsLease` says more.

### ConfigReload

A version is a content of the file; some do not decode, some stand for a file that is
missing, and the operator may put any of them back. `ReloadConfig` is three steps,
because the file is opened twice: the checksum, the decoding, the return (with the
deferred function that sets the gauge, the answer to the handler and the exit if the
first load failed). A write may come between any two of them, and then the checksum
that is remembered is that of a version which was never decoded: `raced`. What the
file has been since a reload began (`since`) or since a request was sent
(`sinceSent`) is history. `LoadedSince` says what a success means: the running
configuration is one of these, or, if `raced`, the remembered checksum is that of one
of them. The second half is the case of section 4, in which the reload is skipped
although nothing of the file is in force; the properties admit it only when `raced`,
so remembering the checksum of a reload that failed breaks them. `hup` is the buffered
channel of one. `SelectHup`, `SelectRequest` and `SelectTick` are the cases of the
`select`; `enableAutoReload` is chosen at the start, as the flag is.

### WecomSync

The phases of `SyncOnce` are `pc`: token, one action per page, one per Probe applied,
the list, one per Probe deleted. People insert, rewrite or delete rows at any moment;
`CallFails`, `ApplyFails` and `DeleteFails` let a call fail *with or without having
had its effect*; `Stop` is the death of the process and `Restart` what the Deployment
does. `steady` is a history variable: rows that have been there, unchanged, since the
synchronisation began. `NextOffsets` are the two fields of a page that say where
the next one begins. An API that returns fewer rows than it was asked for and does not
say where it stopped makes `wecom.go:119` go on behind the limit, past rows nobody has
read: `NamesNext` excludes this (section 4).

`Fold` is `resourceName` with its characters taken together to words. Left out are
the limit of 63 characters with its hash, `name_prefix` (the same in every name), the
other cells and the dry run; a row that is disabled and one that is skipped with a
reason are both `~on`. There is one process: the documented Deployment has one replica.

### QueryResponse

A byte is a member of a small set, a regular expression the byte it looks for. The
connection (`wire`) and the buffer of the scanner are kept apart, which is the point:
`ScanReads` takes as much from the wire as one `Read` may return, however far behind
the current line, `ReadBytes` looks at the wire only, `Handshake` makes a new
connection and a new scanner. The server delivers or closes, the connection breaks (a
reset, or a TLS stream that is cut off: `Break`) and the deadline expires at any
moment. `registered` is the registry of the
probe: registering a metric twice is the verdict "panic", as is the `Close` of the
connection that `dialUnix` did not make. A short read of `expect_bytes` fails the
probe, as in the code. How the scanner grows its buffer is abstracted to `MaxToken`.

The websocket prober works through the same kind of list, over whole messages: the
end of a line stands for the end of a message, and `ReceiveMessage` looks at the next
one only, where `expect` of the others goes on to the next line. It ignores
`expect_bytes`, `labels` and `starttls` (`Asked`), sets the gauge of the regular
expression for whatever fails in an entry, and has no deadline once the connection is
upgraded (`TimedOut`). `LineEnds`, `BehindLine` and `Behind` say what a list asks for
without scanners or segments; `Behind[k]` is the position in what the server said
behind everything that the first `k` entries ask for, 0 if it was not said (yet).

`ReadsApart` says of the lists that no `expect_bytes` comes at or after an `expect`
without a `starttls` between them. The lists of the run meet it, which TLC checks, and
the theorems assume it; section 4 has what the code does otherwise.

### ProbeRequests

`TakeConfig` is the handler function in `main.go` (one pointer, under the read lock);
`RefuseModule` and `Refuse` are the early answers of `Handler`; `Begin` computes the
timeout and starts the prober. The prober is one outcome (`ProbeReturns`,
`ProbePanics`, `ProbeTimesOut`), except for the header map that the http prober reads
(`Build`), because the handler writes the `hostname` parameter next to it. The clock
stands while a goroutine could go on without waiting: computing takes no time. The
grpc and websocket probers do not honour their context (`HonoursContext`). That a
scraper hung up need not be noticed by anybody; that the deadline has passed must be.

### IcmpEcho

Each probe has a slot: its address (by `ChooseProtocol`), its socket and what it
wrote. `sent` holds the requests on their way and `net` the packets that have reached
the host. Both only grow, which is how a network loses (nobody answers, nobody
reads), delays and duplicates. A packet carries `of`, the probe its request belonged
to, which no code looks at: `OwnReply` does. A ping socket is given the replies with
its kernel's ID, a raw socket everything of its family, including the host's own
requests and the packets of other processes. The message compared with (`Expected`)
and the one received (`Cleared`) are cleared where the code clears them.

The model is that of Linux. Payload, TTL, hop limit, `payload_size` and the metrics
are left out. A packet that arrived before a socket was opened may still be given to
it, which is more than the kernel does.

### DnsProbe

A regular expression is the set of the records it matches, or one that does not
compile: the lists of a validator are strings, compiled for each record. `Send` and
`Refuse` are everything before the exchange, with the address from `ChooseProtocol`,
the port, the transport and what may be wrong with each; the exchange is one outcome.
`BeginSection`, `CheckRecord` and `EndSection` are `validRRs`: two of the rules are
decided by each record, the other two by flags at the end, and a section without
records is a case of its own. `Meets` and `Acceptable` say the same without a loop.
That `fail_if_all_match_regexp` fails when *not* all records match is what the code
does, and what the model and `Meets` say.

### HttpProbe

`RoundTrip` appends a trace for each request of a redirected probe; one action per
callback of `httptrace` stamps it with the clock, which advances with every event. A
host with two addresses is dialled twice at a time by `net.Dialer`, and the callbacks
of the dial that lost (`DialAgain`, `StrayConnectStart`, `StrayConnectDone`) come at
any moment before the probe ends. So do the callbacks of a request that was given up:
the goroutines that dial and that read the answer go on until `Measure` has the mutex
(`Running`), which includes `GotFirstResponseByte`. `RoundTrip` sets `current` without the mutex the
callbacks take; so a losing dial may use any trace from `seen` on, which is the
latest one a callback is ordered after by the mutex. The stamps are truthful, not
hidden: what a stray callback overwrites is overwritten.

An answer is a status, a version, the values of headers, a redirect or none, and a
body, which has a size, an encoding, the words a regular expression can find and a
JSON value. The checks are `CheckHead` (status, headers, the decompressor),
`CheckBody`, `CheckJSON` and `Drain`, each with the conditions under which the code
makes it, and they share `unread`, the one reader. `BodyLost` is the connection that
breaks, or the deadline that comes, at any of them. A redirect that is not followed
has a body the client has already closed (`refused`). `Measure` sums up the traces
with the early exits of that loop. `Acceptable` says what a module asks of an answer
without a reader.

A CEL expression is the value for which it is true, and `Odd` the value for which it
cannot be evaluated. Proxies, HTTP/3, cookies, the content of requests, certificates
and sizes are left out.

## 3. What is checked

Every passing run reaches all of its state space. All bounds appear as constants in
the modules, marked `bound:`, and as values in the `.cfg` files.

| Run | Distinct states | What it shows |
|---|---|---|
| `history` | 787 000 | the list a dashboard iterates never changes, the slices are exactly what `RecentResults` promises, every lookup is answered from them |
| `cache` | 190 000 | recorded times are true, fetches are spaced, answers do not go back and are those of a result under a lease (`LeasedResult`), every probe is answered |
| `reload` | 160 000 | answers and gauge are true of what the file has been, no signal is lost, every request is answered, the file is followed, all this also when earlier contents come back |
| `wecom` | 908 000 | insertions between the pages and rewrites during the reading, failures and deaths lose nothing; the cluster converges to the sheets, and of rows that compete for a name to the first |
| `query` | 105 000 | success means that the bytes met the list, however they were cut, of a stream and of messages; what is sent belongs to the matched line; gauges blame the right thing; every probe ends, but for a websocket to a silent server |
| `requests` | 177 000 | one configuration per request, in time, answered and recorded exactly once |
| `icmp` | 560 000 | the own reply is accepted, nothing else is, and it is never passed over |
| `dns` | 205 000 | a probe succeeds exactly if the code is valid and each section meets its rules, and its gauge says whether an answer came |
| `http` | 869 000 | a probe succeeds exactly if its last answer came and meets every rule, whatever was read before; a gauge blames a check exactly if it was made and failed; the phases lie in their requests and do not overlap, whenever losing dials and given-up requests call back (only the answer to the last of these may still begin, and end `processing`, after it) |
| `requests_grpc`, `http_body`, `http_lookup` | – | the three disagreements of section 4 |

### Bounds, and why they are enough

- **history**: a window of 3 and 7 results of one host under two modules. Three fill
  the window, the next ones expire. The preserved failures grow to three, for which
  Go makes room for four (1, 2, 4): so there is a spare cell behind them while a
  dashboard iterates over a list, which is the case `DashboardStable` is about. With a
  window of 2 there is none. The proofs cover every window, also 0.
- **cache**: two probes, one that fetches and one that waits; a third could only
  wait as well, and the proofs are for any number; two modules on one cache, one with an interval below the retry time and one
  above; deadlines before, during and after an interval; counters of two values.
- **reload**: two good contents, a broken one and no file, each of them in the
  beginning, and two writes. With two, the file changes between the readings of one
  reload and is put back; a good file turns bad for either of the readings and a bad
  one good. The proofs of the safety properties need no bound. Two requests, because
  the second waits for the goroutine while the first is served.
- **wecom**: two sheets of up to three rows, of which two and one are there in the
  beginning, pages of one row where two were asked for, one edit and one mishap at any
  of the calls. So a row is inserted between two pages of a sheet that is being read,
  before, at or behind the border. Rows compete for a name within a sheet and across
  two whose IDs differ in case only, with different targets by which the winner is
  told. More edits are covered by the proof of `SteadyRowKept`. Rows are deleted at
  any time but between two pages (`DeleteWhileRead`), and the API says where the next
  page begins (`NamesNext`), for the reasons section 4 gives.
- **query**: seven lists of at most two entries, one of them with labels twice, and
  six servers, which say too little, enough, too much, and something else. No
  `expect_bytes` follows an `expect` on the same connection, for the reason section 4
  gives. The scanner holds four bytes, so a line that is too long occurs.
- **requests**: two connections, one reload between two versions which differ in
  timeout, Host header and the set of modules; all three sources of a timeout, above,
  at and below the offset.
- **icmp**: two probes and *two* sequence numbers, so that the counter wraps in
  every behaviour that starts at 1; equal and different IDs, kernel IDs that coincide
  with drawn ones, a host that answers from two addresses. `EchoAssumption` says what
  is taken for granted: packets of more probes than there are sequence numbers are
  not under way together, and IDs of other processes are not those drawn.
- **dns**: every combination of the four kinds of rules over two expressions for the
  answer, some for each of the other sections, and answers of up to two records in
  each, so that a flag set by the first record is seen by the second and by the next
  section. The proof covers all of them.
- **http**: four hosts, with and without TLS, by address and by name, with one and
  two addresses; twelve modules, which hold each kind of rule alone and those that
  interact; `MaxRedirects` is 3 instead of 10 (three requests already have a trace
  before, at and after any stray callback), and one losing dial is followed at a time.
  Lookups end before the deadline (`LookupsHang`), for the reason `http_lookup` shows;
  no module has both kinds of rules for the body, which `http_body` is about.

No run uses symmetry. Deadlock is not checked: in each system everything may come to
rest (the clock at its bound, no more edits, no more requests). That nobody waits for
ever is what the liveness properties say instead.

### Fairness

| Module | Assumed | Because |
|---|---|---|
| `CounterCache` | weak, for the end of a fetch | `net/http` ends a request by the deadline of its context |
| | strong, for a probe that waits for the mutex | `sync.Mutex` hands over in order once somebody has waited a millisecond |
| `ConfigReload` | weak, for the steps of a running reload and for the timer | the goroutine runs; `time.NewTicker` fires |
| | strong, for signals and requests in the `select` | Go picks among ready cases at random |
| `WecomSync` | weak, for the steps of the process | calls end (those to WeCom after 30 seconds, those to Kubernetes as the API server ends them), the Deployment restarts; nothing is assumed about *which* call succeeds beyond the bound on failures |
| `QueryResponse` | weak, for the prober and the expiry of the deadline | the goroutine runs and time passes; nothing is assumed of the server, so `EveryProbeEnds` excepts a websocket whose server says nothing |
| `ProbeRequests` | weak, for `Serve` and for time | a prober notices that its context is done; nothing is assumed of targets and scrapers |

The other modules have no liveness properties: the mutex of the history is never held
over anything that waits, and probes of `IcmpEcho`, `DnsProbe` and `HttpProbe` end by
their deadline, which is a step that is possible wherever they wait.

## 4. Where code and documentation disagree

Each of these is a run whose only property says what a document says, and for which
TLC prints the behaviour of the code that breaks it.

- **`http_body`** (`http.go:651`): `matchRegularExpressions` reads the body to its end
  and `matchCELExpressions` reads the same reader again. A module with both kinds of
  rules, which `config.go:485` accepts, fails whatever the body says, with
  `probe_failed_due_to_cel` set.
- **`http_lookup`** (`http.go:718`): the lookup of a redirect's host is measured as the
  difference of two times of which only the first may have been set. If the lookup does
  not end before the deadline, the phase `resolve` is about -292 years.
- **`requests_grpc`** (`grpc.go:195`): the health check runs under
  `context.Background()`, and no timeout ends it.

Observed while modelling, and without a run of their own:

- A page of a smart sheet is asked for by the number of rows read (`wecom.go:117`). If
  a row that was read gets deleted, the row at the border moves into the part already
  read, and `SyncOnce` deletes its Probe as "stale" until the next synchronisation.
  With `DeleteWhileRead = TRUE` in `MCWecomSync.cfg` TLC shows it as a violation of
  `SteadyRowKept`.
- Sheet IDs are lower-cased in names (`probe.go:231`), so two that differ in case only
  collide, contrary to `WECOM_PROBE_SYNCER.md:53`.
- `expect_bytes` after `expect` skips what the scanner has read ahead
  (`query_response.go:139`); whether the probe succeeds depends on how the data was cut
  into segments. A single `Read` that returns fewer bytes than are expected fails the
  probe as well (`query_response.go:147`).
- `labels` in two entries of a list registers one metric twice and panics
  (`query_response.go:45`); the model has it as the verdict "panic".
- A server that accepts a websocket and says nothing holds its probe until it closes
  (`websocket.go:147`); and a connection that gets lost sets
  `probe_failed_due_to_regex`, as a message that does not match does.
- A redirect that is not followed has a closed body. Where the status is declared
  valid, rules for the body and `compression: gzip` then fail, and
  `probe_failed_due_to_regex` is 1 although nothing was matched. The same holds of a
  body that cannot be read or is longer than `body_size_limit`.
- `valid_rcodes` that is given and empty admits no code (`dns.go:297`); a regular
  expression of the dns prober that does not compile fails a probe only if there is a
  record to match; `fail_if_all_match_regexp` fails when not all records match
  (`dns.go:90`).
- Modules that share a URL file share a cache. A module with a short
  `refresh_interval` may be served a result as old as the longest one of them
  (`CONFIGURATION.md:88` speaks of the module's own); `KeepsLease` and
  `AnswersInForce` state what does hold.
- The wait for the mutex of a cache is not bounded by the probe's own timeout.
- The checksum and the decoding are two reads (`config.go:141`, `config.go:155`). If
  the file changes between them and is later put back to the content that was hashed,
  that content is taken for loaded: the reload is skipped (`config.go:145`), and answer
  and gauge report success, even if the content does not decode. `LoadedSince` and
  `Taken` name this exception; without it TLC shows each of `AnswersTruthful`,
  `GaugeTruthful`, `SignalObeyed` and `FileFollowed` violated.
- If the WeCom API returns a page shorter than `page_size` without a `next` beyond the
  offset, `offset += limit` passes over the rows between (`wecom.go:119-121`), and
  their Probes are deleted as stale. With `NamesNext = FALSE` in `MCWecomSync.cfg` TLC
  shows it as a violation of `SteadyRowKept`.
- `CONFIGURATION.md:469-477` lists `starttls` for `query_response` of websockets, which
  `processWebsocketQueryRegexp` ignores (`Asked` in `QueryResponse`).
- `ProbeGRPC` connects to the host name and not to the address it has chosen
  (`grpc.go:172`), so `preferred_ip_protocol` has no effect on the connection.
- `dialUnix` returns the error of the dial that did not happen when the TLS
  configuration cannot be made, so `ProbeUnix` uses a nil connection
  (`DialsNothing` in `QueryResponse`).

## 5. What is proved

TLAPS checks the following for all values of the constants, under the assumptions
named in the modules (`CacheAssumption`, `ReloadAssumption`, `SyncAssumption`,
`RequestAssumption`, `EchoAssumption`, `DnsAssumption`, `HttpAssumption`,
`QueryAssumption` and that of `ResultHistory`), which TLC evaluates in every run. They
say that intervals are positive, that bounds are natural numbers, that lists are
sequences of entries and the like. A theorem that needs more says so: its hypothesis
is in the last column.

| Theorem | Property | Inductive invariant |
|---|---|---|
| `ResultHistoryProofs`: `TypeCorrect`, `DashboardIsStable`, `WindowIsLatest`, `FailuresAreKept`, `ListIsOrdered` | `TypeOK`, `DashboardStable`, `RecentAreLatest`, `NewestFailuresKept`, `ListOrdered` | `IInv`: results are numbered by the log (`LogNumbered`), preserved failures are ordered and are the newest expired ones (`PreservedOrdered`), their array has less spare room than the window is long (`SpareCapacity`), and no dashboard's list lives in it (`ViewsPrivate`) |
| `ResultHistoryProofs`: `PromiseIsKept`, `LogsAreExact` | `KeepsPromise`, `LogsExact` | `PInv`: `IInv`, only failures are preserved (`PreservedFailed`), and a list that a dashboard holds is ordered by age (`PagesOrdered`). The refinement rests on `RetainedIsKnown`: the two slices hold exactly what the promise knows, which is a count of the failures in the log |
| `SharedStateProofs`: `TypeCorrect`, `TimestampsAreTrue`, `FetchesAreSpaced`, `AnswersAreInForce`, `AnswersDoNotGoBack` | `TypeOK`, `TimestampsTrue`, `FetchesSpaced`, `AnswersInForce`, `AnswersNeverGoBack` | `IInv`: a mutex is held by the probe that fetches for its cache (`HolderFetches`); who fetches did not wait, and who may take the mutex has just started or finds the cache fresh (`NoWaitBeforeFetch`); the next refresh is one term after the true end of the last fetch (`BooksTrue`). For the last theorem also: the cache holds what it served last (`ServedIsCurrent`), and the last success is not ahead of the clock (`SuccessDated`) |
| `SharedStateProofs`: `LeaseIsKept` | `KeepsLease` | `IInv` and: whoever fetches had found the lease run out, and nobody else has renewed it since (`FetchNeeded`). One lemma per action: `ServeCachedIsRead`, `FetchSucceedsIsSucceed`, `FetchFailsIsFail`; the others stutter |
| `SharedStateProofs`: `ReloadTypeCorrect`, `OnlyWellFormedLoaded`, `AnswersAreTruthful`, `GaugeIsTruthful` | `ReloadTypeOK`, `OnlyWellFormed`, `AnswersTruthful`, `GaugeTruthful` | `ReloadInv`: what was decoded is something the file has been since the reload began, and the remembered checksum is that of the running configuration unless `raced` (`ReadingsKnown`); the outcome of the running reload is true of the time since it began (`OutcomeTrue`), and that time is part of the time since the requests it serves were sent (`SentBefore`). No hypothesis: the exception is in the statement (`LoadedSince`) |
| `WecomSyncProofs`: `TypeCorrect`, `ForeignIsKept`, `PruneKeepsTheTargets` | `TypeOK`, `ForeignKept`, `PruneKeepsTargets` | `IInv`: `TypeOK` and `AppliedSoFar`: every Probe the rows ask for is in the cluster except those pending, and what is left to prune carries the label |
| `WecomSyncProofs`: `SyncIsExact` | `SyncedExactly` | `IInv` and: after the list, a Probe with the label is still to be looked at or asked for (`NoneOverlooked`) |
| `WecomSyncProofs`: `SyncedOnceLeftAlone` | `SyncedWhenLeftAlone` | also `SheetsRead`: the rows read so far come one by one, in order, from the places of the sheets before the offset (`Mirrored`), which holds from the beginning of a synchronisation as long as nobody edits. Rows so read map to what is wanted (`MirroredIsWanted`). For `NothingPassedOver`: the API names the next offset, or fills its pages |
| `WecomSyncProofs`: `SteadyRowIsKept` | `SteadyRowKept` | `SInv`: row IDs are distinct (`IdsDistinct`), and every steady row has been read or lies behind the offset (`SteadyRead`); for `~DeleteWhileRead` and `NothingPassedOver`; section 4 says why |
| `QueryResponseProofs`: `TypeCorrect` | `TypeOK` | `Typed`: where the probe is in its list at each step, and that an entry that was met has a line that matched |
| `QueryResponseProofs`: `MatchedOnSuccess`, `AgreedOnSent`, `GaugesBlameTruly` | `SuccessMeansMatched`, `SentAsAgreed`, `GaugesTruthful` | `Conversation`: `Typed`; each answer sent belongs to the line that met its entry (`Agreement`); as long as the probe goes on (`Standing`), buffer and wire hold the rest of what was said in its order (`InOrder`), the probe stands right behind what its list has asked for so far (`Place`), no handshake of the server has begun before its time (`HelloAhead`), and the buffer holds only what an `expect` has read since the last `starttls` (`BufferSince`); what was blamed or granted was so (`Verdicts`). For `ReadsApart` |
| `ProbeRequestsProofs`: `TypeCorrect`, `ServedAsConfigured` | `TypeOK`, `AsConfigured` | `Types` and `Slot` (a slot at work serves an open request of its own), then `HostsIntact` (no header map of a loaded module has changed) and `Served` |
| `ProbeRequestsProofs`: `OverInTime` | `InTime` | `Timed`: before the prober starts the clock stands at the arrival, afterwards it is not past the deadline, which is the arrival plus `GetTimeout`; for `AllStop`: no module uses a prober that does not honour its context, and `requests_grpc` shows why |
| `ProbeRequestsProofs`: `IsRecordedOnce` | `RecordedOnce` | `RInv`: the log names each request at most once (`LogDistinct`), a request at work is in it exactly from its recording on (`Logged`), and closed requests stand there as they were answered (`FatesTrue`) |
| `IcmpEchoProofs`: `TypeCorrect`, `OwnReplyOnly`, `NothingOverlooked` | `TypeOK`, `OwnReply`, `NotOverlooked` | `Tracks`: types (with `Sound`, for the phases of a probe); the sequence number of a request or reply is the random start plus the number of its probe, wrapped (`Numbered`); a probe at work has its own number and ID in every packet that stems from it (`Tracked`) |
| `DnsProbeProofs`: `TypeCorrect`, `AnswerIsJudged` | `TypeOK`, `AnswerJudged` | `Judged`: in a section, no record passed breaks a rule and the two flags say what was found among those passed (`Gone`); every section passed meets its rules (`Met`). Separate from it, the types |
| `HttpProbeProofs`: `TypeCorrect` | `TypeOK` | `Typed`: every time lies at or before the clock, and there is one trace per request |
| `HttpProbeProofs`: `AnswerIsJudged` | `AnswerJudged` | `Judged`: at each check, `success` is what the checks made so far ask of the answer, and the body is unread unless a check has read it; and `Blamed`: each gauge is 1 exactly if a check that was made so far failed, check by check (`HeadersBlamed`, `RegexBlamed`, `CELBlamed`), with what was read and evaluated for it (`WordsTried`, `ValueTried`). For `NotBoth`: no module has both kinds of rules for the body, and `http_body` shows why |
| `HttpProbeProofs`: `PhasesAreMeasured` | `PhasesMeasured` | `Timing`: the stamps of a trace, those that are there, are in the order of the phases (`Chained`), what counts of it lies before the end of its request (`Ended`), every request but the last was answered before its end (`AnswerIn`) and the last one unless it was given up (`LastIn`), and the trace of the current request has what its stage says (`Current`). For `~LookupsHang`: the name server answers a redirect before the deadline, and `http_lookup` shows why |

Why the invariants have to be stronger than the properties: `DashboardStable` alone
is not inductive, since a state in which the preserved array has room satisfies it
and `List` breaks it one step later. That the code never gets there is
`SpareCapacity`: the preserved slice has always less spare room than `MaxResults`,
and once it holds anything, `results` is `MaxResults` long, so that the `append` in
`List` has to copy. `TimestampsTrue` needs the fact that a probe
that waited is always served by the fetch it waited for, which in turn needs the
retry interval to be positive. `OwnReply` needs that numbers are distinct although
the counter wraps, which is arithmetic over a whole behaviour and not over a step.
`SyncedWhenLeftAlone` is the safety half of `EventuallyInSync`: that a synchronisation
comes to its end is left to fairness and TLC. It speaks of every suffix of a behaviour
that begins with a synchronisation, which TLC cannot evaluate; TLC has the liveness.
`PhasesMeasured` speaks of the end of a probe only; what keeps it is that a late
callback of the losing dial can begin a trace only while nothing else has, and
otherwise stamps the one time, `connectDone`, that counts for nothing but its sign.

`SuccessMeansMatched` compares the end of a probe with `Behind`, a recursive function
of everything the server has said. The step from one entry to the next needs that the
probe stands where `Behind` has it (`Place`). While an entry is scanned that is a
position in the buffer: the lines from there to what has been consumed did not match
(`Scanning`), and the next whole line of the buffer is the next line of what was said
(`BufferedLine`, `WholeLine`, and `LastLine` for the one that only closing ends). An
entry that reads the connection directly needs the buffer to be empty, which is where
`ReadsApart` and `BufferSince` come in, and one behind a `starttls` needs that nothing
said in clear is left (`HelloAhead`). Whatever the server adds, what was found must
stay found: `BehindKept`, from the first entry whose position would change. That
lemma, and that `Behind` satisfies its equation (`BehindDef`), rest on the
least-number principle (`LeastNumber`), which the library's theorem about well-founded
relations gives without an induction schema.

Each temporal theorem has the same shape: `Init` implies the invariant, a step (or a
stutter) preserves it, it implies the property, and the last step combines them.

**Checked by TLC only.** Liveness (`EveryProbeAnswered`, `SignalObeyed`,
`RequestAnswered`, `FileFollowed`, `EventuallyInSync`, `EveryProbeEnds`,
`EveryRequestAnswered`), because fairness and ENABLED are out of the prover's reach.
What the properties say of lists that are not `ReadsApart`, of lookups that hang and
of the other cases a theorem excludes is false; section 4 has each. Induction schemas are out of reach as well, since the provers cannot instantiate
the library's theorems about an arbitrary predicate; where one was needed the
least-number principle took its place. No module uses a RECURSIVE operator.

## 6. What is not modelled

| Part | Why |
|---|---|
| Durations and sizes of a dns probe, names of classes and types | numbers without an effect; checked by the configuration |
| HTTP: proxies, HTTP/3, cookies, headers and bodies of requests, certificates | each is handed to a library and comes back as "it worked or not", which `SetupFails` and `TripFails` are |
| Headers of a websocket request, its durations | the same |
| gRPC prober | its one state change is the call, which is in `ProbeRequests`; its answer decides at once |
| Validation of the configuration, syncer configuration | sequential checks of one document; what they guarantee is assumed where a module needs it |
| Command line and server | flags, routes and the landing page; its stateful handlers are in `ResultHistory`, `ConfigReload` and `ProbeRequests` |
| TLS helpers | functions of a certificate chain without state |
| Scrape logger, formatting of metrics | wording |
| Packaging, CI, dashboards | nothing that runs in the exporter |

Also left out: the process being stopped while it serves requests (it persists
nothing), a second syncer at the same time, and what others do to Probes while a
synchronisation runs.

## 7. Plan

The order is that of importance: what is shared between goroutines or outlives a
request first (history, caches, reload), then the syncer, whose mistakes delete
things, then single probes, most complicated conversation first. Done:

1. `ResultHistory` over `RecentResults`, with proofs
2. `CounterCache` over `LeasedResult`, with proofs
3. `ConfigReload`, with proofs
4. `WecomSync`, with proofs
5. `QueryResponse`, with proofs
6. `ProbeRequests`, with proofs. It composes by name with `ConfigReload` (its
   `Reload` is that module's installation of a configuration) and `ResultHistory`
   (its `Record` is `Add`)
7. `IcmpEcho` over `TargetIP`, with proofs
8. The websocket prober, in `QueryResponse`
9. `DnsProbe` over `TargetIP`, with proofs
10. `HttpProbe`, with proofs

What could follow: two syncers at once, and Probes changed by others during a
synchronisation.

## 8. Running it

    tlc -workers 2 -config MCResultHistory.cfg MCResultHistory.tla
    tlapm ResultHistoryProofs.tla

and likewise for the others. Every run ends within two minutes or so, every proof
within ten. Three `.cfg` files are those of section 4: TLC is meant to print a
behaviour. `PROJECT.json` lists runs, properties, mutants, findings, hazards and
theorems, and maps definitions to source lines.
