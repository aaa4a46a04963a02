# Verification of idrac_exporter

This directory holds a TLA+ model of `idrac_exporter`, a Prometheus/OTLP exporter that reads
hardware metrics from servers' management controllers (BMCs) over Redfish. Each module follows
one part of the Go source; TLC checks the modules on small instances and TLAPS proves the safety
properties of the parts that share state for all instances. Paths below are relative to the
repository root.

1. [Inventory](#1-inventory) – the system, part by part
2. [What is modelled, and how it corresponds to the code](#2-modules)
3. [The runs: properties, bounds, fairness](#3-runs)
4. [The proofs](#4-proofs)
5. [Where the code and its documents disagree](#5-disagreements)
6. [What is not modelled, and what is left to do](#6-rest)

## 1. Inventory

### How a scrape travels through the system

```
  /metrics?target=t&auth=g ---+                 +-- /reset?target=t
  /metrics (all hosts) -------+                 |   /reload, SIGHUP, file watcher
  snapshot loop (OTLP) -------+                 |
  --once ---------------------+                 v
                              v          ReloadConfig --(Config.Mutex)--> Config.Hosts
                  GetCollector(t, g)            |                            |
                     |   `mu': map collectors <-+ Reset(t)                   |
                     |   `collected.L' of the object                         |
                     |        first time: GetAuthConfig <--(Config.Mutex)----+
                     |                    NewClient: login, TakeSnapshot, findAllEndpoints
                     v
                  GatherFamilies: one leader, the others ride along (sync.Cond)
                     |        leader: registry.Gather -> Collect
                     v
                  Collect: TakeSnapshot, RefreshSession, CollectServer | RefreshPDUs
                     |        runLimited fan-out, one task per metric group
                     v
                  Redfish.Get / Exists  ---- HTTP, retries ---->  BMC
```

### Components

**Collector: client creation and coalescing** (`internal/collector/collector.go`, one `Collector`
object). State: `client`, `collecting`, the `sync.Cond` `collected` with its mutex, the cached
`families`. Operations: the second half of `GetCollector`, `GatherFamilies`, `Gather`. Called by
HTTP goroutines, by the scrape-all fan-out, by the snapshot loop. Hard: everything is shared by
goroutines; the leader runs for seconds without the mutex; riders are released by a broadcast that
comes *before* the flag is reset, and run at any later time. Correct when one goroutine at a time
works on the BMC, no rider is forgotten, every call returns, and a rider gets the result of the
collection it waited for unless that failed.

**Collector cache and `/reset`** (`collector.go`: `collectors`, `mu`, `GetCollector`, `Reset`).
State: target → object, target → BMC client built from the credentials at hand. Hard: `Reset`
drops the map entry only, so several objects of one target live side by side; the map's lock is let
go before the object's is taken; a client keeps its credentials forever while reloads change the
configuration. Correct when the credentials used are the ones configured, and the three locks
(`collected.L` → `Config.Mutex`, `Config.Mutex` → `mu`) cannot deadlock.

**Configuration reload** (`cmd/idrac_exporter/config.go`, `signals.go`, `handler.go`). State:
`Config.Hosts`, `Config.Collect`, `Config.Event` under `Config.Mutex`; the watcher's `lastReload`
and its watch. Operations: `ReloadConfig` (from the watcher, SIGHUP, `/reload`), `WatchConfig`,
`readd`. Hard: a reload *merges*, it never removes an entry; it reads the file outside the mutex, so
two reloads may apply in the opposite order; events within one second are dropped.

**Redfish session** (`internal/collector/redfish.go`). State: `session{disabled,id,token}` of the
client; the session table of the BMC. Operations: `CreateSession`, `DeleteSession`,
`RefreshSession`, `DisableSession`. Hard: the BMC closes sessions on its own, loses answers after
acting, answers incompletely, and has a limit; the exporter falls back to basic auth. Correct when
sessions are not leaked, not opened twice, and not believed alive when dead.

**Redfish requests** (`redfish.go`: `NewRedfish`, `Get`, `Exists`, `retryIdempotent`). State: HTTP
pool. GET and HEAD are retried up to twice on transport errors and 5xx, POST and DELETE never.

**Scrape fan-out** (`collector.go`: `Collect`, `CollectServer`, `refresh`, `runLimited`). State:
`client.cfg`, the error counter, the metric channel. Hard: a panic in one group, a limit on
concurrency (0 = none), nesting of limited fan-outs. Correct when each failing or panicking group
costs exactly one scrape error and nothing else, and all groups see one configuration snapshot.

**Endpoint discovery** (`client.go`: `findAllEndpoints`). State: `client.path`, `client.vendor`.
Decides once per client, from the configuration at that time, which resources are scraped.

**Metric groups and emitters** (`client.go` `Refresh*`, `metrics.go`, `model.go`, `unmarshal.go`).
No state of their own, but for the event log's path: they turn resources into series. Hard: vendors
answer the same question in a dozen ways; two equal series make the registry refuse the *whole* scrape;
one failing request must not take more with it than it has to; absent values must not become zeros.

**Snapshot loop, scrape-all, OTLP** (`loop.go`, `snapshot.go`, `gather_all.go`, `otlp.go`). State:
the atomic `SnapshotStore`. `Loop.Run` collects every host and then swaps the snapshot; the OTLP
reader pushes whatever snapshot is there. Hard: coalescing with pull scrapes (a nil error does not
mean fresh data), hosts that appear by reload, cancellation.

**Configuration load** (`internal/config`). `FromFile`, `FromEnvironment`, `Validate`: pure
functions of file and environment apart from setting `Config`. Hard: YAML sections and entries may be
null, and the maps and pointers they decode to are written through.

**HTTP handlers, lifecycle** (`handler.go`, `main.go`, `server.go`, `once.go`). The `/metrics`
routing ladder (target, default target, all hosts, 400); start-up order; graceful shutdown. Hard:
`/discover` and `--once` iterate over `Config.Hosts` without the mutex that reloads write it under.

**Not program logic**: logging, version, dashboards, charts, deployment files.

### Hazards

`PROJECT.json` lists the hazards with their lines. The central ones:

| hazard | where | what watches it |
|---|---|---|
| two goroutines collect from one BMC | `collector.go:653` | `OneActorPerCollector`, `Coalesces` |
| a rider woken late, or never | `collector.go:654,666` | `NoLostWakeup`, `CallsReturn`, `StaleOnlyAfterFailure` |
| `families` written outside the mutex | `collector.go:674` | `NoTornReply` (violated) |
| an old login survives a reload | `cmd/.../config.go:43`, `collector.go:718` | `HostLoginCurrent`; `EffectiveLoginCurrent` (violated) |
| lock order across reload and scrape | `cmd/.../config.go:44` | `RequestsReturn`, `ReloadsEnd` |
| sessions leak or are opened twice | `redfish.go:216`, `client.go:59` | `NoLeakWithoutFault`, `RefreshIdempotent` |
| a dead session is kept | `redfish.go:207` | `DeadSessionNoticed` |
| an atomic save detaches the watch, an edit is lost | `cmd/.../config.go:82,93` | `NeverDetached`, `NoEditLostWithoutCause`, `EditsSettle` |
| one failing request or panic takes other groups with it | `collector.go:532` | `ErrorsCounted`, `FaultIsolated`, `GapExplained` |
| one duplicate series makes the scrape fail | `client.go:509` | `SeriesUnique` |
| a reload in the middle of a scrape | `client.go:678` | `VoltagesOnce` |
| the limit on concurrent calls: exceeded, or nothing may run | `collector.go:615` | `TypeOK`, `ScrapeEnds` |
| the loop, racing with requests, reports old data as new | `loop.go:111`, `collector.go:674` | `SnapshotsAdvance`; `UpMeansGathered` (violated) |
| labels leak into the shared families | `snapshot.go:61` | `LabelsOwn` |
| two reloads mix | `cmd/.../config.go:39` | `ReloadsUnmixed` |
| null sections, unlocked readers | `env.go:122`, `discover.go:16` | `DeathExplained` |

<a name="2-modules"></a>
## 2. What is modelled, and how it corresponds to the code

| module | models | builds on |
|---|---|---|
| `SingleFlight` | abstract: what `GatherFamilies` promises its callers | – |
| `Collector` | `GetCollector`'s critical section and `GatherFamilies`, one object | refines `SingleFlight` |
| `CollectorCache` | the map, `GetCollector`, `Reset`, `ReloadConfig`, the three locks | uses `GatherFamilies` as `SingleFlight` describes it |
| `Session` | `RedfishSession` and the BMC's session table | one caller per client, from `OneActorPerCollector` |
| `ReloadTriggers` | the watcher, SIGHUP, `/reload`: when a reload starts and which version of the file it reads | – |
| `Exporter` | loading, start and end of the process, reloads against the readers of `Config.Hosts` | – |
| `Emitters` | `NewXxx` of `metrics.go`: values to series, as operators | – |
| `Groups` | `RefreshXxx` of `client.go` and the requests below them, as operators | `Emitters` |
| `Discovery` | `findAllEndpoints`, as an operator | `Groups` |
| `Client` | one client: discovery, scrapes with their fan-out, reloads, mishaps | `Discovery`, one caller per client |
| `SnapshotLoop` | the loop, scrape-all, single scrapes, the snapshot store | uses `GatherFamilies` as `SingleFlight` describes it, and refines it for each host |
| `CollectorProofs`, `CollectorCacheProofs`, `SessionProofs`, `ReloadTriggersProofs`, `SnapshotLoopProofs`, `ExporterProofs`, `GroupsProofs`, `ClientProofs` | theorems | the module of that name; `ClientProofs` also `GroupsProofs` |
| `MCCollector`, `MCCollectorCache`, `MCSession`, `MCReloadTriggers`, `MCExporter`, `MCClient`, `MCSnapshotLoop` | instances for TLC | the module of that name |

How they fit together: `Collector` shows in detail that a collector behaves like `SingleFlight`, and
`CollectorCache` and `SnapshotLoop`, which need many collectors, take it as that; a theorem about `SnapshotLoop`
(`OneCollectionPerHost`) shows that it does so faithfully. From
`OneActorPerCollector` it follows that a client has one user at a time, which `Session` and `Client`
build on. `CollectorCache` and `Exporter` look at the same merge of a reload from two sides: what becomes of
the host's collector, and what becomes of the map it writes. `ReloadTriggers` says when such a merge takes place,
and with which version of the file.

`PROJECT.json` maps every definition to its lines. Some definitions come in two forms, the real one
and one commented as a *mutant* of it: a plausible mistake in the same code. No specification uses
a mutant; each is there to show that a property fails when the code is wrong in that way. A few small
operators that take an operator as an argument (`With`, `Then`, `Fetch`, `Visits`, `Walk`, `Collection`, `Rows` and
the like in `Groups`) are notation for "follow a link, and go on if that worked" and have no lines of
their own.

### Collector

A caller goes `idle → locking → (creating →) ready`, then either leads
(`gathering → storing → closing → idle`) or rides (`waiting → woken → reading → idle`).

* A critical section without a blocking call in it is one action guarded by `MutexFree`. A section
  that spans several steps (client creation, `Wait`'s return up to `Unlock`) records its holder in
  `mutex`.
* `sync.Cond` is its notify list, `waiting`. `Join` is `Wait`'s first half: the enrolment and the
  unlock are one step, as `sync.Cond` guarantees. `Finish` is the deferred function: it empties the
  list, makes its members `woken` and resets the flag. A woken caller needs the mutex again
  (`Reacquire`), and *anything* can happen before it gets it.
* The assignment `collector.families = m` (line 674) is not under the mutex. It is an interval
  (`GatherSucceeds` .. `StoreFamilies`) and a read inside this interval may yield the old slice
  header, the new one, or words of both: `ReadOutcomes`.
* `client.cfg`, the session and the channel are not variables: only the caller in
  `OneActorPerCollector`'s sense touches them, which is why that property matters.
* `behind` and `failed` are history variables. `behind` holds the callers for whom the cache does
  not contain the collection they joined (or a later one); `failed` those whose collection ended
  with an error.
* `registry.Gather` is abstracted to success or error. It does return errors (a metric that violates
  the registry's rules), although most BMC failures only change the error counter.

### CollectorCache

Requests run `Lookup` (the section of `mu`), then `Reuse` or `Enter`/`Choose`/`TakeSnapshot`/
`Connect` (the section of `collected.L`), then `Lead`/`TakeSnapshot`/`Finish` or `Join`.
`ResetTarget` and a reload (`BeginReload`, one `MergeHost` per entry of the file, in any order as Go
ranges over maps, `ResetChanged` after the entry was written, `EndReload`) run at any time.

* A reload holds `Config.Mutex` from `BeginReload` to `EndReload`; `reload` records what it still
  has to do. `Choose` and `TakeSnapshot` need that mutex, so they wait for `reload = NoReload`.
* The file is any member of `Files`: which file is applied when is left open, and includes files
  read long ago by a slow reload.
* `MergeHost` writes an entry when it is new or its login differs. `Logins` stands for username,
  password and scheme, `Options` for the port, `verify` and `basic_auth`: the comparison is made on
  the first only. Entries are never removed.
* A client is what it was built from: the credentials, and the key of `hosts` or `auths` that gave
  them (`from`).
* An object without references is garbage (`InUse`, `Sweep`) and its identity is used again. This
  keeps the state finite with no cap on the number of resets.
* `GatherFamilies` is taken from its abstract specification, in which one collection is in flight and
  riders return with it. `Coalesces` and the theorem `Refinement` justify this. A rider that lingers
  after the flight is not kept: it holds no lock and reads no credentials any more.
* `seen` is a history variable: the logins that were in force for the request's target at some time
  since the request began.

### Session

`Connect` is the login in `NewClient`, `Discover`/`DiscoverFails` its end, `Scrape*` the
`RefreshSession` that starts each `Collect`. A client has one caller at a time, so an exchange with
the BMC is one step, whose possible results are a set of outcome records. These combine what the
Go code does with what the BMC may do: open a session and lose the answer, answer 201 without a
token header or without an id, refuse because its table is full, answer any status. `Expire` closes
any session at any moment. A client dropped by `Reset` (`Drop`) may finish a use and start others
that were already queued, beside the new one; and requests that were waiting for a collector when it
was dropped make a client for it all the same (`ConnectDropped`).

The tokens and ids of one session are one value: what matters is whether it is open, and whether the
client has both parts. A client with a token and no id sends its refresh to the BMC's front page,
whose answer says nothing about the session; the model lets it answer anything.

### ReloadTriggers

Each change of the file gets the next version number; what a version contains is how a reload takes
it: `valid`, `empty` (a truncated file is valid YAML), `broken`, `absent`. A save in place is two
edits, the truncation and the write, so that a reload can come between.

* `Receive`, `Readd`, `Gate` are the body of `WatchConfig`'s loop for one event. A rename or removal
  drops the watch; `Readd` is one call of `watcher.Add` with its sleep, at most `Attempts` in a row, after which
  the goroutine ends. `Gate` is the one-second window, `Elapse` its end.
* `Begin`, `Read`, `Apply` are `ReloadConfig`, the same for the watcher, for `handleSignals` and for each
  `/reload` handler. The file is read outside the mutex and applied inside it, so a slow reload can put
  back older content.
* inotify is external: an event per change while the watch is attached, merged with an equal one at the
  tail or not. `os/signal` keeps one pending SIGHUP.
* `missed` and `unheard` are history variables: for which of four causes an edit was given up since
  the last one that came into force, and a SIGHUP that no read of the file has followed yet. (The fifth
  cause is the end of the watch.)

### Exporter

A credentials entry is its username and password; the metrics section is the set of its flags (two groups
stand for all of them); the other fields of the file are one flag, `sound`. `Null` is a section or entry
without content, which Go decodes to a nil map or pointer.

* `Load` lays the environment over the file (`HostsOf`, `MetricsOf`) and spells `all` out; `Valid` is
  `Validate`; `Panics` the writes through nil in `FromEnvironment`. `Start` is `LoadConfig` and what follows:
  refused, crashed, `--once` or the server.
* `LoadFile`, `BeginMerge`, one `Merge` per host, `EndMerge` are `ReloadConfig`, with the mutex from
  `BeginMerge` on. A `Merge` into a nil map panics, which ends the process for the watcher and for SIGHUP,
  but only the request for `/reload` (net/http recovers it, and the deferred `Unlock` runs).
* Readers iterate over `Config.Hosts` with the mutex, or without it (`Unlocked`: `/discover`, `--once`). A
  write while anybody iterates *may* be noticed by Go's runtime, which ends the process: `WriteHosts`.
* `last` is a history variable: what the last reload applied, or the start, had loaded.

### Emitters, Groups, Discovery

Pure operators over a *world*: the resources of a BMC by path, what goes wrong at some of them, the
client's fields, its configuration snapshot. A value is abstracted to what the emitters tell apart: missing,
zero, something else, or put in place of a missing one. A series is its metric, the labels that can tell two
series of one scrape apart, the value it came from, and the place in the walk it was sent at. The result of a
call is the set of series it sent, and with them `failure` if it returned false; so the order
of early returns matters and is kept (`Then`, `Fetch`).

`Get` and `Exists` are the requests with their retries: two more attempts after a 5xx or no answer, none after a
4xx. `Exists` takes a 5xx for "there": the code looks at errors and 4xx only.

`findAllEndpoints` is translated branch by branch, up to the decoding of the manager's collection into
the variable that held the chassis: a collection without `Members` leaves the chassis there.

### Client

`phase` runs `new → discovering → idle → scraping → done → idle`; a client whose discovery fails goes back to
`new`, as `GetCollector` discards it. `Collect` takes the configuration snapshot and queues the tasks of
`CollectServer` (or the one call for a PDU), `Submit` starts a goroutine within the limit, `Finish` and `Panic` end
a `refresh` call, `Report` is the end of the fan-out. The goroutine of the sensors continues with the voltages
unless the power group reports them. `Weather` picks at most one resource at which something goes wrong, for
the time of one discovery or scrape; `Reload` changes the configuration at any time.

### SnapshotLoop

The collector of each target is taken by `SingleFlight`: a call leads a collection or rides along. The loop and
the requests (`Pullers`, for all hosts or for one) run cycles of the same kind: `Begin` fixes the targets and labels,
`Submit` is `runLimited`, `Enter` .. `Wake` are one call of `gatherTarget`, `Return` appends a row, `Finish` ends the
cycle and, for the loop, swaps the snapshot.

* Families are abstracted to three things: whether any metric of the BMC's is among them (`hasRealMetric`), which
  collection they come from (`stamp`), and the names of labels put on them. A stamp stops growing at `MaxStamp`;
  so properties compare stamps with ≥ only.
* `Land` writes the cache in the step that ends the collection. The finer interleaving is `Collector`'s.
* `fresh` is for the properties only: whether the collection that a row comes from gathered anything.
* `Exit` may come at any time after the cancellation: nobody waits for the loop.

<a name="3-runs"></a>
## 3. The runs

### What each run shows

| run | module / cfg | states | result |
|---|---|---|---|
| `collector` | `MCCollector` / `MCCollector.cfg` | 7,132 | three callers: `TypeOK`, `Consistent`, `OneActorPerCollector`, `StaleOnlyAfterFailure`, `NoLostWakeup` hold, every call returns (`CallsReturn`), and the object implements `SingleFlight` with its fairness (`Coalesces`) |
| `collector_torn_read` | `MCCollectorTorn.cfg` | | `NoTornReply` is violated, see section 5 |
| `cache_login` | `MCCollectorCache` / `MCCollectorCache.cfg` | 1.2 million | two requests, files with any one entry, resets and reloads at any time: `TypeOK`, `HostLoginCurrent` and the inductive invariant `Provenance` hold |
| `cache_live` | `MCCollectorCacheLive.cfg` | | `RequestsReturn` and `ReloadsEnd`: no deadlock or starvation among the three locks |
| `cache_default_login` | `MCCacheDefault.cfg` | | `EffectiveLoginCurrent` is violated, see section 5 |
| `session` | `MCSession` / `MCSession.cfg` | 46,522 | `TypeOK`, `DisabledHoldsNothing`, `NoLeakWithoutFault`, `RefreshIdempotent`, `GaveUpForGood`, `DeadSessionNoticed` hold |
| `reload` | `MCReloadTriggers` / `MCReloadTriggers.cfg` | 486,510 | three edits, one handler: `TypeOK`, `NeverDetached`, `NoEditLostWithoutCause`, `HupHeard`, `EditsSettle` hold |
| `exporter` | `MCExporter` / `MCExporter.cfg` | 89,928 | `TypeOK`, `ReloadsUnmixed`, `DeathExplained` hold |
| `client` | `MCClient` / `MCClient.cfg` | 144,418 | thirteen machines: `TypeOK`, `SeriesUnique`, `VoltagesOnce`, `ErrorsCounted`, `FaultIsolated`, `GapExplained`, `AbsentNotZero`, `ScrapeEnds` hold |
| `snapshot` | `MCSnapshotLoop` / `MCSnapshotLoop.cfg` | 3.7 million | the loop and a request on two hosts: `TypeOK`, `EveryHostOnce`, `LabelsOwn`, `SnapshotsAdvance` hold |
| `snapshot_live` | `MCSnapshotLoopLive.cfg` | 205,772 | the loop and two requests on one host: `HostsCovered`, `LoopStops` hold |
| `stale_up` | `MCSnapshotLoopStale.cfg` | | `UpMeansGathered` is violated, see section 5 |

A run with a violation checks what a document or a comment says, one claim per run.

The properties in words:

* `StaleOnlyAfterFailure`: `GatherFamilies` returns the *cached* families to riders, with a nil error
  whatever happened. The comment in the code warns that this may be old data. The property says
  precisely when: only if the very collection waited for failed. The broadcast, the flag and the
  store come in an order that makes this true for a rider scheduled arbitrarily late.
* `HostLoginCurrent`: with any interleaving of scrapes, resets and reloads, a scrape of a host that
  has its own entry uses a login that was in force while the request ran. It depends on the reload
  writing the entry *before* it resets the collector, both under `Config.Mutex`, and on `Choose`
  running inside the section of `collected.L`.
* `NoLeakWithoutFault`: as long as no answer was lost or incomplete, no logout failed and no reset
  dropped a client, every open session belongs to a client in use. The faults are listed because
  each of them *does* leak.
* `GaveUpForGood`: once all clients in use have disabled sessions, nothing but a new client opens one.
* `DeadSessionNoticed`: when the BMC closes a session the client gets over it.
* `NeverDetached`: while the watcher waits for events, its watch is on the file that has the name now,
  or the event that says otherwise is in the queue. It depends on the window being looked at only
  *after* the re-attachment.
* `NoEditLostWithoutCause`: a file that is not the configuration in force will be looked at again, or was
  given up at one of the known places: before the watch began, within the window, unreadable, overtaken
  by a slower reload, after the end of the watch. `EditsSettle` says that this ends well.
* `HupHeard`: every SIGHUP is followed by a read of the file, also one that arrives during a reload.
* `ReloadsUnmixed`: between reloads the metrics *and* the hosts are those of the last reload applied, or of
  the start; hosts it lacks are left from before.
* `DeathExplained`: an unrecovered panic or a fatal error of the runtime has one of three causes: a null section or
  default entry in the file, a null hosts section that is in force, a reader without the mutex. No reload of a
  complete file and no locked reader can cause it. That two of the causes exist at all is described in section 5.
* `SeriesUnique`: no two series of a scrape have the same metric and labels. It is what `PortId`, `DriveId`, `GetLinks`
  and the filters on voltages are for. It needs a BMC that gives the members of a collection, and the entries of
  an array, identifiers of their own, as Redfish asks; `Identified` says so group by group, and an `ASSUME` of `MCClient`
  that the machines of the run do. Labels that only describe the value, such as a status or a unit, are not in the
  model, so that the property is somewhat stricter than the registry.
* `VoltagesOnce`: the decision who reports the voltages is made at two places in the code. Both read the
  scrape's snapshot, so a reload between them does not matter: each entry with a name and a reading is reported, by
  one series, and nothing else is.
* `ErrorsCounted`: a scrape makes every call that its configuration snapshot asks for, whatever becomes of the others,
  each once, and counts one error for each that fails or panics.
* `FaultIsolated`: the calls that succeed have sent exactly what they would have sent on a calm day. The one
  exception, the model of a Dell manager, is a second resource whose failure the code ignores.
* `GapExplained`: a group the machine has something for and that is missing from the answer has a reason: something goes
  wrong now, or did during discovery, or the group was enabled by a reload after discovery. `Offers` lists the groups; TLC
  checks with `OffersAssumption` that each of them, enabled alone on a calm day, sends a series.
* `AbsentNotZero`: a missing value gives no sample, except for the metrics in `Zeroed` (section 5). TLC evaluates
  `ZeroedAreSent`: for each of these, a machine of the run makes the code send a value it did not report.
* `EveryHostOnce`, `LabelsOwn`, `SnapshotsAdvance`: a cycle has one row for each of its hosts; labels go on copies,
  so the shared families never have any; a snapshot never goes back to older families of a host, even if a request
  led the collection.
* `HostsCovered`, `LoopStops`: the loop gets to every configured host although requests hold the host's locks and
  collections again and again, and it ends when told to although a tick may always be there too.

### Bounds, and why they are enough

* `Collector`: no counters, so three callers is the only bound. A leader, a rider of the same
  collection and a rider of the previous one can coexist, which is the largest combination any
  action looks at: every guard mentions the caller itself and whether *some* other is at a place. The
  proofs cover any number.
* `CollectorCache`: two requests, one target, two logins, three objects. Two requests suffice for one
  inside an old object and one that makes a new one; the third object is the one in the map. The
  targets only meet in `mu` and `Config.Mutex`, and the proofs cover any number of them; one target
  and the default entry give the two kinds of key. `cache_login` has one group and files with at most one
  entry (`SmallFiles`): a merge of several entries is a sequence of merges of one, and reloads follow each
  other. `cache_default_login` has all files. In `cache_live` the files differ in logins only
  (`LoginFiles`), since a reload calls `Reset` only then. No symmetry is used with liveness.
* `Session`: two clients (in the map, and left over from a reset), a BMC limit of two, four
  sessions, so that the BMC reaches its limit and still has fresh identities while both
  clients hold dead ones.
* `ReloadTriggers`: `MaxEdits = 3`: one edit for the reload under way, one for the event after it, one to come
  between removal and re-attachment. The proofs cover any number of edits and handlers. The five attempts are the
  code's.
* `Exporter`: one trigger, one handler: the fates of a panic. Two readers besides `--once`, one of each kind.
  Eight files and three environments have each kind of null, an incomplete entry, a file that does not parse, two
  logins of one host, an entry the other file lacks. The proofs cover any files and goroutines.
* `Client`: thirteen machines of ten families, each with what the special cases of the code are for; three are bare
  (next to every value missing, also inside objects that are there) and one answers zeros. `MaxScrapes = 2`: the second scrape finds what the
  first left, namely the event log's path and the error counter. `MaxUpsets = 1` gives one reload, one mishap at any
  resource, or one panic in any call; two at once are not covered, except that a mishap at a collection
  concerns all its members. Limits 0 and 1: without a limit all calls run at once, with 1 a second call has to wait; a
  limit in between is a matter of `runLimited`'s guard alone.
* `SnapshotLoop`: two hosts, one request, limit 1 in `snapshot`, so that a cycle has a host to do, and the request
  is in its way on the other; three stamps tell a row, the cache and the collection under way apart. In `snapshot_live` two requests keep
  one host busy and stamps do not matter. The proofs cover any finite set of hosts, any requests, limit and stamps.

Deadlock is checked in `collector`, `cache_*`, `session` and `reload`, where goroutines can always start again.
It is not checked where the system really may stop: in `Exporter` and `SnapshotLoop` the process ends, and in `Client`
the bound on scrapes and upsets ends the behaviour. There, a stuck scrape, cycle or loop would show in `ScrapeEnds`,
`HostsCovered` or `LoopStops`.

### Fairness, and why the code justifies it

* *Mutexes*: strong fairness for steps that take a mutex (`Enter` of `SnapshotLoop`, the steps of `Collector` and
  `CollectorCache`). Go's `sync.Mutex` switches to starvation mode after 1 ms and then hands the lock to the longest
  waiter.
* *Network steps*: weak fairness. `NewRedfish` sets a timeout for every request and a bounded number
  of retries, so client creation and collection end, with an answer or without.
* *Goroutines that can run do*: weak fairness of `Watching`, `HandleHup`, `Read(t) \/ Apply(t)` in `ReloadTriggers`, of `Scraping`
  in `Client`, of the calls and the ends of cycles in `SnapshotLoop`; time passes (`Elapse`, `Tick`).
* *select*: strong fairness for `Stop` of `SnapshotLoop`. With a tick and the cancellation both there, Go's `select`
  picks one at random, so it does not pick the tick for ever.
* *Nobody has to begin*: no fairness for `Call`, `Lookup`, `ResetTarget`, `BeginReload`, `Connect`,
  `Expire`, edits, signals, requests, `Cancel`, `Exit`.
* *A reload in progress* runs to its end (weak fairness): it is straight-line code between its locks.
* *`Session`*: weak fairness for the use of the client in the map, because the snapshot loop scrapes
  every configured host on each tick; so `DeadSessionNoticed` says something of a configuration with
  OTLP enabled or of a Prometheus server that keeps scraping. Strong fairness for an answered refresh
  is an assumption about the BMC: it is not unreachable for ever. What it answers is left open, so
  the property does not assume that a login works.

<a name="4-proofs"></a>
## 4. The proofs

The theorems hold for arbitrary sets of callers, requests, objects, targets, logins, files, environments, clients,
sessions, handlers, readers and machines, for any limit and any number of edits, scrapes and mishaps. A machine is
any set of resources with any contents, collections of any length included. The assumptions they use:

* null values and the names of goroutines are not members of the sets they stand beside (`NoCallerAssumption`;
  `NullsAssumption` of `CollectorCache`, which also keeps the names of groups and hosts apart, and of `Session`;
  `TriggersAssumption`, `LoopAssumption`, `GoroutinesAssumption`);
* files contain host sections (`FilesAssumption`) and only flags that exist (`FlagsAssumption`);
* numbers are naturals (`LimitAssumption`, `LimitsAssumption`, `EditsAssumption`, `NumbersAssumption`, `BoundsAssumption`), and
  two numbers do not have the same numeral (`NumeralsAssumption`, of `strconv.Itoa`);
* a machine has something for the groups it is said to offer (`OffersAssumption`), which only `NoSilentGap` uses: it is what
  the word means there;
* the hosts are finitely many (`TargetsAssumption`), which the limit on calls is counted with.

`ObjectsAssumption` only makes sure that TLC's instances never run out of objects.

| theorem | statement |
|---|---|
| `CollectorProofs!TypeCorrect` | `SafetySpec => []TypeOK` |
| `CollectorProofs!Invariant` | `SafetySpec => [](TypeOK /\ Consistent)` |
| `CollectorProofs!OneActor` | `SafetySpec => []OneActorPerCollector` |
| `CollectorProofs!NobodyForgotten` | `SafetySpec => []NoLostWakeup` |
| `CollectorProofs!RidersGetTheirResult` | `SafetySpec => []StaleOnlyAfterFailure` |
| `CollectorProofs!Refinement` | `SafetySpec => Abstract!SafetySpec` |
| `CollectorCacheProofs!TypeCorrect` | `SafetySpec => []TypeOK` |
| `CollectorCacheProofs!Invariant` | `SafetySpec => [](TypeOK /\ Provenance)` |
| `CollectorCacheProofs!LoginsCurrent` | `SafetySpec => []HostLoginCurrent` |
| `SessionProofs!TypeCorrect` | `SafetySpec => []TypeOK` |
| `SessionProofs!Invariant` | `SafetySpec => [](TypeOK /\ Accounted)` |
| `SessionProofs!NothingHeld` | `SafetySpec => []DisabledHoldsNothing` |
| `SessionProofs!NoLeak` | `SafetySpec => []NoLeakWithoutFault` |
| `SessionProofs!Idempotent` | `SafetySpec => RefreshIdempotent` |
| `SessionProofs!GivenUp` | `SafetySpec => GaveUpForGood` |
| `ReloadTriggersProofs!TypeCorrect` | `SafetySpec => []TypeOK` |
| `ReloadTriggersProofs!WatchFollowsTheName` | `SafetySpec => []NeverDetached` |
| `ReloadTriggersProofs!EditsAccountedFor` | `SafetySpec => []NoEditLostWithoutCause` |
| `SnapshotLoopProofs!TypeCorrect` | `SafetySpec => []TypeOK`, which includes that the limit is kept |
| `SnapshotLoopProofs!Invariant` | `SafetySpec => [](TypeOK /\ Consistent)` |
| `SnapshotLoopProofs!HostsOnce` | `SafetySpec => []EveryHostOnce` |
| `SnapshotLoopProofs!LabelsApart` | `SafetySpec => []LabelsOwn` |
| `SnapshotLoopProofs!Advance` | `SafetySpec => SnapshotsAdvance` |
| `SnapshotLoopProofs!OneCollectionPerHost` | `SafetySpec => Flight(t, none)!SafetySpec` for each host `t`: its collector implements `SingleFlight` |
| `GroupsProofs!GroupsIsolated` | a group that runs in trouble sends what it would send without, or fails |
| `GroupsProofs!GroupsDistinct` | if `Identified(w, group)`, the group sends no metric with the same labels twice |
| `GroupsProofs!GroupsHonest` | `Sound(Kinds(w.cfg, group), Refresh(w, group))`: a group sends its own metrics only, and no value of a missing field but for `Zeroed` |
| `ClientProofs!TypeCorrect` | `SafetySpec => []TypeOK`, which includes that the limit is kept |
| `ClientProofs!Invariant` | `SafetySpec => [](TypeOK /\ Consistent)` |
| `ClientProofs!FailuresCount` | `SafetySpec => []ErrorsCounted` |
| `ClientProofs!TroubleStaysLocal` | `SafetySpec => []FaultIsolated` |
| `ClientProofs!NothingInvented` | `SafetySpec => []AbsentNotZero` |
| `ClientProofs!GroupsKeepApart` | `SafetySpec => []MetricsApart`: no two calls of a scrape send the same metric |
| `ClientProofs!VoltagesReported` | `SafetySpec => []VoltagesOnce` |
| `ClientProofs!SeriesSentOnce` | `SafetySpec => []((\A c \in DOMAIN result : Apart(c)) => SeriesUnique)`, where `Apart(c)` says that the machine tells apart what call `c` reads |
| `ClientProofs!NoSilentGap` | `SafetySpec => []GapExplained` |
| `ExporterProofs!TypeCorrect` | `Spec => []TypeOK` |
| `ExporterProofs!Invariant` | `Spec => [](TypeOK /\ Consistent)` |
| `ExporterProofs!Unmixed` | `Spec => []ReloadsUnmixed` |
| `ExporterProofs!DeathsExplained` | `Spec => DeathExplained` |

**The argument for `Collector`.** None of the properties is inductive. `OneActorPerCollector` needs to
know that the flag is set exactly while some caller is between `Lead` and `Finish`
(`FlagMeansLeader`, `OneLeader`), that the mutex is held over several steps exactly by creators and
readers (`MutexHolder`), and that after a client exists nobody creates another (`ClientSettled`).
`NoLostWakeup` needs `ParkedUnderLeader`. `StaleOnlyAfterFailure` is the subtle one: at the broadcast,
the riders must find the leader's outcome in the cache or be marked as failed (`LeaderOutcome`), and
from then on nothing may put them behind again (`RidersServed`). `Consistent` is the conjunction. Its
preservation is proved action by action.

**The refinement** maps `flight` to the leader, `aboard` to the notify list, `landed` to the callers
that are woken or reading. `Lead` is `Depart`, `Join` is `Board`, `Finish` is `Land`, `ReadFamilies` is
`Leave`, everything else stutters.

**The argument for `CollectorCache`.** A request may use an object that left the map long ago, with a
client that another request put there. `Provenance` tells where the login in an object came from, from
two sides. `MappedCurrent`: a client in a *mapped* object, or about to be put there, that was built
from its target's own entry carries a login in force now, where a reload that has written the entry
but not reset the collector yet still counts as before its write. `HeldCurrent`: every login inside an
object that a request *holds*, mapped or not, was in force since that request began. The first implies
the second when a request looks the object up; `SeenCurrent` (the history has the logins in force now)
gives it when another request in the same object chooses its credentials. `OneTargetPerObject` says
that an object never serves two targets, `EntryStays` that reloads remove nothing – a host with its own
entry never falls back to the default again – and `GarbageBlank` that a new object starts without a
client.

**The argument for `Session`.** The lemmas first say what an exchange with the BMC can bring: a typed
outcome, whose record has no remains when sessions are disabled, and which, without a fault, leaves id
and token together and opens no session but the token's (`Clean`). `NoLeakWithoutFault` then needs
`Paired` (a client that has a token has its id, so a refresh asks about the right session and logs in
again only when that is gone) and `OnlyCurrent` (without a reset the only client is the one in the map,
so that letting a client go leaves nobody behind). `Accounted` is the conjunction. `GaveUpForGood` is
then checked action by action: nothing a client does whose sessions are disabled opens one.

**The argument for `ReloadTriggers`.** `NeverDetached` is not inductive, because the watcher may be past
`Receive` when the file is replaced: `Accounted` says the same for `gating`, that an attached watch means that the
file exists, that a reload of the watcher only runs while the loop waits for it, and that nobody has read
more than was written. The lemmas on the queue say that an edit keeps the events that are in it and
that taking a write off it keeps the removal behind it.

**The argument for `SnapshotLoop`.** The hosts of a cycle are split between those to do, those being gathered
and those with a row, and each part excludes the others (`Split`); `EveryHostOnce` is what is left of this when
the first two are empty. The lemmas `SubmitBusy`, `MoveInside`, `InsideBusy`, and those about `Disembark`, say once what the steps of
a call do to what is `Busy`, also of the riders that land with it, and give the limit. `SnapshotsAdvance` compares two
snapshots, and neither may be newer than what the next row can come from: `Aging` orders the stamps
of a host from its stored row through a row of the cycle and the cache to its collector, and `LeaderLast`
says that the only leader has the last stamp, so that what it caches is the newest.

**The refinement of `SnapshotLoop`** is one mapping per host `t`: `flight` is the actor that leads a collection of `t`, `aboard` those
that ride with it, `landed` those whose ride has ended; the callers are the loop and all requests. `Depart` is `Depart`,
`Board` is `Board`, `Fail` and `Land` are `Land`, `Wake` is `Leave`. Everything else is silent: the other steps on `t`, and all
steps on other hosts (`Apart`), leave the three as they are. `LeaderLast` is the part of the invariant it
needs, for there to be one leader.

**The argument for `Client`.** `ErrorsCounted` needs that no call ends twice and none is forgotten. The calls due in a
scrape are split between the queue, those running, those that ended and `Late`: the voltages, which are neither queued nor
running as long as the sensors, whose goroutine goes on with them, have not ended (`Split`). `RecordKeeps` says once for
`Finish` and `Panic` what the end of a call does to the split, the count and the limit. What is due
depends on whether the client is a PDU's, so `Shaped` says that discovery gives a client with paths and that the correction of
the event log's path leaves the others alone. For this theorem what a call sends stays opaque: it holds for any `Refresh`.

**The argument for what is sent** starts from the operators that a call is built from, and `GroupsProofs` goes through all
groups with it; the machine is arbitrary, so the lists walked over have any length.

* *Trouble.* `Agrees(differ, x, y)`: what was sent in trouble, `x`, is what the calm world makes of it, `y`, or the worlds differ
  in some request's answer and `x` is a failure. `Fetch`, `Then` and unions keep this. A walk stops at its first member that fails (`WalkEnds`), and the members before it
  agree, so it does too (`WalkAgrees`); no induction over the list is needed, only that a set of numbers has a least one.
  `GroupsIsolated` is the sum. The path of the event log is state of the client, which the call itself may correct, so that
  group is compared with the client it leaves behind as well. The worlds may also differ in what a group does not
  depend on (`AlikeFor`): only the power group looks at which groups are enabled, and only the manager, the events and the
  extra group have a path that discovery looks for when they are. The model of a Dell manager is the stated exception.
* *Soundness.* `Sound(kinds, sent)`: every series is of one of the metrics `kinds`, or a failure, and comes from a missing value only
  if its metric is in `Zeroed`. The emitters are looked at one by one, and the operators keep it. `Kinds` lists the metrics of each group, and
  `KindsApart` says that the lists are disjoint: only the power group and the separate call for voltages share
  one, and a scrape makes one of these calls (`OneOfTwo`).
* *Repetitions.* `Distinct(kinds, labels, sent)`: the metrics are among `kinds`, the labels among `labels`, and no two series agree in
  both. Parts of a result can be put together when their kinds or their labels are disjoint (`PartsDistinct`), and the members of a walk when
  the identifiers they put into the labels differ. `Identified` says for each group what makes them differ: it is as
  weak as the code permits, so Dell's ports may all be named like their adapter (`PortId` falls back to the link), a Supermicro's drives need only differ
  within their chassis, and sensors may share an identifier if their names differ.
* *From calls to scrapes.* A call looks at the machine, the weather and the snapshot of the configuration, which change only between
  scrapes, and at the event log's path. `Isolated` and `Honest` therefore hold of a call from its end to the end of its
  scrape, whatever other calls do; they give `FaultIsolated`, `AbsentNotZero` and `MetricsApart`. `VoltagesOnce` combines them: the
  call that has the voltages is due (`ErrorsCounted`), sent what it sends on a calm day (`FaultIsolated`), and no other
  call may send the metric (`Honest`, `KindsApart`). That discovery finds a server or PDUs, never both
  (`DiscoveryOneKind`), makes the power group due where there is a path of the power.
* *From machines to scrapes.* `Singular` holds of a call from its end too: what it sent has no series twice if the machine, as the client
  finds it on a calm day, tells apart what the call reads; in trouble the call reads less, never more. With `KindsApart`,
  `SeriesUnique` follows. `Settled` is about discovery: if nothing went wrong during it, the client has the paths there are to find
  (`Remains`), where the path of the event log may have been corrected to the one that is read anyway. What discovery finds with two configurations
  differs only in the paths of the groups that just one of them enables (`DiscoveryAlike`), so that a scrape on a calm day sends at least
  what the machine sends with that group alone (`CalmSends`); the sensors add the voltages to the power group (`PowerGrows`).
  Together with `FaultIsolated`, this is `GapExplained`.

**The argument for `Exporter`.** `Exclusive`: who merges, or reads with the mutex, holds it, and who does not merge
yet has all of its hosts to do. `Merged`: during a merge, every host of the reload is either left to do or in
force; between merges, this holds of `last` with nothing left to do. `DeathExplained` then comes down to one question
for each step that can crash: a locked reader excludes a merge, `Complete` excludes null entries, so the nil that a
merge can meet is the map's.

**Only model-checked:** the liveness properties (`CallsReturn`, `RequestsReturn`, `ReloadsEnd`, `DeadSessionNoticed`,
`HupHeard`, `EditsSettle`, `ScrapeEnds`, `HostsCovered`, `LoopStops`) and the fairness part of `Coalesces`: liveness under
fairness and `ENABLED` are out of the prover's reach. Every other property of a passing run is a theorem. `SeriesUnique` has a
hypothesis there, since it is not true of every machine; the part of it that does not depend on the machine,
`GroupsKeepApart`, is a theorem of its own.

`CollectorCache` is not shown to refine `SingleFlight` step by step: its `Finish` ends a flight and returns the riders in one
step, where the abstract specification has several. It rests on `Refinement` of `Collector` for this, as described in section 2.

To repeat: `tlc -config MCCollector.cfg MCCollector.tla` and so on for the runs, `tlapm
CollectorProofs.tla` and so on for the proofs.

<a name="5-disagreements"></a>
## 5. Where the code and its documents disagree

Shown by runs:

* **Torn read of the cache** (`collector_torn_read`). The leader assigns `collector.families` without
  the mutex, a rider released by the *previous* broadcast reads it under the mutex. If the rider is
  scheduled late enough, the next leader has already finished gathering. ADR 0009 calls
  `GatherFamilies` "coalescing-safe"; this is a data race on a slice header.
* **Default login** (`cache_default_login`). "Resets only the hosts whose credentials changed"
  (`docs/usage.md`): the reload resets the collector named like the changed key. Hosts that use the
  `default` entry keep their old login when it changes, or when they get an entry of their own.
* **Up with old data** (`stale_up`). "An unreachable host, a gather error, or a cycle that produced no real
  metric yields only up=0" (`loop.go:94-96`). A call of the loop that rides along with a request's collection, which then
  fails, gets the families of an earlier collection with a nil error, and reports the host as up. The comment
  at `loop.go:108-110` knows of the nil error and relies on `hasRealMetric`, which cannot tell old from new.

Met on the way, and built into the model as the code does it:

* **Group per request.** "Selected per request with the `auth` query parameter" (`docs/configuration.md:24`): the cache is
  keyed by the target alone, so whoever came first decides (`collector.go:706`).
* **Two actors.** "Do not act concurrently on the same host" (`collector.go:713`): the lock is the object's, and after a
  reset a host can have two objects.
* **Giving up early.** ADR 0006 speaks of repeated failure; one failed login at a refresh, or one lost answer to the
  fallback POST, disables sessions for the client's life (`redfish.go:202`).
* **Sessions not deleted on reset.** ADR 0006 says the exporter deletes sessions; only a failed discovery does
  (`collector.go:699`).
* **Zeros for missing values.** "Absent values are never faked as zero" (`docs/metrics.md:7`). The emitters of the metrics in
  `Zeroed` send Go's zero value for a field that is missing (the temperature of a sensor that is enabled but has
  no reading, the speed of a fan, the power of a PDU). The size of the memory and the number of processors belong to them:
  only the summary object is tested for nil (`metrics.go:93-114`), so that a `MemorySummary` with a status and no
  `TotalSystemMemoryGiB` gives a machine without memory. And the copies made for iLO 4 and Inspur drives turn a missing
  life expectancy into 0. ADR 0008 asks for the opposite. `AbsentNotZero` proves nothing about these metrics and holds for all
  others; `ZeroedAreSent` of `MCClient` shows that the exception is made for none in vain.
* **Truncated file.** A reload between the truncation and the write of a save in place finds an empty file, which is
  valid, and applies it: every metric group is switched off until the next reload, as the event of the write falls into
  the one-second window (`cmd/idrac_exporter/config.go:89`).
* **Null sections.** `hosts:` without content makes `FromEnvironment` write to a nil map when the environment names
  credentials (`env.go:91-124`), and is in force for good otherwise: every later reload that has hosts panics in the merge,
  which ends the process when it came from the watcher or SIGHUP.
* **Unlocked readers.** `GetDiscover` ranges over `Config.Hosts` without the mutex (`discover.go:16`); a reload at that
  moment is a concurrent map access, which the runtime may end the process for.
* **Order of shutdown.** The design document for OTLP gives "loop stop → `meterProvider.Shutdown`" (decision D7). The code waits
  for the server only; the provider is shut down, and the process ends, while the loop may be in a cycle (`server.go:23-28`,
  `main.go:128-146`).

In all of these the model follows the code.

<a name="6-rest"></a>
## 6. What is not modelled, and what is left to do

Left out of the modules above, deliberately:

* *Values and descriptive labels*: units, conversions of single values (`xstring`, the parsing in `asFloat64`), the texts
  in info series. A property about them would restate the conversion; series, identifying labels and
  presence are modelled (components *emitters* and *configuration load* are therefore "partly").
* *Transport*: TLS, proxies, the connection pool, headers; the context of an HTTP request is not passed on by the code.
* *Handlers*: `resolveMetricsMode` is a pure choice from two strings and a flag, the probes answer always, compression
  wraps the writer: no state. What the handlers read and change under which lock is in `CollectorCache`, `Exporter` and `ReloadTriggers`.
* *Process*: flags, log levels, the listener. `.env` files add to the environment before anything else runs.
* *OTLP*: the SDK's reader and exporter call `SnapshotStore.Gather`, an atomic load of one pointer.
* *Nested limits*: `runLimited` nests (hosts times groups) and each request has its own, so the number of goroutines is not
  bounded by the limit. Each level keeps its own limit, which is what `SnapshotLoop` and `Client` say.
* *Logging, version, dashboards, charts, deployment files*: no logic of this program.

What a next step could add:

1. The composition of `ReloadTriggers` and `Exporter`: the merge as a refinement of the single step `Apply`.
2. `SnapshotLoop` over the detailed `Collector` instead of its abstract specification, so that the torn read of the cache
   reaches the snapshot.
