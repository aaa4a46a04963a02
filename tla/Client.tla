------------------------------- MODULE Client -------------------------------
(***************************************************************************)
(* One Client: its discovery (client.go), and the scrapes that             *)
(* Collector.Collect runs with it (collector.go): the configuration        *)
(* snapshot, the fan-out of the metric groups over a limited number of     *)
(* goroutines, the recovery of a group that panics, the count of scrape    *)
(* errors.  Who may scrape a client, and its session, are the matter of    *)
(* Collector and Session.  A reload changes the configuration at any time, *)
(* and something may go wrong at any resource.                             *)
(***************************************************************************)
EXTENDS Discovery, FiniteSets

CONSTANTS Docs,        \* for each machine its resources by path
          Configs,     \* the sets of metric groups that a configuration enables
          Limits,      \* values of the concurrency setting, 0 for no limit
          Offers,      \* for each machine the groups it has something for
          Mishaps,     \* what may go wrong at a resource
          MaxScrapes,  \* bounds: scrapes of a behaviour,
          MaxUpsets    \* and reloads, mishaps and panics together

ASSUME LimitsAssumption == Limits \subseteq Nat

ASSUME MishapsAssumption == Mishaps \subseteq Troubles

ASSUME BoundsAssumption == MaxScrapes \in Nat /\ MaxUpsets \in Nat

\* (A definition of its own is evaluated just once.)
Fleet == Docs

VARIABLES machine,  \* the BMC
          limit,    \* Config.Concurrency
          live,     \* Config.Collect, the groups enabled in it
          upsets,   \* how often something came in between
          phase,    \* of the client: "new", "discovering", "idle", "scraping", "done"
          client,   \* what discovery found, NoClient before
          known,    \* the groups in discovery's snapshot of the configuration
          cfg,      \* the groups in client.cfg
          net,      \* what goes wrong at which resources, until the next step of phase
          blurred,  \* history: something went wrong during discovery
          queue,    \* tasks that runLimited has not started, in the order of Tasks
          running,  \* refresh calls that are being made, one in each goroutine
          result,   \* of each refresh call that ended in this scrape
          panicked, \* the refresh calls among them that ended in a panic
          errors,   \* collector.errors
          before,   \* collector.errors at the start of this scrape
          scrapes   \* how many were begun

config == <<machine, limit, live>>
found  == <<known, blurred>>
world  == <<net, upsets>>
pool   == <<queue, running, result, panicked>>

vars == <<config, phase, client, found, cfg, world, pool, errors, before, scrapes>>

Tasks == <<"system", "sensors", "power", "network", "events", "storage", "memory",
           "processors", "manager", "extra">>

Calls == {Tasks[i] : i \in DOMAIN Tasks} \cup {"voltages", "pdus"}

TypeOK ==
  /\ machine \in DOMAIN Fleet
  /\ limit \in Limits
  /\ live \in Configs /\ known \in Configs /\ cfg \in Configs
  /\ phase \in {"new", "discovering", "idle", "scraping", "done"}
  /\ client = NoClient <=> phase \in {"new", "discovering"}
  /\ DOMAIN net \subseteq DOMAIN Fleet[machine]
  /\ upsets \in 0..MaxUpsets
  /\ blurred \in BOOLEAN
  /\ queue \subseteq Calls
  /\ running \subseteq Calls
  /\ limit > 0 => Cardinality(running) <= limit
  /\ DOMAIN result \subseteq Calls
  /\ panicked \subseteq DOMAIN result
  /\ errors \in Nat /\ before \in Nat
  /\ scrapes \in 0..MaxScrapes

Calm == [r \in {} |-> "fine"]

\* What discovery finds on a calm day, and the world that client then works in.
Found(m, groups) == findAllEndpoints([doc |-> Docs[m], net |-> Calm, cfg |-> groups])

CalmWorld(m, groups) ==
  [doc |-> Docs[m], net |-> Calm, cfg |-> groups, level |-> 1, vendor |-> Found(m, groups).vendor,
   ilo4 |-> Found(m, groups).ilo4, path |-> Found(m, groups).path]

\* The machine has something for the group: enabled alone, it sends a series.
Offering(m, group) ==
  Found(m, {group}) # NoClient /\ ~ Refresh(CalmWorld(m, {group}), group) \subseteq Failed

ASSUME OffersAssumption == \A m \in DOMAIN Docs : \A group \in Offers[m] : Offering(m, group)

\* LoadConfig and the first request for the machine.
Init ==
  /\ machine \in DOMAIN Fleet /\ limit \in Limits /\ live \in Configs
  /\ phase = "new" /\ client = NoClient
  /\ known = live /\ cfg = live /\ blurred = FALSE
  /\ net = Calm /\ upsets = 0
  /\ queue = {} /\ running = {} /\ result = <<>> /\ panicked = {}
  /\ errors = 0 /\ before = 0
  /\ scrapes = 0

-----------------------------------------------------------------------------
\* Mutant of World: the configuration is read where it is used.
LiveWorld(trouble, groups) ==
  [doc |-> Fleet[machine], net |-> trouble, cfg |-> live, level |-> 1,
   vendor |-> client.vendor, ilo4 |-> client.ilo4, path |-> client.path]

\* What a refresh call sees; its configuration is the snapshot, in client.cfg.
World(trouble, groups) ==
  [doc |-> Fleet[machine], net |-> trouble, cfg |-> groups, level |-> 1,
   vendor |-> client.vendor, ilo4 |-> client.ilo4, path |-> client.path]

Upset == upsets < MaxUpsets /\ upsets' = upsets + 1

\* All is well, or one more thing goes wrong at one resource.
Weather ==
  \/ net' = Calm /\ UNCHANGED upsets
  \/ /\ Upset
     /\ \E r \in DOMAIN Fleet[machine], mishap \in Mishaps : net' = [x \in {r} |-> mishap]

Reload ==
  /\ Upset
  /\ live' \in Configs \ {live}
  /\ UNCHANGED <<machine, limit, phase, client, found, cfg, net, pool, errors, before, scrapes>>

\* findAllEndpoints takes a snapshot of its own ...
BeginDiscovery ==
  /\ phase = "new"
  /\ phase' = "discovering"
  /\ known' = live
  /\ Weather
  /\ blurred' = (net' # Calm)
  /\ UNCHANGED <<config, client, cfg, pool, errors, before, scrapes>>

\* ... and a client for which it fails is discarded: the next request tries again.
EndDiscovery ==
  LET w == [doc |-> Fleet[machine], net |-> net, cfg |-> known]
  IN  /\ phase = "discovering"
      /\ client' = findAllEndpoints(w)
      /\ phase' = IF client' = NoClient THEN "new" ELSE "idle"
      /\ net' = Calm
      /\ UNCHANGED <<config, found, cfg, upsets, pool, errors, before, scrapes>>

-----------------------------------------------------------------------------
\* Collector.Collect

\* The tasks CollectServer builds from the snapshot; a PDU has just one call.
TasksOf(groups) == {Tasks[i] : i \in DOMAIN Tasks} \cap groups

Collect ==
  /\ phase = "idle" /\ scrapes < MaxScrapes
  /\ scrapes' = scrapes + 1
  /\ phase' = "scraping"
  /\ cfg' = live
  /\ Weather
  /\ before' = errors
  /\ IF client.path.RackPDUs # <<>>
     THEN queue' = {} /\ running' = {"pdus"}
     ELSE queue' = TasksOf(live) /\ running' = {}
  /\ result' = <<>> /\ panicked' = {}
  /\ UNCHANGED <<config, client, found, errors>>

\* The tasks are submitted one after the other.
Turn(task) == CHOOSE i \in DOMAIN Tasks : Tasks[i] = task

IsNext(task) == task \in queue /\ \A other \in queue : Turn(task) <= Turn(other)

\* Mutant of Submit: the goroutine that submits counts as one.
SubmitShort ==
  /\ phase = "scraping"
  /\ limit > 0 => Cardinality(running) + 1 < limit
  /\ \E task \in queue :
       IsNext(task) /\ queue' = queue \ {task} /\ running' = running \cup {task}
  /\ UNCHANGED <<config, phase, client, found, cfg, world, result, panicked, errors, before, scrapes>>

\* Mutant of Submit: no SetLimit.
SubmitUnlimited ==
  /\ phase = "scraping"
  /\ \E task \in queue :
       IsNext(task) /\ queue' = queue \ {task} /\ running' = running \cup {task}
  /\ UNCHANGED <<config, phase, client, found, cfg, world, result, panicked, errors, before, scrapes>>

\* errgroup's Go blocks while limit goroutines run.
Submit ==
  /\ phase = "scraping"
  /\ limit > 0 => Cardinality(running) < limit
  /\ \E task \in queue :
       IsNext(task) /\ queue' = queue \ {task} /\ running' = running \cup {task}
  /\ UNCHANGED <<config, phase, client, found, cfg, world, result, panicked, errors, before, scrapes>>

\* The goroutine of the sensors goes on with the voltages, unless they come with the power.
Followup(call) == IF call = "sensors" /\ "power" \notin cfg THEN {"voltages"} ELSE {}

\* A call that returns false counts one error, and so does one that panics.
Record(call, r) ==
  /\ result' = [c \in DOMAIN result \cup {call} |-> IF c = call THEN r ELSE result[c]]
  /\ running' = (running \ {call}) \cup Followup(call)
  /\ errors' = IF Ok(r) THEN errors ELSE errors + 1

\* Mutant of Finish: the older path of the event log is kept for every vendor.
FinishSwitches(call) ==
  /\ call \in running
  /\ \E w \in {World(net, cfg)} :
       /\ \E r \in {Refresh(w, call)} : Record(call, r)
       /\ client' = IF call = "events" THEN [client EXCEPT !.path.Event = LogsSel] ELSE client
  /\ UNCHANGED <<config, phase, found, cfg, world, queue, panicked, before, scrapes>>

Finish(call) ==
  /\ call \in running
  /\ \E w \in {World(net, cfg)} :
       /\ \E r \in {Refresh(w, call)} : Record(call, r)
       /\ client' = IF call = "events" THEN [client EXCEPT !.path.Event = EventPath(w)] ELSE client
  /\ UNCHANGED <<config, phase, found, cfg, world, queue, panicked, before, scrapes>>

\* Mutant of Panic: what is recovered is not counted.
PanicUncounted(call) ==
  /\ call \in running
  /\ Upset
  /\ \E r \in {Failed, Failed \cup Refresh(World(net, cfg), call)} :
       /\ result' = [c \in DOMAIN result \cup {call} |-> IF c = call THEN r ELSE result[c]]
       /\ running' = (running \ {call}) \cup Followup(call)
  /\ panicked' = panicked \cup {call}
  /\ UNCHANGED <<config, phase, client, found, cfg, net, queue, errors, before, scrapes>>

\* A panic is recovered where refresh was called; what was sent before it, here
\* all or nothing, was sent.
Panic(call) ==
  /\ call \in running
  /\ Upset
  /\ \E r \in {Failed, Failed \cup Refresh(World(net, cfg), call)} : Record(call, r)
  /\ panicked' = panicked \cup {call}
  /\ UNCHANGED <<config, phase, client, found, cfg, net, queue, before, scrapes>>

\* All have been waited for: the counter is reported.
Report ==
  /\ phase = "scraping" /\ queue = {} /\ running = {}
  /\ phase' = "done"
  /\ UNCHANGED <<config, client, found, cfg, world, pool, errors, before, scrapes>>

Rest ==
  /\ phase = "done"
  /\ phase' = "idle"
  /\ net' = Calm
  /\ UNCHANGED <<config, client, found, cfg, upsets, pool, errors, before, scrapes>>

Scraping == Submit \/ Report \/ \E call \in Calls : Finish(call) \/ Panic(call)

Next == Reload \/ BeginDiscovery \/ EndDiscovery \/ Collect \/ Scraping \/ Rest

SafetySpec == Init /\ [][Next]_vars

\* The goroutines of a scrape run; every request ends, by its timeout at the latest.
Fairness == WF_vars(Scraping)

Spec == SafetySpec /\ Fairness

-----------------------------------------------------------------------------
\* Properties

\* The series of the scrape so far, each with the place it was sent from.
Sent ==
  {s \in UNION {Placed(c, result[c]) : c \in DOMAIN result} : s.metric # "failure"}

\* No series is sent twice: registry.Gather would refuse the whole scrape.
SeriesUnique ==
  phase = "done" => \A s, t \in Sent : s.metric = t.metric /\ s.labels = t.labels => s = t

\* Each voltage is reported once when the sensors are enabled, with the power
\* group or without it, also when a reload switches one of them in the middle of
\* the scrape; and not at all otherwise.
Voltages == {s \in Sent : s.metric = "voltage"}

Rails == {i \in DOMAIN Fleet[machine][client.path.Power].Voltages :
            VoltageRow(i, Fleet[machine][client.path.Power].Voltages[i]) # {}}

\* The entry of the array that a voltage was read from.
Rail(voltage) == voltage.at[2]

VoltagesOnce ==
  phase = "done" =>
    /\ "sensors" \notin cfg => Voltages = {}
    /\ ("sensors" \in cfg /\ net = Calm /\ panicked = {}
          /\ client.path.Power \in DOMAIN Fleet[machine] \ {""})
         => /\ {Rail(v) : v \in Voltages} = Rails
            /\ \A u, v \in Voltages : Rail(u) = Rail(v) => u = v

\* A scrape makes every call that is due, whatever becomes of the others, each just
\* once, and counts one error for each that failed or panicked.
Due ==
  IF client.path.RackPDUs # <<>> THEN {"pdus"}
  ELSE TasksOf(cfg) \cup IF "sensors" \in cfg /\ "power" \notin cfg THEN {"voltages"} ELSE {}

Failures == {c \in DOMAIN result : ~Ok(result[c])}

ErrorsCounted ==
  phase = "done" => DOMAIN result = Due /\ errors = before + Cardinality(Failures)

\* What goes wrong costs the calls it goes wrong for and nothing else: a call that
\* succeeded has sent what it would have sent on a calm day (but for the model of
\* a Dell manager, which comes from a second resource), and when the retries have
\* helped, or nothing went wrong, that goes for every call.
Unharmed(call) == result[call] = Refresh(World(Calm, cfg), call)

FaultIsolated ==
  phase = "done" =>
    \A c \in DOMAIN result :
      \/ c \in panicked
      \/ c = "manager" /\ DellAttributesPath \in DOMAIN net
      \/ Unharmed(c)
      \/ ~Ok(result[c]) /\ \E r \in DOMAIN net : net[r] # "flaky"

\* A group the machine has something for and that sends nothing has a reason:
\* something goes wrong now, or did during discovery, or the group was enabled
\* after discovery had settled the paths.
Excused(group) ==
  \/ net # Calm \/ blurred \/ group \in panicked
  \/ group \in {"manager", "events", "extra"} /\ group \notin known

GapExplained ==
  phase = "done" =>
    \A group \in DOMAIN result \cap Offers[machine] :
      result[group] \subseteq Failed => Excused(group)

\* docs/metrics.md says of every metric that a field that is missing gives no sample,
\* and not a zero.  It holds for all but those of Zeroed.
AbsentNotZero ==
  phase = "done" => \A s \in Sent : s.from \in {"none", "default"} => s.metric \in Zeroed

\* Every scrape comes to an end, whatever the limit.
ScrapeEnds == phase = "scraping" ~> phase = "done"
=============================================================================
