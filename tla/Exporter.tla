------------------------------- MODULE Exporter -------------------------------
(***************************************************************************)
(* The life of the process and of its configuration: loading a file with   *)
(* the environment laid over it and validating the result                  *)
(* (internal/config), start and end of the process and --once (main.go,    *)
(* once.go, server.go), reloads (cmd/idrac_exporter/config.go) by SIGHUP,  *)
(* by the file watcher and by /reload, and all that reads Config.Hosts     *)
(* meanwhile, with Config.Mutex or without it.  When the triggers fire is  *)
(* the matter of ReloadTriggers; what becomes of a host's collector when   *)
(* its login changes, of CollectorCache.                                   *)
(*                                                                         *)
(* A credentials entry is its username and password, "" for none; the      *)
(* metrics section is the set of its true flags, "all" among them.  An     *)
(* unhandled panic ends the process, except in a handler, where net/http   *)
(* recovers it.                                                            *)
(***************************************************************************)
EXTENDS Naturals, FiniteSets

CONSTANTS Files,      \* what the configuration file may contain
          Environs,   \* what the environment may contain
          Triggers,   \* goroutines that reload on their own: the watcher, the signals
          Handlers,   \* goroutines that serve /reload
          Readers,    \* of Config.Hosts
          Null,       \* a section or an entry without content
          Nobody      \* "the mutex is free", "nothing is being loaded"

Reloaders == Triggers \cup Handlers

\* The reader that is not one of the server's, and those that take no lock.
Once     == "once"
Unlocked == {Once, "discover"}

ASSUME GoroutinesAssumption ==
  /\ Triggers \cap Handlers = {}
  /\ Reloaders \cap (Readers \cup {Once}) = {}
  /\ Nobody \notin Reloaders \cup Readers

\* Two groups of metrics stand for all, and for the events section, which is replaced
\* along with them.
Flags == {"all", "system", "events"}

ASSUME FlagsAssumption == \A f \in Files, e \in Environs : f.metrics \cup e.on \subseteq Flags

VARIABLES env,      \* the environment, fixed for the process
          file,     \* the configuration file
          phase,    \* of the process
          config,   \* hosts, metrics and the rest that is in force
          mutex,    \* who holds Config.Mutex
          job,      \* reloader -> the configuration it loaded, and how much of it is merged
          reading,  \* the readers that are iterating over Config.Hosts
          last      \* history: what the last reload, or the start, had loaded

vars == <<env, file, phase, config, mutex, job, reading, last>>

Phases == {"starting", "once", "serving", "draining", "ended", "refused", "crashed"}

Running == phase \in {"once", "serving", "draining"}

-----------------------------------------------------------------------------
\* Loading

Keys(hosts) == IF hosts = Null THEN {} ELSE DOMAIN hosts

\* Mutant of Complete: the entry itself is not looked at.
CompleteOrNull(entry) == entry # Null => (entry.user # "" /\ entry.pass # "")

\* AuthConfig.Validate
Complete(entry) == entry # Null /\ entry.user # "" /\ entry.pass # ""

Blank == [user |-> "", pass |-> ""]

\* What the environment says of the default entry, if anything.
Speaks(e) == e.user # "" \/ e.pass # "" \/ e.other

DefaultOf(hosts) == IF "default" \in Keys(hosts) THEN hosts["default"] ELSE Blank

Over(e, entry) ==
  [user |-> IF e.user # "" THEN e.user ELSE entry.user,
   pass |-> IF e.pass # "" THEN e.pass ELSE entry.pass]

\* FromEnvironment writes through a nil map, or a nil entry of it.
Panics(e, f) ==
  /\ f.parses /\ Speaks(e)
  /\ f.hosts = Null \/ DefaultOf(f.hosts) = Null

HostsOf(e, f) ==
  IF ~Speaks(e) THEN f.hosts
  ELSE [k \in DOMAIN f.hosts \cup {"default"} |->
          IF k = "default" THEN Over(e, DefaultOf(f.hosts)) ELSE f.hosts[k]]

\* Validate spells "all" out.
MetricsOf(e, f) ==
  LET flags == (f.metrics \cup e.on) \ e.off
  IN  IF "all" \in flags THEN Flags ELSE flags

Load(e, f) == [hosts |-> HostsOf(e, f), metrics |-> MetricsOf(e, f)]

\* f.sound: everything else that Validate looks at.
Valid(e, f) ==
  /\ f.parses /\ f.sound
  /\ ~Panics(e, f)
  /\ \A k \in Keys(HostsOf(e, f)) : Complete(HostsOf(e, f)[k])

Configs == UNION {{Load(e, f) : f \in {g \in Files : Valid(e, g)}} : e \in Environs}

NoJob == [cfg |-> Nobody, left |-> {}, applying |-> FALSE]

TypeOK ==
  /\ env \in Environs /\ file \in Files
  /\ phase \in Phases
  /\ \A k \in Keys(config.hosts) : config.hosts[k] # Null /\ Complete(config.hosts[k])
  /\ config.metrics \subseteq Flags
  /\ mutex \in Reloaders \cup Readers \cup {Nobody}
  /\ \A r \in Reloaders :
       /\ job[r] = NoJob \/ job[r].cfg \in Configs
       /\ job[r].left \subseteq Keys(IF job[r] = NoJob THEN Null ELSE job[r].cfg.hosts)
  /\ reading \subseteq Readers \cup {Once}
  /\ last \in Configs \cup {Nobody}

Init ==
  /\ env \in Environs /\ file \in Files
  /\ phase = "starting"
  /\ config = [hosts |-> Null, metrics |-> {}]
  /\ mutex = Nobody
  /\ job = [r \in Reloaders |-> NoJob]
  /\ reading = {}
  /\ last = Nobody

-----------------------------------------------------------------------------
\* Start and end

\* LoadConfig, then --once or the server; its listener or the OTLP exporter may fail.
Start ==
  /\ phase = "starting"
  /\ IF Valid(env, file)
     THEN /\ phase' \in {"once", "serving", "refused"}
          /\ config' = Load(env, file) /\ last' = config'
     ELSE /\ phase' = IF Panics(env, file) THEN "crashed" ELSE "refused"
          /\ UNCHANGED <<config, last>>
  /\ UNCHANGED <<env, file, mutex, job, reading>>

\* SIGINT, SIGTERM: the server takes no more requests ...
Terminate ==
  /\ phase = "serving"
  /\ phase' = "draining"
  /\ UNCHANGED <<env, file, config, mutex, job, reading, last>>

\* ... and the process ends when those that run are done, or after a timeout; the
\* goroutines of its own just stop.
End ==
  /\ phase = "draining" \/ (phase = "once" /\ Once \notin reading)
  /\ phase' = "ended"
  /\ UNCHANGED <<env, file, config, mutex, job, reading, last>>

Edit ==
  /\ Running
  /\ file' \in Files
  /\ UNCHANGED <<env, phase, config, mutex, job, reading, last>>

-----------------------------------------------------------------------------
\* ReloadConfig

\* A panic in a handler ends its request, any other the process.
Panic(r) ==
  /\ phase' = IF r \in Handlers THEN phase ELSE "crashed"
  /\ job' = [job EXCEPT ![r] = NoJob]
  /\ mutex' = IF mutex = r THEN Nobody ELSE mutex

Idle(r) == job[r] = NoJob /\ (r \in Handlers => phase = "serving")

\* The file is read and validated without the mutex; what is not valid is dropped.
LoadFile(r) ==
  /\ Running /\ Idle(r)
  /\ Valid(env, file)
  /\ \E cfg \in {Load(env, file)} :
       job' = [job EXCEPT ![r] = [cfg |-> cfg, left |-> Keys(cfg.hosts), applying |-> FALSE]]
  /\ UNCHANGED <<env, file, phase, config, mutex, reading, last>>

LoadPanics(r) ==
  /\ Running /\ Idle(r)
  /\ Panics(env, file)
  /\ Panic(r)
  /\ UNCHANGED <<env, file, config, reading, last>>

\* Mutant of BeginMerge: without the mutex.
BeginMergeUnlocked(r) ==
  /\ Running
  /\ job[r] # NoJob /\ ~job[r].applying
  /\ job' = [job EXCEPT ![r].applying = TRUE]
  /\ config' = [config EXCEPT !.metrics = job[r].cfg.metrics]
  /\ UNCHANGED <<env, file, phase, mutex, reading, last>>

\* The metrics and events sections are replaced, then the hosts merged in one by one.
BeginMerge(r) ==
  /\ Running
  /\ job[r] # NoJob /\ ~job[r].applying
  /\ mutex = Nobody /\ mutex' = r
  /\ job' = [job EXCEPT ![r].applying = TRUE]
  /\ config' = [config EXCEPT !.metrics = job[r].cfg.metrics]
  /\ UNCHANGED <<env, file, phase, reading, last>>

\* A write to the map while somebody iterates over it, which Go's runtime may take
\* notice of: that ends the process, handler or not.
WriteHosts(hosts) ==
  /\ config' = [config EXCEPT !.hosts = hosts]
  /\ phase' \in {phase} \cup IF reading # {} THEN {"crashed"} ELSE {}

With(hosts, k, entry) == [j \in DOMAIN hosts \cup {k} |-> IF j = k THEN entry ELSE hosts[j]]

\* A host is entered if it is new, replaced if its login is another.  The map itself
\* may be nil, and so may, but for Validate, the entry.
Merge(r, k) ==
  LET entry == job[r].cfg.hosts[k]
      same  == k \in Keys(config.hosts) /\ config.hosts[k] = entry
      nil   == \/ config.hosts = Null
               \/ k \in Keys(config.hosts) /\ Null \in {config.hosts[k], entry}
  IN  /\ Running
      /\ job[r].applying /\ k \in job[r].left
      /\ \/ nil /\ Panic(r) /\ UNCHANGED config
         \/ /\ ~nil
            /\ job' = [job EXCEPT ![r].left = @ \ {k}]
            /\ IF same THEN UNCHANGED <<config, phase>> ELSE WriteHosts(With(config.hosts, k, entry))
            /\ UNCHANGED mutex
      /\ UNCHANGED <<env, file, reading, last>>

EndMerge(r) ==
  /\ Running
  /\ job[r].applying /\ job[r].left = {}
  /\ job' = [job EXCEPT ![r] = NoJob]
  /\ mutex' = IF mutex = r THEN Nobody ELSE mutex
  /\ last' = job[r].cfg
  /\ UNCHANGED <<env, file, phase, config, reading>>

-----------------------------------------------------------------------------
\* Readers of Config.Hosts: /health, the routing of /metrics, the scrape of all
\* hosts and the snapshot loop, under the mutex; /discover and --once, which are not

\* Mutant of TakesLock: HasTargetHosts without the mutex.
TakesLockSome(r) == r \notin Unlocked \cup {"route"}

TakesLock(r) == r \notin Unlocked

BeginRead(r) ==
  /\ IF r = Once THEN phase = "once" ELSE phase = "serving"
  /\ r \notin reading
  /\ TakesLock(r) => mutex = Nobody
  /\ mutex' = IF TakesLock(r) THEN r ELSE mutex
  /\ reading' = reading \cup {r}
  /\ UNCHANGED <<env, file, phase, config, job, last>>

EndRead(r) ==
  /\ Running /\ r \in reading
  /\ reading' = reading \ {r}
  /\ mutex' = IF mutex = r THEN Nobody ELSE mutex
  /\ UNCHANGED <<env, file, phase, config, job, last>>

Reload(r) ==
  \/ LoadFile(r) \/ LoadPanics(r) \/ BeginMerge(r) \/ EndMerge(r)
  \/ job[r] # NoJob /\ \E k \in job[r].left : Merge(r, k)

Next ==
  \/ Start \/ Terminate \/ End \/ Edit
  \/ \E r \in Reloaders : Reload(r)
  \/ \E r \in Readers \cup {Once} : BeginRead(r) \/ EndRead(r)

Spec == Init /\ [][Next]_vars

-----------------------------------------------------------------------------
\* Properties

\* Reloads do not mix: between them the metrics are those of the last one that was
\* applied, and so are all its hosts; hosts it does not have are left from before.
\* So it is after a start with a hosts section: a null one is never replaced.
ReloadsUnmixed ==
  (Running /\ config.hosts # Null /\ \A r \in Reloaders : ~job[r].applying) =>
    /\ config.metrics = last.metrics
    /\ \A k \in Keys(last.hosts) : k \in Keys(config.hosts) /\ config.hosts[k] = last.hosts[k]

\* What the process can die of: a panic over a null hosts section or default entry,
\* which no valid entry can cause; or a host that a reload writes while /discover or
\* --once iterates over the map.
NullSection == file.parses /\ (file.hosts = Null \/ DefaultOf(file.hosts) = Null)

DeathExplained ==
  [][(phase # "crashed" /\ phase' = "crashed") =>
       NullSection \/ (Running /\ config.hosts = Null) \/ reading \cap Unlocked # {}]_vars
=============================================================================
