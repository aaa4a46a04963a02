----------------------------- MODULE ClientProofs -----------------------------
(***************************************************************************)
(* Theorems about Client for any machines, configurations, mishaps and     *)
(* bounds. The first part is about the calls of a scrape, whatever they    *)
(* send: those that are due are split between those queued, those running, *)
(* those that ended and the voltages that a goroutine will go on with      *)
(* (TypeOK /\ Consistent).                                                 *)
(*                                                                         *)
(* The second part is about what they send, which GroupsProofs describes   *)
(* call by call. Two more invariants carry it over to the scrapes:         *)
(* Isolated, that each call which ended has sent what it would have sent   *)
(* without the trouble or has failed, and Honest, that what it sent was    *)
(* read from the BMC and is of its own metrics. The voltages follow from   *)
(* both.                                                                   *)
(*                                                                         *)
(* Two more are about the machine: Singular, that what a call sent has no  *)
(* series twice if the machine tells apart what the call reads, and        *)
(* Settled, that after a discovery on a calm day the client has the paths  *)
(* there are to find.                                                      *)
(***************************************************************************)
EXTENDS Client, GroupsProofs, FiniteSetTheorems, TLAPS

\* A client that was discovered has a vendor and the paths of all groups.
HasPaths(c) ==
  /\ {"vendor", "ilo4", "path"} \subseteq DOMAIN c
  /\ {"System", "Thermal", "ThermalSubsystem", "Power", "PowerSubsystem", "Storage", "Memory",
      "Network", "Event", "Processors", "Manager", "Extra", "RackPDUs"} \subseteq DOMAIN c.path

Shaped == client # NoClient => HasPaths(client)

\* The voltages, while the call they follow is queued or running.
Late == IF "sensors" \in queue \cup running THEN Followup("sensors") ELSE {}

Active == phase \in {"scraping", "done"}

Split ==
  /\ Active => Due = queue \cup running \cup DOMAIN result \cup Late
  /\ queue \cap running = {}
  /\ (queue \cup running) \cap DOMAIN result = {}
  /\ Late \cap (queue \cup running \cup DOMAIN result) = {}
  /\ "voltages" \notin queue
  /\ phase # "scraping" => queue = {} /\ running = {}

Counted ==
  /\ IsFiniteSet(running) /\ IsFiniteSet(Failures)
  /\ Active => errors = before + Cardinality(Failures)

Consistent == Shaped /\ Split /\ Counted

-----------------------------------------------------------------------------
\* A client without paths is none.
LEMMA PathsMatter == ~HasPaths(NoClient)
BY DEF HasPaths, NoClient

\* A new event log leaves a client with its paths.
LEMMA EventKeeps ==
  ASSUME NEW c, HasPaths(c), NEW e
  PROVE  /\ HasPaths([c EXCEPT !.path.Event = e])
         /\ [c EXCEPT !.path.Event = e].path.RackPDUs = c.path.RackPDUs
BY DEF HasPaths

\* The client of a server has the paths.
LEMMA ServerHasPaths ==
  ASSUME NEW w, NEW root, NEW systemPath, NEW chassis, NEW system, NEW members
  PROVE  HasPaths(Server(w, root, systemPath, chassis, system, members))
BY DEF HasPaths, Server

\* PDUs are found with paths too, or not at all.
LEMMA PDUsHavePaths ==
  ASSUME NEW w, NEW path
  PROVE  FindPDUs(w, path) = NoClient \/ HasPaths(FindPDUs(w, path))
BY DEF HasPaths, FindPDUs, NoPath

\* So it is for discovery as a whole.
LEMMA DiscoveryHasPaths ==
  ASSUME NEW w
  PROVE  findAllEndpoints(w) = NoClient \/ HasPaths(findAllEndpoints(w))
<1> DEFINE root == w.doc[Root]
           Fine(c) == c = NoClient \/ HasPaths(c)
<1>1. Fine(NoClient)
  OBVIOUS
<1>2. Fine(FindServer(w, root))
  BY ServerHasPaths DEF FindServer
<1>3. Fine(FindPDUs(w, w.doc[root.PowerEquipment].RackPDUs))
  BY PDUsHavePaths
<1>4. Fine(FindPDUs(w, root.PowerDistribution))
  BY PDUsHavePaths
<1>5. Fine(findAllEndpoints(w))
  <2> HIDE DEF Fine
  <2> QED BY <1>1, <1>2, <1>3, <1>4, Zenon DEF findAllEndpoints
<1> QED BY <1>5

-----------------------------------------------------------------------------
\* The calls

\* The tasks, as a set.
LEMMA TaskSet ==
  {Tasks[i] : i \in DOMAIN Tasks} =
     {"system", "sensors", "power", "network", "events", "storage", "memory",
      "processors", "manager", "extra"}
BY DEF Tasks

\* What the configuration asks for, and that the calls of a PDU and for voltages are
\* not among it.
LEMMA TasksFacts ==
  ASSUME NEW groups
  PROVE  /\ TasksOf(groups) \subseteq Calls \ {"voltages", "pdus"}
         /\ "sensors" \in TasksOf(groups) <=> "sensors" \in groups
BY TaskSet DEF TasksOf, Calls

\* A call that ends makes room for the one that follows it, if any.
LEMMA RecordRunning ==
  ASSUME IsFiniteSet(running), NEW call \in running, NEW r, Record(call, r),
         running \subseteq Calls
  PROVE  /\ IsFiniteSet(running') /\ running' \subseteq Calls
         /\ Cardinality(running') <= Cardinality(running)
<1>1. running' = (running \ {call}) \cup Followup(call)
  BY DEF Record
<1>2. /\ IsFiniteSet(running \ {call})
      /\ Cardinality(running \ {call}) = Cardinality(running) - 1
      /\ Cardinality(running) \in Nat
  BY FS_RemoveElement, FS_CardinalityType
<1>3. CASE Followup(call) = {}
  BY <1>1, <1>2, <1>3
<1>4. CASE Followup(call) = {"voltages"}
  <2>1. running' = (running \ {call}) \cup {"voltages"}
    BY <1>1, <1>4
  <2>2. /\ IsFiniteSet(running')
        /\ \/ Cardinality(running') = Cardinality(running \ {call})
           \/ Cardinality(running') = Cardinality(running \ {call}) + 1
    BY <1>2, <2>1, FS_AddElement
  <2> QED BY <1>2, <2>1, <2>2 DEF Calls
<1> QED BY <1>3, <1>4 DEF Followup

\* What a call that ends does to the split and the count.
LEMMA RecordKeeps ==
  ASSUME TypeOK, Split, Counted, phase = "scraping", NEW call \in running, NEW r, Record(call, r),
         UNCHANGED <<limit, phase, cfg, queue, before>>,
         client'.path.RackPDUs = client.path.RackPDUs
  PROVE  /\ Split' /\ Counted'
         /\ running' \subseteq Calls /\ (limit > 0 => Cardinality(running') <= limit)
         /\ DOMAIN result' = DOMAIN result \cup {call} /\ call \in Calls
         /\ errors' \in Nat
<1>1. /\ IsFiniteSet(running') /\ running' \subseteq Calls
      /\ Cardinality(running') <= Cardinality(running)
  BY RecordRunning DEF Counted, TypeOK
<1>2. Cardinality(running) \in Nat /\ Cardinality(running') \in Nat
  BY <1>1, FS_CardinalityType DEF Counted
<1>3. limit > 0 => Cardinality(running') <= limit
  BY <1>1, <1>2, LimitsAssumption DEF TypeOK
<1>4. DOMAIN result' = DOMAIN result \cup {call}
  BY DEF Record
<1>5. call \notin DOMAIN result
  BY DEF Split
<1>6. \A c \in DOMAIN result' : result'[c] = IF c = call THEN r ELSE result[c]
  BY DEF Record
<1>7. /\ IsFiniteSet(Failures') /\ errors' = before' + Cardinality(Failures')
      /\ errors' \in Nat
  <2>1. errors = before + Cardinality(Failures) /\ IsFiniteSet(Failures)
    BY DEF Counted, Active
  <2>2. Cardinality(Failures) \in Nat
    BY <2>1, FS_CardinalityType
  <2>3. CASE Ok(r)
    <3>1. Failures' = Failures
      BY <1>4, <1>5, <1>6, <2>3 DEF Failures
    <3>2. errors' = errors
      BY <2>3 DEF Record
    <3> QED BY <2>1, <3>1, <3>2 DEF TypeOK
  <2>4. CASE ~Ok(r)
    <3>1. Failures' = Failures \cup {call} /\ call \notin Failures
      BY <1>4, <1>5, <1>6, <2>4 DEF Failures
    <3>2. errors' = errors + 1
      BY <2>4 DEF Record
    <3>3. IsFiniteSet(Failures') /\ Cardinality(Failures') = Cardinality(Failures) + 1
      BY <2>1, <3>1, FS_AddElement
    <3> QED BY <2>1, <2>2, <3>2, <3>3 DEF TypeOK
  <2> QED BY <2>3, <2>4
<1>8. Due' = Due
  BY DEF Due
<1>9. running' = (running \ {call}) \cup Followup(call) /\ Followup("sensors")' = Followup("sensors")
  BY DEF Record, Followup
<1>10. Split'
  <2>1. CASE call = "sensors"
    <3>1. Late = Followup("sensors") /\ Late' = {}
      BY <1>9, <2>1 DEF Late, Split, Followup
    <3> QED BY <1>4, <1>8, <1>9, <2>1, <3>1 DEF Split, Active, Followup
  <2>2. CASE call # "sensors"
    <3>1. running' = running \ {call} /\ Late' = Late
      BY <1>9, <2>2 DEF Late, Followup
    <3> QED BY <1>4, <1>8, <2>2, <3>1 DEF Split, Active
  <2> QED BY <2>1, <2>2
<1> QED BY <1>1, <1>3, <1>4, <1>7, <1>10 DEF Counted, TypeOK

-----------------------------------------------------------------------------
\* The invariant, step by step

\* Init establishes the invariant.
LEMMA Initially == Init => TypeOK /\ Consistent
<1> SUFFICES ASSUME Init PROVE TypeOK /\ Consistent
  OBVIOUS
<1>1. /\ queue = {} /\ running = {} /\ DOMAIN result = {} /\ panicked = {}
      /\ DOMAIN net = {} /\ client = NoClient /\ phase = "new"
  BY DEF Init, Calm
<1>2. TypeOK
  <2>1. Cardinality(running) = 0
    BY <1>1, FS_EmptySet
  <2>2. limit > 0 => Cardinality(running) <= limit
    BY <2>1, LimitsAssumption DEF Init
  <2>3. upsets \in 0..MaxUpsets /\ scrapes \in 0..MaxScrapes /\ errors \in Nat /\ before \in Nat
    BY BoundsAssumption DEF Init
  <2>4. /\ machine \in DOMAIN Fleet /\ limit \in Limits
        /\ live \in Configs /\ known \in Configs /\ cfg \in Configs /\ blurred \in BOOLEAN
    BY DEF Init
  <2>5. client = NoClient <=> phase \in {"new", "discovering"}
    BY <1>1
  <2> QED BY <1>1, <2>2, <2>3, <2>4, <2>5 DEF TypeOK
<1>3. Failures = {} /\ IsFiniteSet({})
  BY <1>1, FS_EmptySet DEF Failures
<1>4. Late = {} /\ ~Active
  BY <1>1 DEF Late, Active
<1>5. Split /\ Counted
  BY <1>1, <1>3, <1>4 DEF Split, Counted
<1> QED BY <1>1, <1>2, <1>5 DEF Consistent, Shaped

\* What a step that touches none of the split, the count and the client keeps.
LEMMA Untouched ==
  ASSUME Consistent, UNCHANGED <<client, cfg, queue, running, result, errors, before>>,
         Active' => Active, phase' = "scraping" \/ (queue = {} /\ running = {})
  PROVE  Consistent'
<1>1. Due' = Due /\ Late' = Late /\ Failures' = Failures
  BY DEF Due, Late, Failures, Followup
<1>2. Shaped'
  BY DEF Consistent, Shaped
<1>3. Split' /\ Counted'
  BY <1>1 DEF Consistent, Split, Counted
<1> QED BY <1>2, <1>3 DEF Consistent

\* Something more that goes wrong is within the bound.
LEMMA UpsetTyped == ASSUME upsets \in 0..MaxUpsets, Upset PROVE upsets' \in 0..MaxUpsets
BY BoundsAssumption DEF Upset

\* ... and at a resource of the machine.
LEMMA WeatherTyped ==
  ASSUME TypeOK, Weather, machine' = machine
  PROVE  DOMAIN net' \subseteq DOMAIN Fleet[machine]' /\ upsets' \in 0..MaxUpsets
BY UpsetTyped DEF Weather, Calm, TypeOK

\* A reload changes nothing the client has taken a snapshot of.
LEMMA ReloadStep ==
  ASSUME TypeOK, Consistent, Reload
  PROVE  TypeOK' /\ Consistent'
<1>1. TypeOK'
  BY UpsetTyped DEF TypeOK, Reload, found, pool
<1>2. Consistent'
  BY Untouched DEF Reload, pool, Active, Consistent, Split
<1> QED BY <1>1, <1>2

\* The start of discovery keeps the invariant ...
LEMMA BeginDiscoveryStep ==
  ASSUME TypeOK, Consistent, BeginDiscovery
  PROVE  TypeOK' /\ Consistent'
<1>1. TypeOK'
  BY WeatherTyped DEF TypeOK, BeginDiscovery, config, pool
<1>2. Consistent'
  BY Untouched DEF BeginDiscovery, pool, Active, Consistent, Split
<1> QED BY <1>1, <1>2

\* ... and so does its end, which brings the client.
LEMMA EndDiscoveryStep ==
  ASSUME TypeOK, Consistent, EndDiscovery
  PROVE  TypeOK' /\ Consistent'
<1>1. PICK w : /\ client' = findAllEndpoints(w)
               /\ phase' = IF client' = NoClient THEN "new" ELSE "idle"
               /\ phase = "discovering" /\ net' = Calm
               /\ UNCHANGED <<config, found, cfg, upsets, pool, errors, before, scrapes>>
  BY DEF EndDiscovery
<1>2. TypeOK'
  BY <1>1 DEF TypeOK, config, found, pool, Calm
<1>3. Shaped'
  BY <1>1, DiscoveryHasPaths DEF Shaped
<1>4. queue = {} /\ running = {} /\ queue' = {} /\ running' = {} /\ ~Active' /\ Late' = {}
  BY <1>1 DEF Consistent, Split, Active, Late, pool
<1>5. Failures' = Failures
  BY <1>1 DEF Failures, pool
<1>6. Split' /\ Counted'
  BY <1>1, <1>4, <1>5 DEF Consistent, Split, Counted, pool
<1> QED BY <1>2, <1>3, <1>6 DEF Consistent

\* The start of a scrape queues what is due, but for the late voltages.
LEMMA CollectStep ==
  ASSUME TypeOK, Consistent, Collect
  PROVE  TypeOK' /\ Consistent'
<1>1. /\ cfg' = live /\ client' = client /\ phase' = "scraping" /\ DOMAIN result' = {}
      /\ errors' = errors /\ before' = errors /\ panicked' = {} /\ client # NoClient
  BY DEF Collect, TypeOK
<1>2. IsFiniteSet(running') /\ (limit > 0 => Cardinality(running') <= limit)
  <2>1. running' = {} \/ running' = {"pdus"}
    BY DEF Collect
  <2>2. IsFiniteSet({}) /\ Cardinality({}) = 0
    BY FS_EmptySet
  <2>3. IsFiniteSet({"pdus"}) /\ Cardinality({"pdus"}) = 1
    BY FS_Singleton
  <2> QED BY <2>1, <2>2, <2>3, LimitsAssumption DEF TypeOK
<1>3. queue' \subseteq Calls /\ running' \subseteq Calls
  BY TasksFacts DEF Collect, Calls
<1>4. TypeOK'
  BY <1>1, <1>2, <1>3, WeatherTyped, BoundsAssumption DEF TypeOK, Collect, config, found
<1>5. Failures' = {} /\ Cardinality({}) = 0 /\ IsFiniteSet({})
  BY <1>1, FS_EmptySet DEF Failures
<1>6. Counted'
  BY <1>1, <1>2, <1>5 DEF Counted, TypeOK
<1>7. Split'
  <2>1. CASE client.path.RackPDUs # <<>>
    <3>1. queue' = {} /\ running' = {"pdus"} /\ Due' = {"pdus"} /\ Late' = {}
      BY <1>1, <2>1 DEF Collect, Due, Late
    <3> QED BY <1>1, <3>1 DEF Split
  <2>2. CASE client.path.RackPDUs = <<>>
    <3>1. queue' = TasksOf(live) /\ running' = {}
      BY <2>2 DEF Collect
    <3>2. Late' = IF "sensors" \in live /\ "power" \notin live THEN {"voltages"} ELSE {}
      BY <1>1, <3>1, TasksFacts DEF Late, Followup
    <3>3. Due' = TasksOf(live) \cup Late'
      BY <1>1, <2>2, <3>2 DEF Due
    <3> QED BY <1>1, <3>1, <3>2, <3>3, TasksFacts DEF Split
  <2> QED BY <2>1, <2>2
<1> QED BY <1>1, <1>4, <1>6, <1>7 DEF Consistent, Shaped

\* A task that is submitted goes from the queue to those running.
LEMMA SubmitStep ==
  ASSUME TypeOK, Consistent, Submit
  PROVE  TypeOK' /\ Consistent'
<1>1. PICK task \in queue : queue' = queue \ {task} /\ running' = running \cup {task}
  BY DEF Submit
<1>2. /\ phase = "scraping" /\ (limit > 0 => Cardinality(running) < limit)
      /\ UNCHANGED <<config, phase, client, found, cfg, world, result, panicked, errors, before, scrapes>>
  BY DEF Submit
<1>3. IsFiniteSet(running') /\ Cardinality(running') = Cardinality(running) + 1
      /\ Cardinality(running) \in Nat
  BY <1>1, FS_AddElement, FS_CardinalityType DEF Consistent, Counted, Split
<1>4. limit > 0 => Cardinality(running') <= limit
  BY <1>2, <1>3, LimitsAssumption DEF TypeOK
<1>5. TypeOK'
  BY <1>1, <1>2, <1>4 DEF TypeOK, config, found, world
<1>6. Due' = Due /\ Failures' = Failures /\ Late' = Late
  BY <1>1, <1>2 DEF Due, Failures, Late, Followup
<1>7. Shaped' /\ Counted'
  BY <1>2, <1>3, <1>6 DEF Consistent, Shaped, Counted, Active
<1>8. Split'
  BY <1>1, <1>2, <1>6 DEF Consistent, Split, Active
<1> QED BY <1>5, <1>7, <1>8 DEF Consistent

\* A call that returns goes from those running to those ended.
LEMMA FinishStep ==
  ASSUME TypeOK, Consistent, NEW call \in Calls, Finish(call)
  PROVE  TypeOK' /\ Consistent'
<1>1. PICK r, e : /\ Record(call, r)
                  /\ client' = IF call = "events" THEN [client EXCEPT !.path.Event = e] ELSE client
  BY DEF Finish
<1>2. /\ call \in running
      /\ UNCHANGED <<config, phase, found, cfg, world, queue, panicked, before, scrapes>>
  BY DEF Finish
<1>3. phase = "scraping"
  BY <1>2 DEF Consistent, Split
<1>4. HasPaths(client) /\ client # NoClient
  BY <1>3 DEF Consistent, Shaped, TypeOK
<1>5. HasPaths(client') /\ client'.path.RackPDUs = client.path.RackPDUs
  BY <1>1, <1>4, EventKeeps
<1>6. client' # NoClient
  BY <1>5, PathsMatter
<1>7. /\ Split' /\ Counted'
      /\ running' \subseteq Calls /\ (limit > 0 => Cardinality(running') <= limit)
      /\ DOMAIN result' = DOMAIN result \cup {call} /\ call \in Calls
      /\ errors' \in Nat
  BY <1>1, <1>2, <1>3, <1>5, RecordKeeps DEF Consistent, config
<1>8. TypeOK'
  BY <1>2, <1>3, <1>6, <1>7 DEF TypeOK, config, found, world
<1> QED BY <1>5, <1>7, <1>8 DEF Consistent, Shaped

\* A call that panics does so too.
LEMMA PanicStep ==
  ASSUME TypeOK, Consistent, NEW call \in Calls, Panic(call)
  PROVE  TypeOK' /\ Consistent'
<1>1. PICK r : Record(call, r)
  BY DEF Panic
<1>2. /\ call \in running /\ Upset /\ panicked' = panicked \cup {call}
      /\ UNCHANGED <<config, phase, client, found, cfg, net, queue, before, scrapes>>
  BY DEF Panic
<1>3. phase = "scraping"
  BY <1>2 DEF Consistent, Split
<1>4. /\ Split' /\ Counted'
      /\ running' \subseteq Calls /\ (limit > 0 => Cardinality(running') <= limit)
      /\ DOMAIN result' = DOMAIN result \cup {call} /\ call \in Calls
      /\ errors' \in Nat
  BY <1>1, <1>2, <1>3, RecordKeeps DEF Consistent, config
<1>5. TypeOK'
  BY <1>2, <1>3, <1>4, UpsetTyped DEF TypeOK, config, found
<1> QED BY <1>2, <1>4, <1>5 DEF Consistent, Shaped

\* The end of the fan-out keeps the invariant.
LEMMA ReportStep ==
  ASSUME TypeOK, Consistent, Report
  PROVE  TypeOK' /\ Consistent'
<1>1. TypeOK'
  BY DEF TypeOK, Report, config, found, world, pool
<1>2. Consistent'
  BY Untouched DEF Report, pool, Active
<1> QED BY <1>1, <1>2

\* The time between scrapes keeps the invariant.
LEMMA RestStep ==
  ASSUME TypeOK, Consistent, Rest
  PROVE  TypeOK' /\ Consistent'
<1>1. TypeOK'
  BY DEF TypeOK, Rest, config, found, pool, Calm
<1>2. Consistent'
  BY Untouched DEF Rest, pool, Active, Consistent, Split
<1> QED BY <1>1, <1>2

\* Stuttering keeps the invariant.
LEMMA StutterStep ==
  ASSUME TypeOK, Consistent, UNCHANGED vars
  PROVE  TypeOK' /\ Consistent'
<1>1. TypeOK'
  BY DEF TypeOK, vars, config, found, world, pool
<1>2. Consistent'
  BY Untouched DEF vars, pool, Active, Consistent, Split
<1> QED BY <1>1, <1>2

\* In every reachable state the calls that are due are split between those that wait,
\* run, ended and will follow, and the error counter agrees with those that ended.
THEOREM Invariant == SafetySpec => [](TypeOK /\ Consistent)
<1>1. ASSUME TypeOK, Consistent, [Next]_vars PROVE TypeOK' /\ Consistent'
  BY <1>1, ReloadStep, BeginDiscoveryStep, EndDiscoveryStep, CollectStep, SubmitStep,
     FinishStep, PanicStep, ReportStep, RestStep, StutterStep DEF Next, Scraping
<1> QED BY <1>1, Initially, PTL DEF SafetySpec

\* Every reachable state is well typed; in particular no more calls are being made
\* at a time than the limit allows, whatever fails or panics.
THEOREM TypeCorrect == SafetySpec => []TypeOK
BY Invariant, PTL

\* A scrape makes each call that its configuration snapshot asks for, and the errors
\* it reports are those of the calls that failed or panicked, one each.
THEOREM FailuresCount == SafetySpec => []ErrorsCounted
<1>1. ASSUME TypeOK, Consistent PROVE ErrorsCounted
  <2> SUFFICES ASSUME phase = "done"
               PROVE  DOMAIN result = Due /\ errors = before + Cardinality(Failures)
    BY DEF ErrorsCounted
  <2>1. queue = {} /\ running = {} /\ Late = {} /\ Active
    BY <1>1 DEF Consistent, Split, Late, Active
  <2> QED BY <1>1, <2>1 DEF Consistent, Split, Counted
<1> QED BY <1>1, Invariant, PTL

-----------------------------------------------------------------------------
\* What goes wrong stays with the calls it goes wrong for

\* The world of a call of a client that need not be the one there is now.
WorldOf(c, trouble, groups) ==
  [doc |-> Fleet[machine], net |-> trouble, cfg |-> groups, level |-> 1,
   vendor |-> c.vendor, ilo4 |-> c.ilo4, path |-> c.path]

\* A client with another path of the event log.
WithEvent(c, e) == [c EXCEPT !.path.Event = e]

\* Correcting the path of the event log leaves the rest of a client as it is.
LEMMA EventAlone ==
  ASSUME NEW c, HasPaths(c), NEW e
  PROVE  LET new == WithEvent(c, e)
         IN  /\ new.vendor = c.vendor /\ new.ilo4 = c.ilo4 /\ new.path.Event = e
             /\ new.path.System = c.path.System /\ new.path.Thermal = c.path.Thermal
             /\ new.path.ThermalSubsystem = c.path.ThermalSubsystem
             /\ new.path.Power = c.path.Power /\ new.path.PowerSubsystem = c.path.PowerSubsystem
             /\ new.path.Storage = c.path.Storage /\ new.path.Memory = c.path.Memory
             /\ new.path.Network = c.path.Network /\ new.path.Processors = c.path.Processors
             /\ new.path.Manager = c.path.Manager /\ new.path.Extra = c.path.Extra
             /\ new.path.RackPDUs = c.path.RackPDUs
BY DEF HasPaths, WithEvent

\* On a calm day all there is can be had, and on no day more than that.
LEMMA CalmBest ==
  ASSUME NEW c, NEW trouble, NEW groups, NEW r
  PROVE  /\ Get(WorldOf(c, Calm, groups), r) <=> r \in DOMAIN Fleet[machine]
         /\ Get(WorldOf(c, trouble, groups), r) => r \in DOMAIN Fleet[machine]
         /\ (r \in DOMAIN Fleet[machine] /\ ~Get(WorldOf(c, trouble, groups), r))
              => r \in DOMAIN trouble /\ trouble[r] # "flaky"
<1>1. DOMAIN Calm = {}
  BY DEF Calm
<1> QED BY <1>1 DEF Get, Retried, Outcome, WorldOf

\* What was to be had on a day of trouble compares with a calm day, also when the path
\* of the event log was corrected in between.
LEMMA WorldsAlike ==
  ASSUME NEW c, HasPaths(c), NEW e, NEW trouble, NEW groups, NEW new, new = c \/ new = WithEvent(c, e)
  PROVE  /\ Alike(WorldOf(c, trouble, groups), WorldOf(new, Calm, groups))
         /\ \A group : group # "events" => AlikeFor(WorldOf(c, trouble, groups), WorldOf(new, Calm, groups), group)
<1>1. /\ new.vendor = c.vendor /\ new.ilo4 = c.ilo4
      /\ new.path.System = c.path.System /\ new.path.Thermal = c.path.Thermal
      /\ new.path.ThermalSubsystem = c.path.ThermalSubsystem
      /\ new.path.Power = c.path.Power /\ new.path.PowerSubsystem = c.path.PowerSubsystem
      /\ new.path.Storage = c.path.Storage /\ new.path.Memory = c.path.Memory
      /\ new.path.Network = c.path.Network /\ new.path.Processors = c.path.Processors
      /\ new.path.Manager = c.path.Manager /\ new.path.Extra = c.path.Extra
      /\ new.path.RackPDUs = c.path.RackPDUs
  BY EventAlone
<1>2. \A r : Get(WorldOf(c, trouble, groups), r) => Get(WorldOf(new, Calm, groups), r)
  BY CalmBest
<1>3. Alike(WorldOf(c, trouble, groups), WorldOf(new, Calm, groups))
  BY <1>1, <1>2 DEF Alike, WorldOf
<1> QED BY <1>1, <1>3 DEF AlikeFor, WorldOf

\* Where the two differ, something went wrong that retries did not help.
LEMMA HarmIsTrouble ==
  ASSUME NEW c, NEW new, NEW trouble, NEW groups,
         Harmed(WorldOf(c, trouble, groups), WorldOf(new, Calm, groups))
  PROVE  \E r \in DOMAIN trouble : trouble[r] # "flaky"
BY CalmBest DEF Harmed

\* A call that ends has sent what it would send on a calm day, to the client as the call
\* leaves it, or has failed because of something that went wrong.
LEMMA CallSpared ==
  ASSUME NEW c, HasPaths(c), NEW trouble, NEW groups, NEW call \in Calls, NEW new,
         new = IF call = "events"
               THEN WithEvent(c, EventPath(WorldOf(c, trouble, groups))) ELSE c
  PROVE  LET r == Refresh(WorldOf(c, trouble, groups), call)
         IN  \/ call = "manager" /\ DellAttributesPath \in DOMAIN trouble
             \/ r = Refresh(WorldOf(new, Calm, groups), call)
             \/ ~Ok(r) /\ \E x \in DOMAIN trouble : trouble[x] # "flaky"
<1> DEFINE w    == WorldOf(c, trouble, groups)
           calm == WorldOf(new, Calm, groups)
<1>1. Alike(w, calm)
  BY WorldsAlike
<1>2. Harmed(w, calm) => \E x \in DOMAIN trouble : trouble[x] # "flaky"
  BY HarmIsTrouble
<1>3. Calls \subseteq GroupNames
  BY TaskSet DEF Calls, GroupNames
<1>4. (Get(w, DellAttributesPath) # Get(calm, DellAttributesPath)) => DellAttributesPath \in DOMAIN trouble
  <2>1. (Get(calm, DellAttributesPath) /\ ~Get(w, DellAttributesPath)) => DellAttributesPath \in DOMAIN trouble
    BY CalmBest
  <2>2. Get(w, DellAttributesPath) => Get(calm, DellAttributesPath)
    BY <1>1 DEF Alike
  <2> HIDE DEF w, calm
  <2>3. Get(w, DellAttributesPath) \in BOOLEAN /\ Get(calm, DellAttributesPath) \in BOOLEAN
    BY DEF Get
  <2> QED BY <2>1, <2>2, <2>3
<1>5. AlikeFor(w, calm, call)
  <2>1. CASE call = "events"
    <3>1. calm.path.Event = EventPath(w)
      BY <2>1, EventAlone DEF WorldOf
    <3> HIDE DEF w, calm
    <3> QED BY <1>1, <2>1, <3>1 DEF AlikeFor
  <2>2. CASE call # "events"
    BY <2>2, WorldsAlike
  <2> QED BY <2>1, <2>2
<1> HIDE DEF w, calm
<1>6. \/ Agrees(Harmed(w, calm), Refresh(w, call), Refresh(calm, call))
      \/ call = "manager" /\ DellAttributesPath \in DOMAIN trouble
  BY <1>3, <1>4, <1>5, GroupsIsolated
<1> QED BY <1>2, <1>6, FailsIsSeen DEF Agrees, w, calm

\* What the other calls would send does not depend on the path of the event log.
LEMMA OthersUnharmed ==
  ASSUME NEW c, HasPaths(c), NEW e, NEW groups, NEW call \in Calls \ {"events"}
  PROVE  Refresh(WorldOf(c, Calm, groups), call) =
           Refresh(WorldOf(WithEvent(c, e), Calm, groups), call)
<1> DEFINE w    == WorldOf(c, Calm, groups)
           calm == WorldOf(WithEvent(c, e), Calm, groups)
<1>1. AlikeFor(w, calm, call)
  BY WorldsAlike
<1>2. \A r : Get(w, r) <=> Get(calm, r)
  BY CalmBest
<1>3. ~Harmed(w, calm) /\ Get(w, DellAttributesPath) = Get(calm, DellAttributesPath)
  <2> HIDE DEF w, calm
  <2>1. ~Harmed(w, calm)
    BY <1>2 DEF Harmed
  <2>2. Get(w, DellAttributesPath) \in BOOLEAN /\ Get(calm, DellAttributesPath) \in BOOLEAN
    BY DEF Get
  <2> QED BY <1>2, <2>1, <2>2
<1>4. call \in GroupNames
  BY TaskSet DEF Calls, GroupNames
<1> HIDE DEF w, calm
<1>5. Agrees(Harmed(w, calm), Refresh(w, call), Refresh(calm, call))
  BY <1>1, <1>3, <1>4, GroupsIsolated
<1> QED BY <1>3, <1>5 DEF Agrees, w, calm

\* What FaultIsolated says of one call.
Spared(c) ==
  \/ c \in panicked
  \/ c = "manager" /\ DellAttributesPath \in DOMAIN net
  \/ Unharmed(c)
  \/ ~Ok(result[c]) /\ \E r \in DOMAIN net : net[r] # "flaky"

\* It holds from the moment the call ends.
Isolated == Active => \A c \in DOMAIN result : Spared(c)

\* The world of the calls made now.
LEMMA WorldIs == ASSUME NEW trouble, NEW groups PROVE World(trouble, groups) = WorldOf(client, trouble, groups)
BY DEF World, WorldOf

\* A call that has ended remains spared as long as what it is compared with remains.
LEMMA StaysSpared ==
  ASSUME NEW c, Spared(c), UNCHANGED <<machine, client, cfg, net>>,
         result'[c] = result[c], panicked \subseteq panicked'
  PROVE  Spared(c)'
BY DEF Spared, Unharmed, World

\* A step that no call ends with keeps what has been sent.
LEMMA IsolatedKept ==
  ASSUME Isolated, UNCHANGED <<machine, client, cfg, net, result, panicked>>, Active' => Active
  PROVE  Isolated'
BY StaysSpared DEF Isolated

\* When a call returns, it is spared, and so are those before it.
LEMMA FinishIsolated ==
  ASSUME TypeOK, Consistent, Isolated, NEW call \in Calls, Finish(call)
  PROVE  Isolated'
<1> DEFINE w == WorldOf(client, net, cfg)
<1>1. /\ Record(call, Refresh(w, call))
      /\ client' = IF call = "events" THEN WithEvent(client, EventPath(w)) ELSE client
  BY WorldIs DEF Finish, WithEvent
<1>2. /\ call \in running
      /\ UNCHANGED <<config, phase, found, cfg, world, queue, panicked, before, scrapes>>
  BY DEF Finish
<1>3. phase = "scraping" /\ HasPaths(client) /\ call \notin DOMAIN result
  BY <1>2 DEF Consistent, Split, Shaped, TypeOK
<1>4. /\ DOMAIN result' = DOMAIN result \cup {call} /\ result'[call] = Refresh(w, call)
      /\ \A c \in DOMAIN result : result'[c] = result[c]
  BY <1>1, <1>3 DEF Record
<1>5. machine' = machine /\ net' = net /\ cfg' = cfg /\ panicked' = panicked
  BY <1>2 DEF config, world
<1>6. World(Calm, cfg)' = WorldOf(client', Calm, cfg) /\ World(Calm, cfg) = WorldOf(client, Calm, cfg)
  BY <1>5 DEF World, WorldOf, Calm
<1>7. \A c : Unharmed(c)' <=> result'[c] = Refresh(WorldOf(client', Calm, cfg), c)
  BY <1>6 DEF Unharmed
<1>8. Spared(call)'
  <2>1. LET r == Refresh(w, call)
        IN  \/ call = "manager" /\ DellAttributesPath \in DOMAIN net
            \/ r = Refresh(WorldOf(client', Calm, cfg), call)
            \/ ~Ok(r) /\ \E x \in DOMAIN net : net[x] # "flaky"
    BY <1>1, <1>3, CallSpared
  <2> HIDE DEF w
  <2> QED BY <1>4, <1>5, <1>7, <2>1 DEF Spared
<1>9. ASSUME NEW c \in DOMAIN result PROVE Spared(c)'
  <2>1. Spared(c) /\ c \in Calls /\ c # call
    BY <1>3, <1>9 DEF Isolated, Active, TypeOK
  <2>2. CASE call # "events"
    BY <1>1, <1>4, <1>5, <2>1, <2>2, StaysSpared
  <2>3. CASE call = "events"
    <3>1. client' = WithEvent(client, EventPath(w))
      BY <1>1, <2>3
    <3>2. Refresh(WorldOf(client, Calm, cfg), c) = Refresh(WorldOf(client', Calm, cfg), c)
      <4>1. PICK e : client' = WithEvent(client, e)
        BY <3>1
      <4>2. Refresh(WorldOf(client, Calm, cfg), c) = Refresh(WorldOf(WithEvent(client, e), Calm, cfg), c)
        <5>1. PICK k, g : k = client /\ g = cfg
          OBVIOUS
        <5>2. HasPaths(k) /\ c \in Calls \ {"events"}
          BY <1>3, <2>1, <2>3, <5>1
        <5>3. Refresh(WorldOf(k, Calm, g), c) = Refresh(WorldOf(WithEvent(k, e), Calm, g), c)
          BY <5>2, OthersUnharmed
        <5> QED BY <5>1, <5>3
      <4> QED BY <4>1, <4>2
    <3>3. Unharmed(c) => Unharmed(c)'
      BY <1>4, <1>6, <1>7, <3>2 DEF Unharmed
    <3> QED BY <1>4, <1>5, <2>1, <3>3 DEF Spared
  <2> QED BY <2>2, <2>3
<1> QED BY <1>4, <1>8, <1>9 DEF Isolated

\* A panic leaves the others as they were.
LEMMA PanicIsolated ==
  ASSUME TypeOK, Consistent, Isolated, NEW call \in Calls, Panic(call)
  PROVE  Isolated'
<1>1. PICK r : Record(call, r)
  BY DEF Panic
<1>2. /\ call \in running /\ panicked' = panicked \cup {call}
      /\ UNCHANGED <<config, phase, client, found, cfg, net, queue, before, scrapes>>
  BY DEF Panic
<1>3. phase = "scraping" /\ call \notin DOMAIN result
  BY <1>2 DEF Consistent, Split
<1>4. DOMAIN result' = DOMAIN result \cup {call} /\ \A c \in DOMAIN result : result'[c] = result[c]
  BY <1>1, <1>3 DEF Record
<1>5. ASSUME NEW c \in DOMAIN result PROVE Spared(c)'
  BY <1>2, <1>3, <1>4, <1>5, StaysSpared DEF Isolated, Active, config
<1>6. Spared(call)'
  BY <1>2 DEF Spared
<1> QED BY <1>4, <1>5, <1>6 DEF Isolated

\* Every step keeps what has been sent spared.
LEMMA StepIsolated ==
  ASSUME TypeOK, Consistent, Isolated, [Next]_vars
  PROVE  Isolated'
<1>1. CASE Reload
  BY <1>1, IsolatedKept DEF Reload, pool, Active
<1>2. CASE BeginDiscovery
  BY <1>2 DEF BeginDiscovery, Isolated, Active
<1>3. CASE EndDiscovery
  BY <1>3 DEF EndDiscovery, Isolated, Active
<1>4. CASE Collect
  <2>1. DOMAIN result' = {}
    BY <1>4 DEF Collect
  <2> QED BY <2>1 DEF Isolated
<1>5. CASE Submit
  BY <1>5, IsolatedKept DEF Submit, config, world, Active
<1>6. CASE Report
  BY <1>6, IsolatedKept DEF Report, config, world, pool, Active
<1>7. CASE Rest
  BY <1>7 DEF Rest, Isolated, Active
<1>8. CASE UNCHANGED vars
  BY <1>8, IsolatedKept DEF vars, config, world, pool, Active
<1> QED BY <1>1, <1>2, <1>3, <1>4, <1>5, <1>6, <1>7, <1>8, FinishIsolated, PanicIsolated DEF Next, Scraping

\* What goes wrong at a resource, or makes a call panic, costs the calls it goes wrong
\* for and nothing else: every other call has sent just what it sends on a calm day, and
\* a failure is never there without a trouble that retries did not help.
THEOREM TroubleStaysLocal == SafetySpec => []FaultIsolated
<1>1. Init => Isolated
  BY DEF Init, Isolated, Active
<1>2. ASSUME TypeOK, Consistent, Isolated, [Next]_vars PROVE Isolated'
  BY <1>2, StepIsolated
<1>3. Isolated => FaultIsolated
  BY DEF Isolated, FaultIsolated, Spared, Active
<1> QED BY <1>1, <1>2, <1>3, Invariant, PTL DEF SafetySpec

-----------------------------------------------------------------------------
\* What is sent was read, and the voltages are sent once

\* PDUs have no path of the power.
OneKind(c) == c.path.RackPDUs = <<>> \/ c.path.Power = ""

\* A new event log does not change what kind of machine it is.
LEMMA EventOneKind ==
  ASSUME NEW c, HasPaths(c), OneKind(c), NEW e
  PROVE  OneKind(WithEvent(c, e))
<1> DEFINE new == WithEvent(c, e)
<1>1. new.path.RackPDUs = c.path.RackPDUs /\ new.path.Power = c.path.Power
  BY EventAlone
<1> HIDE DEF new
<1>2. OneKind(new)
  BY <1>1 DEF OneKind
<1> QED BY <1>2 DEF new

\* Discovery finds a server or PDUs, never both.
LEMMA DiscoveryOneKind ==
  ASSUME NEW w
  PROVE  findAllEndpoints(w) = NoClient \/ OneKind(findAllEndpoints(w))
<1> DEFINE root == w.doc[Root]
           Fine(c) == c = NoClient \/ OneKind(c)
<1>1. ASSUME NEW base, NEW systemPath, NEW chassis, NEW system, NEW members
      PROVE  Fine(Server(w, base, systemPath, chassis, system, members))
  BY DEF Server, OneKind
<1>2. ASSUME NEW path PROVE Fine(FindPDUs(w, path))
  BY DEF FindPDUs, NoPath, OneKind
<1>3. Fine(FindServer(w, root)) /\ Fine(NoClient)
  BY <1>1 DEF FindServer
<1>4. Fine(findAllEndpoints(w))
  <2> HIDE DEF Fine
  <2> QED BY <1>2, <1>3, Zenon DEF findAllEndpoints
<1> QED BY <1>4

\* What the calls of this scrape have sent is sound.
Honest ==
  /\ \A c \in DOMAIN result : Sound(Kinds(cfg, c), result[c])
  /\ client # NoClient => OneKind(client)

\* A call that ends, one way or the other, leaves what was sent sound.
LEMMA RecordHonest ==
  ASSUME TypeOK, Honest, NEW call \in Calls, NEW r, Record(call, r), cfg' = cfg,
         \/ r = Failed
         \/ r = Refresh(World(net, cfg), call)
         \/ r = Failed \cup Refresh(World(net, cfg), call)
  PROVE  \A c \in DOMAIN result' : Sound(Kinds(cfg', c), result'[c])
<1>1. call \in GroupNames
  BY TaskSet DEF Calls, GroupNames
<1>2. Sound(Kinds(cfg, call), Refresh(World(net, cfg), call))
  <2>1. World(net, cfg).cfg = cfg
    BY DEF World
  <2> QED BY <1>1, <2>1, GroupsHonest
<1>3. Sound(Kinds(cfg, call), Failed)
  BY FailureSound
<1>4. Sound(Kinds(cfg, call), r)
  BY <1>2, <1>3, PartsSound
<1>5. \A c \in DOMAIN result' :
         IF c = call THEN result'[c] = r ELSE c \in DOMAIN result /\ result'[c] = result[c]
  BY DEF Record
<1> QED BY <1>4, <1>5 DEF Honest

\* Every step keeps what has been sent sound.
LEMMA StepHonest ==
  ASSUME TypeOK, Consistent, Honest, [Next]_vars
  PROVE  Honest'
<1>1. ASSUME UNCHANGED <<client, cfg, result>> PROVE Honest'
  BY <1>1 DEF Honest
<1>2. CASE Reload \/ BeginDiscovery \/ Submit \/ Report \/ Rest \/ UNCHANGED vars
  BY <1>1, <1>2 DEF Reload, BeginDiscovery, Submit, Report, Rest, vars, pool
<1>3. CASE EndDiscovery
  BY <1>3, DiscoveryOneKind DEF EndDiscovery, Honest, pool
<1>4. CASE Collect
  <2>1. DOMAIN result' = {} /\ client' = client
    BY <1>4 DEF Collect
  <2> QED BY <2>1 DEF Honest
<1>5. ASSUME NEW call \in Calls, Finish(call) PROVE Honest'
  <2>1. PICK e : client' = IF call = "events" THEN WithEvent(client, e) ELSE client
    BY <1>5 DEF Finish, WithEvent
  <2>2. call \in running /\ cfg' = cfg
    BY <1>5 DEF Finish
  <2>3. HasPaths(client) /\ client # NoClient
    BY <2>2 DEF Consistent, Split, Shaped, TypeOK
  <2>4. OneKind(client')
    BY <2>1, <2>3, EventOneKind DEF Honest
  <2>5. \E r : Record(call, r) /\ r = Refresh(World(net, cfg), call)
    BY <1>5 DEF Finish
  <2> QED BY <2>2, <2>4, <2>5, RecordHonest DEF Honest
<1>6. ASSUME NEW call \in Calls, Panic(call) PROVE Honest'
  <2>1. client' = client /\ cfg' = cfg
    BY <1>6 DEF Panic
  <2>2. \E r \in {Failed, Failed \cup Refresh(World(net, cfg), call)} : Record(call, r)
    BY <1>6 DEF Panic
  <2> QED BY <2>1, <2>2, RecordHonest DEF Honest
<1> QED BY <1>2, <1>3, <1>4, <1>5, <1>6 DEF Next, Scraping

\* It holds in every reachable state.
LEMMA AlwaysHonest == SafetySpec => []Honest
<1>1. Init => Honest
  BY DEF Init, Honest
<1> QED BY <1>1, StepHonest, Invariant, PTL DEF SafetySpec

\* No sample of a scrape has a value for a field that the BMC did not report, but for
\* the metrics that are known for it.
THEOREM NothingInvented == SafetySpec => []AbsentNotZero
<1>1. ASSUME Honest PROVE AbsentNotZero
  <2> SUFFICES ASSUME NEW s \in Sent, s.from \in {"none", "default"} PROVE s.metric \in Zeroed
    BY DEF AbsentNotZero
  <2>1. PICK c \in DOMAIN result : s \in Placed(c, result[c])
    BY DEF Sent
  <2>2. Sound(Kinds(cfg, c), Placed(c, result[c]))
    BY <1>1, PlacedSound DEF Honest
  <2> QED BY <2>1, <2>2 DEF Sound
<1> QED BY <1>1, AlwaysHonest, PTL

\* No two calls of a scrape send the same metric: the series of one group never clash
\* with those of another, not even those of the voltages, which two groups may send.
MetricsApart ==
  Active => \A c, d \in DOMAIN result : c # d =>
    \A s \in result[c], t \in result[d] : s.metric = t.metric => s.metric = "failure"

\* Of the two calls that have the voltages a scrape makes one.
LEMMA OneOfTwo ==
  ASSUME Split, Active
  PROVE  ~ {"power", "voltages"} \subseteq DOMAIN result
<1>1. "power" \in TasksOf(cfg) => "power" \in cfg
  BY DEF TasksOf
<1>2. "voltages" \notin TasksOf(cfg)
  BY TasksFacts
<1> QED BY <1>1, <1>2 DEF Split, Due

\* So it is whatever a reload, trouble with the requests or a panic does meanwhile.
THEOREM GroupsKeepApart == SafetySpec => []MetricsApart
<1>1. ASSUME TypeOK, Consistent, Honest PROVE MetricsApart
  <2> SUFFICES ASSUME NEW c \in DOMAIN result, NEW d \in DOMAIN result, c # d,
                      NEW s \in result[c], NEW t \in result[d], s.metric = t.metric, Active
               PROVE  s.metric = "failure"
    BY DEF MetricsApart
  <2>1. c \in GroupNames /\ d \in GroupNames
    BY <1>1, TaskSet DEF TypeOK, Calls, GroupNames
  <2>2. Kinds(cfg, c) \cap Kinds(cfg, d) = {}
    BY <1>1, <2>1, OneOfTwo, KindsApart DEF Consistent
  <2> QED BY <1>1, <2>2 DEF Honest, Sound
<1> QED BY <1>1, AlwaysHonest, Invariant, PTL

\* On a calm day the call that has the voltages sends them all, and no other voltage.
LEMMA VoltageCall ==
  ASSUME NEW w, w.path.Power # "", Get(w, w.path.Power), "sensors" \in w.cfg,
         NEW call \in {"power", "voltages"}
  PROVE  \E rest : Sound(PowerKinds, rest) /\ Refresh(w, call) = rest \cup emitVoltages(w.doc[w.path.Power])
<1> DEFINE volts == emitVoltages(w.doc[w.path.Power])
<1>1. CASE call = "power"
  <2>1. Refresh(w, call) = RefreshPowerOld(w)
    BY <1>1, RefreshIs DEF RefreshPower
  <2>2. PICK rest : /\ Sound(PowerKinds, rest)
                    /\ RefreshPowerOld(w) =
                         Answer(w, w.path.Power, rest \cup IF "sensors" \in w.cfg THEN volts ELSE {})
    BY PowerOldIs
  <2> HIDE DEF volts
  <2>3. RefreshPowerOld(w) = rest \cup volts
    BY <2>2 DEF Answer
  <2> QED BY <2>1, <2>2, <2>3 DEF volts
<1>2. CASE call = "voltages"
  <2>1. RefreshVoltages(w) = volts
    BY Zenon DEF RefreshVoltages, Fetch
  <2>2. Refresh(w, call) = {} \cup volts
    BY <1>2, <2>1, RefreshIs
  <2> QED BY <2>2, NothingSound
<1> QED BY <1>1, <1>2

\* The call that has the voltages, in this scrape.
VoltageCaller == IF "power" \in cfg THEN "power" ELSE "voltages"

\* It is due if the sensors are enabled; and no other call may send a voltage.
LEMMA CallerDue ==
  ASSUME client.path.RackPDUs = <<>>, "sensors" \in cfg
  PROVE  /\ VoltageCaller \in Due /\ VoltageCaller \in {"power", "voltages"}
         /\ \A c \in Due \ {VoltageCaller} : "voltage" \notin Kinds(cfg, c)
<1>1. "power" \in TasksOf(cfg) <=> "power" \in cfg
  BY TaskSet DEF TasksOf
<1>2. "voltages" \notin TasksOf(cfg)
  BY TasksFacts
<1>3. ASSUME NEW c \in Due \ {VoltageCaller} PROVE "voltage" \notin Kinds(cfg, c)
  <2>1. VoltageCaller # c /\ VoltageCaller \in GroupNames /\ c \in GroupNames
    BY <1>1, <1>2, TaskSet DEF Due, VoltageCaller, GroupNames, TasksOf
  <2>2. c \notin {"power", "voltages"}
    BY <1>1, <1>2 DEF Due, VoltageCaller
  <2>3. Kinds(cfg, VoltageCaller) \cap Kinds(cfg, c) = {}
    BY <2>1, <2>2, KindsApart
  <2>4. "voltage" \in Kinds(cfg, VoltageCaller)
    BY DEF Kinds, VoltageCaller, VoltageKinds
  <2> QED BY <2>3, <2>4
<1> QED BY <1>1, <1>2, <1>3 DEF Due, VoltageCaller

\* If the sensors are enabled and nothing goes wrong, what is sent of voltages is what
\* that call sends.
LEMMA VoltagesFrom ==
  ASSUME Honest, FaultIsolated, phase = "done", DOMAIN result = Due, client # NoClient,
         "sensors" \in cfg, net = Calm, panicked = {},
         client.path.Power \in DOMAIN Fleet[machine] \ {""}
  PROVE  Voltages = Placed(VoltageCaller, emitVoltages(Fleet[machine][client.path.Power]))
<1> DEFINE w     == World(Calm, cfg)
           c0    == VoltageCaller
           volts == emitVoltages(Fleet[machine][client.path.Power])
<1>1. client.path.RackPDUs = <<>>
  BY DEF Honest, OneKind
<1>2. /\ c0 \in DOMAIN result /\ c0 \in {"power", "voltages"}
      /\ \A c \in DOMAIN result \ {c0} : "voltage" \notin Kinds(cfg, c)
  BY <1>1, CallerDue
<1>3. result[c0] = Refresh(w, c0)
  <2>1. DOMAIN net = {}
    BY DEF Calm
  <2> QED BY <1>2, <2>1 DEF FaultIsolated, Unharmed
<1>4. /\ w.path.Power = client.path.Power /\ w.cfg = cfg /\ w.doc = Fleet[machine]
      /\ Get(w, w.path.Power)
  BY CalmBest, WorldIs DEF WorldOf
<1>5. PICK rest : Sound(PowerKinds, rest) /\ result[c0] = rest \cup volts
  <2> HIDE DEF w, c0
  <2>1. \E rest : Sound(PowerKinds, rest) /\ Refresh(w, c0) = rest \cup emitVoltages(w.doc[w.path.Power])
    BY <1>2, <1>4, VoltageCall
  <2> QED BY <1>3, <1>4, <2>1
<1> HIDE DEF w, c0, volts
<1>6. Placed(c0, result[c0]) = Placed(c0, rest) \cup Placed(c0, volts)
  BY <1>5 DEF Placed
<1>7. ASSUME NEW c, NEW sent, NEW kinds, "voltage" \notin kinds, Sound(kinds, sent), NEW s \in Placed(c, sent)
      PROVE  s.metric # "voltage"
  <2>1. Sound(kinds, Placed(c, sent))
    BY <1>7, PlacedSound
  <2>2. s.metric \in kinds \cup {"failure"}
    BY <1>7, <2>1 DEF Sound
  <2> QED BY <1>7, <2>2
<1>8. ASSUME NEW v \in Voltages PROVE v \in Placed(c0, volts)
  <2>1. PICK c \in DOMAIN result : v \in Placed(c, result[c])
    BY DEF Voltages, Sent
  <2>2. v.metric = "voltage"
    BY DEF Voltages
  <2>3. c = c0
    BY <1>2, <1>7, <2>1, <2>2 DEF Honest
  <2>4. "voltage" \notin PowerKinds
    BY DEF PowerKinds
  <2> QED BY <1>5, <1>6, <1>7, <2>1, <2>2, <2>3, <2>4
<1>9. ASSUME NEW v \in Placed(c0, volts) PROVE v \in Voltages
  <2>1. v.metric = "voltage"
    <3> DEFINE d == Fleet[machine][client.path.Power]
    <3>1. Placed(c0, volts) = RailSamples(c0, d)
      BY VoltagesAre DEF volts
    <3>2. \A i : RailSample(c0, d, i).metric = "voltage"
      BY DEF RailSample, VoltSample
    <3> HIDE DEF d
    <3> QED BY <3>1, <3>2 DEF RailSamples
  <2>2. v \in Placed(c0, result[c0])
    BY <1>6
  <2> QED BY <1>2, <2>1, <2>2 DEF Voltages, Sent
<1> QED BY <1>8, <1>9 DEF c0, volts

\* If the sensors are enabled each voltage that the BMC reports is sent once, whether
\* the power is scraped too or not, and if they are not then none is sent.
THEOREM VoltagesReported == SafetySpec => []VoltagesOnce
<1>1. ASSUME TypeOK, Honest, ErrorsCounted, FaultIsolated PROVE VoltagesOnce
  <2> SUFFICES ASSUME phase = "done"
               PROVE  /\ "sensors" \notin cfg => Voltages = {}
                      /\ ("sensors" \in cfg /\ net = Calm /\ panicked = {}
                            /\ client.path.Power \in DOMAIN Fleet[machine] \ {""})
                           => /\ {Rail(v) : v \in Voltages} = Rails
                              /\ \A u, v \in Voltages : Rail(u) = Rail(v) => u = v
    BY DEF VoltagesOnce
  <2>1. DOMAIN result = Due /\ client # NoClient
    BY <1>1 DEF ErrorsCounted, TypeOK
  <2>2. ASSUME "sensors" \notin cfg, NEW v \in Voltages PROVE FALSE
    <3>1. PICK c \in DOMAIN result : v \in Placed(c, result[c]) /\ v.metric = "voltage"
      BY DEF Voltages, Sent
    <3>2. c # "voltages" /\ c \in GroupNames
      BY <2>1, <2>2, TasksFacts, TaskSet DEF Due, TasksOf, GroupNames
    <3>3. Sound(Kinds(cfg, c), Placed(c, result[c]))
      BY <1>1, PlacedSound DEF Honest
    <3>4. Kinds(cfg, c) \cap Kinds(cfg, "voltages") = {}
      BY <2>2, <3>2, KindsApart DEF GroupNames
    <3>5. "voltage" \in Kinds(cfg, "voltages")
      BY DEF Kinds, VoltageKinds
    <3> QED BY <3>1, <3>3, <3>4, <3>5 DEF Sound
  <2>3. ASSUME "sensors" \in cfg, net = Calm, panicked = {},
               client.path.Power \in DOMAIN Fleet[machine] \ {""}
        PROVE  /\ {Rail(v) : v \in Voltages} = Rails
               /\ \A u, v \in Voltages : Rail(u) = Rail(v) => u = v
    <3> DEFINE d == Fleet[machine][client.path.Power]
               sample(i) == RailSample(VoltageCaller, d, i)
    <3>1. Voltages = {sample(i) : i \in RailsOf(d)}
      BY <1>1, <2>1, <2>3, VoltagesFrom, VoltagesAre DEF RailSamples
    <3>2. Rails = RailsOf(d)
      BY DEF Rails, RailsOf
    <3>3. ASSUME NEW i PROVE Rail(sample(i)) = i
      BY DEF Rail, RailSample, VoltSample
    <3> HIDE DEF sample
    <3> QED BY <3>1, <3>2, <3>3
  <2> QED BY <2>2, <2>3
<1> QED BY <1>1, TypeCorrect, AlwaysHonest, FailuresCount, TroubleStaysLocal, PTL

-----------------------------------------------------------------------------
\* No series is sent twice

\* What tells the resources of a group apart is the same for two worlds that differ at
\* most in what goes wrong and in the path of the event log.
LEMMA IdentifiedSame ==
  ASSUME NEW w, NEW v, w.doc = v.doc, w.vendor = v.vendor, w.ilo4 = v.ilo4, w.cfg = v.cfg,
         w.path.Thermal = v.path.Thermal, w.path.ThermalSubsystem = v.path.ThermalSubsystem,
         w.path.Power = v.path.Power, w.path.PowerSubsystem = v.path.PowerSubsystem,
         w.path.Storage = v.path.Storage, w.path.Memory = v.path.Memory,
         w.path.Network = v.path.Network, w.path.Processors = v.path.Processors,
         w.path.RackPDUs = v.path.RackPDUs,
         NEW group, group # "events", Identified(w, group)
  PROVE  Identified(v, group)
<1>1. \A r, links : MembersAt(w, r) = MembersAt(v, r) /\ Existing(w, links) = Existing(v, links)
  BY DEF MembersAt, Existing
<1>2. \A rs : OwnIds(w, rs) <=> OwnIds(v, rs)
  BY DEF OwnIds
<1>3. \A rs : DrivesIdentified(w, rs) <=> DrivesIdentified(v, rs)
  BY DEF DrivesIdentified, DriveId
<1>4. \A d : UnitIdentified(w, d) <=> UnitIdentified(v, d)
  BY <1>1, <1>2, <1>3 DEF UnitIdentified
<1>5. ASSUME NEW ni PROVE PortsIdentified(w, ni) <=> PortsIdentified(v, ni)
  <2> DEFINE at == IF ni.Ports # "" THEN ni.Ports ELSE ni.NetworkPorts
  <2>1. \A r : MembersAt(w, r) = MembersAt(v, r)
    BY <1>1
  <2>2. PortsIdentified(w, ni) <=>
          \A r, s \in MembersAt(w, at) :
            /\ w.doc[r].Id = w.doc[s].Id => r = s \/ (w.vendor = "Dell" /\ w.doc[r].Id = ni.Id)
            /\ w.vendor = "Dell" /\ w.doc[r].Id = s => r = s
    BY DEF PortsIdentified, at
  <2>3. PortsIdentified(v, ni) <=>
          \A r, s \in MembersAt(v, at) :
            /\ v.doc[r].Id = v.doc[s].Id => r = s \/ (v.vendor = "Dell" /\ v.doc[r].Id = ni.Id)
            /\ v.vendor = "Dell" /\ v.doc[r].Id = s => r = s
    BY DEF PortsIdentified, at
  <2> HIDE DEF at
  <2>4. MembersAt(w, at) = MembersAt(v, at)
    BY <2>1
  <2> QED BY <2>2, <2>3, <2>4
<1>6. SensorsIdentified(w) => SensorsIdentified(v)
  BY <1>1, <1>2 DEF SensorsIdentified
<1>7. (VoltagesIdentified(w) => VoltagesIdentified(v)) /\ (PowerIdentified(w) => PowerIdentified(v))
  BY <1>1, <1>2 DEF VoltagesIdentified, PowerIdentified
<1>8. NetworkIdentified(w) => NetworkIdentified(v)
  BY <1>1, <1>2, <1>5 DEF NetworkIdentified
<1>9. StorageIdentified(w) => StorageIdentified(v)
  BY <1>1, <1>2, <1>3, <1>4 DEF StorageIdentified
<1>10. /\ {r \in MembersAt(w, w.path.Memory) : w.doc[r].Id # ""} = {r \in MembersAt(v, v.path.Memory) : v.doc[r].Id # ""}
       /\ MembersAt(w, w.path.Processors) = MembersAt(v, v.path.Processors)
       /\ Existing(w, w.path.RackPDUs) = Existing(v, v.path.RackPDUs)
  BY <1>1
<1> QED BY <1>2, <1>6, <1>7, <1>8, <1>9, <1>10 DEF Identified

\* The event log that is read and the one a client would read on a calm day, as the call
\* leaves it, are the same.
LEMMA EventsReadAlike ==
  ASSUME NEW c, HasPaths(c), NEW trouble, NEW groups, NEW new,
         \/ new = c
         \/ new = WithEvent(c, EventPath(WorldOf(c, trouble, groups))),
         Get(WorldOf(c, trouble, groups), EventPath(WorldOf(c, trouble, groups)))
  PROVE  EventPath(WorldOf(new, Calm, groups)) = EventPath(WorldOf(c, trouble, groups))
<1> DEFINE w    == WorldOf(c, trouble, groups)
           calm == WorldOf(new, Calm, groups)
<1>1. Get(w, LogServicesSel) => Get(calm, LogServicesSel)
  BY CalmBest
<1>2. /\ calm.vendor = w.vendor /\ calm.doc = w.doc
      /\ calm.path.Event = w.path.Event \/ calm.path.Event = EventPath(w)
  BY EventAlone DEF WorldOf
<1>3. LogsSel # LogServicesSel
  BY DEF LogsSel, LogServicesSel
<1>4. Get(w, EventPath(w))
  OBVIOUS
<1> HIDE DEF w, calm
<1>5. EventPath(calm) = EventPath(w)
  BY <1>1, <1>2, <1>3, <1>4 DEF EventPath
<1> QED BY <1>5 DEF w, calm

\* A call sends no series twice, whatever goes wrong, if the BMC tells apart what the call
\* would read on a calm day.
LEMMA CallDistinct ==
  ASSUME NEW c, HasPaths(c), NEW trouble, NEW groups, NEW call \in Calls, NEW new,
         \/ new = c
         \/ call = "events" /\ new = WithEvent(c, EventPath(WorldOf(c, trouble, groups))),
         Identified(WorldOf(new, Calm, groups), call)
  PROVE  \E kinds, labels : Distinct(kinds, labels, Refresh(WorldOf(c, trouble, groups), call))
<1> DEFINE w    == WorldOf(c, trouble, groups)
           calm == WorldOf(new, Calm, groups)
<1>1. call \in GroupNames
  BY TaskSet DEF Calls, GroupNames
<1>2. CASE call # "events"
  <2>1. Identified(w, call)
    BY <1>2, IdentifiedSame DEF WorldOf
  <2> HIDE DEF w
  <2> QED BY <1>1, <2>1, GroupsDistinct DEF w
<1>3. CASE call = "events"
  <2>1. CASE Get(w, EventPath(w))
    <3>1. EventPath(calm) = EventPath(w) /\ calm.doc = w.doc
      BY <2>1, EventsReadAlike DEF WorldOf
    <3>2. Identified(calm, call)
      OBVIOUS
    <3> HIDE DEF w, calm
    <3>3. EventsIdentified(w)
      BY <1>3, <3>1, <3>2 DEF Identified, EventsIdentified
    <3>4. Identified(w, call)
      BY <1>3, <3>3 DEF Identified
    <3> QED BY <1>1, <3>4, GroupsDistinct DEF w
  <2>2. CASE ~Get(w, EventPath(w))
    <3> HIDE DEF w
    <3>1. RefreshEventLog(w) = {} \/ RefreshEventLog(w) = Failed
      BY <2>2, Zenon DEF RefreshEventLog, Fetch
    <3>2. Refresh(w, call) = {} \/ Refresh(w, call) = Failed
      BY <1>3, <3>1, RefreshIs
    <3>3. \E kinds, labels : Distinct(kinds, labels, Refresh(w, call))
      BY <3>2, NothingDistinct
    <3> QED BY <3>3 DEF w
  <2> QED BY <2>1, <2>2
<1> QED BY <1>2, <1>3

\* The BMC tells apart what a call of this scrape reads.
Apart(c) == Identified(World(Calm, cfg), c)

\* Then what the call sent has no series twice, from the moment it ends.
Singular ==
  Active => \A c \in DOMAIN result : Apart(c) => \E kinds, labels : Distinct(kinds, labels, result[c])

\* A call that ends, one way or the other, leaves the others as they are.
LEMMA RecordSingular ==
  ASSUME TypeOK, Consistent, Singular, NEW call \in running, NEW r, Record(call, r),
         UNCHANGED <<machine, cfg, phase>>,
         \/ client' = client
         \/ call = "events" /\ client' = WithEvent(client, EventPath(World(net, cfg))),
         \/ r = Failed
         \/ r = Refresh(World(net, cfg), call)
         \/ r = Failed \cup Refresh(World(net, cfg), call)
  PROVE  Singular'
<1>1. /\ phase = "scraping" /\ call \notin DOMAIN result /\ call \in Calls
      /\ HasPaths(client) /\ client # NoClient
  BY DEF Consistent, Split, Shaped, TypeOK
<1>2. DOMAIN result' = DOMAIN result \cup {call} /\ result'[call] = r
      /\ \A c \in DOMAIN result : result'[c] = result[c]
  BY <1>1 DEF Record
<1>3. World(net, cfg) = WorldOf(client, net, cfg) /\ World(Calm, cfg)' = WorldOf(client', Calm, cfg)
      /\ World(Calm, cfg) = WorldOf(client, Calm, cfg)
  BY DEF World, WorldOf, Calm
<1>4. ASSUME Apart(call)' PROVE \E kinds, labels : Distinct(kinds, labels, r)
  <2>1. Identified(WorldOf(client', Calm, cfg), call)
    BY <1>3, <1>4 DEF Apart
  <2>2. PICK kinds, labels : Distinct(kinds, labels, Refresh(World(net, cfg), call))
    BY <1>1, <1>3, <2>1, CallDistinct
  <2>3. Distinct({}, {}, Failed)
    BY NothingDistinct
  <2>4. Distinct({} \cup kinds, {} \cup labels, Failed \cup Refresh(World(net, cfg), call))
    BY <2>2, <2>3, PartsDistinct
  <2> QED BY <2>2, <2>3, <2>4
<1>5. ASSUME NEW c \in DOMAIN result, Apart(c)' PROVE \E kinds, labels : Distinct(kinds, labels, result[c])
  <2>1. Apart(c)
    <3>1. CASE client' = client
      BY <1>3, <1>5, <3>1 DEF Apart
    <3>2. CASE call = "events" /\ client' = WithEvent(client, EventPath(World(net, cfg)))
      <4> DEFINE w == WorldOf(client', Calm, cfg)
                 v == WorldOf(client, Calm, cfg)
      <4>1. c # "events"
        BY <1>1, <3>2
      <4>2. /\ w.doc = v.doc /\ w.vendor = v.vendor /\ w.ilo4 = v.ilo4 /\ w.cfg = v.cfg
            /\ w.path.Thermal = v.path.Thermal /\ w.path.ThermalSubsystem = v.path.ThermalSubsystem
            /\ w.path.Power = v.path.Power /\ w.path.PowerSubsystem = v.path.PowerSubsystem
            /\ w.path.Storage = v.path.Storage /\ w.path.Memory = v.path.Memory
            /\ w.path.Network = v.path.Network /\ w.path.Processors = v.path.Processors
            /\ w.path.RackPDUs = v.path.RackPDUs
        BY <1>1, <3>2, EventAlone DEF WorldOf
      <4>3. Identified(w, c)
        BY <1>3, <1>5 DEF Apart
      <4> HIDE DEF w, v
      <4>4. Identified(v, c)
        BY <4>1, <4>2, <4>3, IdentifiedSame
      <4> QED BY <1>3, <4>4 DEF Apart, v
    <3> QED BY <3>1, <3>2
  <2> QED BY <1>1, <2>1 DEF Singular, Active
<1> QED BY <1>2, <1>4, <1>5 DEF Singular

\* What a step that no call ends with keeps.
LEMMA SingularKept ==
  ASSUME Singular, UNCHANGED <<machine, client, cfg, result>>, Active' => Active
  PROVE  Singular'
<1>1. World(Calm, cfg)' = World(Calm, cfg)
  BY DEF World, Calm
<1> QED BY <1>1 DEF Singular, Apart

\* Every step keeps what has been sent free of repetitions.
LEMMA StepSingular ==
  ASSUME TypeOK, Consistent, Singular, [Next]_vars
  PROVE  Singular'
<1>1. CASE Reload
  BY <1>1, SingularKept DEF Reload, pool, Active
<1>2. CASE BeginDiscovery
  BY <1>2 DEF BeginDiscovery, Singular, Active
<1>3. CASE EndDiscovery
  BY <1>3 DEF EndDiscovery, Singular, Active
<1>4. CASE Collect
  <2>1. DOMAIN result' = {}
    BY <1>4 DEF Collect
  <2> QED BY <2>1 DEF Singular
<1>5. CASE Submit
  BY <1>5, SingularKept DEF Submit, config, Active
<1>6. CASE Report
  BY <1>6, SingularKept DEF Report, config, pool, Active
<1>7. CASE Rest
  BY <1>7 DEF Rest, Singular, Active
<1>8. CASE UNCHANGED vars
  BY <1>8, SingularKept DEF vars, config, pool, Active
<1>9. ASSUME NEW call \in Calls, Finish(call) PROVE Singular'
  <2>1. Record(call, Refresh(World(net, cfg), call)) /\ call \in running
    BY <1>9 DEF Finish
  <2>2. \/ client' = client
        \/ call = "events" /\ client' = WithEvent(client, EventPath(World(net, cfg)))
    BY <1>9 DEF Finish, WithEvent
  <2>3. UNCHANGED <<machine, cfg, phase>>
    BY <1>9 DEF Finish, config
  <2> QED BY <2>1, <2>2, <2>3, RecordSingular
<1>10. ASSUME NEW call \in Calls, Panic(call) PROVE Singular'
  <2>1. PICK r \in {Failed, Failed \cup Refresh(World(net, cfg), call)} : Record(call, r)
    BY <1>10 DEF Panic
  <2>2. call \in running /\ UNCHANGED <<machine, client, cfg, phase>>
    BY <1>10 DEF Panic, config
  <2> QED BY <2>1, <2>2, RecordSingular
<1> QED BY <1>1, <1>2, <1>3, <1>4, <1>5, <1>6, <1>7, <1>8, <1>9, <1>10 DEF Next, Scraping

\* A scrape sends no series twice if the BMC tells apart what its calls read: then the
\* registry takes all of it, whatever went wrong or was reloaded meanwhile.
THEOREM SeriesSentOnce ==
  SafetySpec => []((\A c \in DOMAIN result : Apart(c)) => SeriesUnique)
<1>1. ASSUME TypeOK, Consistent, Honest, Singular, \A c \in DOMAIN result : Apart(c) PROVE SeriesUnique
  <2> SUFFICES ASSUME phase = "done", NEW s \in Sent, NEW t \in Sent, s.metric = t.metric, s.labels = t.labels
               PROVE  s = t
    BY DEF SeriesUnique
  <2>1. PICK c \in DOMAIN result : s \in Placed(c, result[c])
    BY DEF Sent
  <2>2. PICK d \in DOMAIN result : t \in Placed(d, result[d])
    BY DEF Sent
  <2>3. s.metric # "failure"
    BY DEF Sent
  <2>4. CASE c = d
    <3>1. PICK kinds, labels : Distinct(kinds, labels, result[c])
      BY <1>1 DEF Singular, Active
    <3>2. Distinct(kinds, labels, Placed(c, result[c]))
      BY <3>1, PlacedDistinct
    <3> QED BY <2>1, <2>2, <2>3, <2>4, <3>2 DEF Distinct
  <2>5. CASE c # d
    <3>1. c \in GroupNames /\ d \in GroupNames
      BY <1>1, TaskSet DEF TypeOK, Calls, GroupNames
    <3>2. Kinds(cfg, c) \cap Kinds(cfg, d) = {}
      BY <1>1, <2>5, <3>1, OneOfTwo, KindsApart DEF Consistent, Active
    <3>3. Sound(Kinds(cfg, c), Placed(c, result[c])) /\ Sound(Kinds(cfg, d), Placed(d, result[d]))
      BY <1>1, PlacedSound DEF Honest
    <3> QED BY <2>1, <2>2, <2>3, <3>2, <3>3 DEF Sound
  <2> QED BY <2>4, <2>5
<1>2. Init => Singular
  BY DEF Init, Singular, Active
<1> QED BY <1>1, <1>2, StepSingular, AlwaysHonest, Invariant, PTL DEF SafetySpec

-----------------------------------------------------------------------------
\* What a machine has something for is sent

\* The same machine, as far as discovery does not depend on the configuration.
SamePlace(c, d) ==
  /\ c.vendor = d.vendor /\ c.ilo4 = d.ilo4
  /\ c.path.System = d.path.System /\ c.path.Thermal = d.path.Thermal
  /\ c.path.ThermalSubsystem = d.path.ThermalSubsystem
  /\ c.path.Power = d.path.Power /\ c.path.PowerSubsystem = d.path.PowerSubsystem
  /\ c.path.Storage = d.path.Storage /\ c.path.Memory = d.path.Memory
  /\ c.path.Network = d.path.Network /\ c.path.Processors = d.path.Processors
  /\ c.path.RackPDUs = d.path.RackPDUs

\* And as far as it depends on these groups.
SameFor(c, d, groups) ==
  /\ SamePlace(c, d)
  /\ "manager" \in groups => c.path.Manager = d.path.Manager
  /\ "events" \in groups => c.path.Event = d.path.Event
  /\ "extra" \in groups => c.path.Extra = d.path.Extra

\* Two configurations find the same server, but for the groups that only one enables.
LEMMA ServersAlike ==
  ASSUME NEW w, NEW v, w.doc = v.doc, w.net = v.net,
         NEW root, NEW systemPath, NEW chassis, NEW system, NEW members
  PROVE  SameFor(Server(w, root, systemPath, chassis, system, members),
                 Server(v, root, systemPath, chassis, system, members), w.cfg \cap v.cfg)
<1>1. \A r : Get(w, r) = Get(v, r) /\ Exists(w, r) = Exists(v, r)
  BY DEF Get, Exists, Retried, Outcome
<1>2. "manager" \in w.cfg \cap v.cfg => ManagerPath(w, root, members) = ManagerPath(v, root, members)
  BY <1>1 DEF ManagerPath
<1>3. ASSUME NEW vendor, "events" \in w.cfg \cap v.cfg PROVE EventPathOf(w, vendor) = EventPathOf(v, vendor)
  <2>1. ASSUME NEW a, NEW b PROVE FirstExisting(w, a, b) = FirstExisting(v, a, b)
    BY <1>1 DEF FirstExisting
  <2> QED BY <1>3, <2>1 DEF EventPathOf
<1>4. ASSUME NEW vendor, "extra" \in w.cfg \cap v.cfg PROVE ExtraPath(w, vendor) = ExtraPath(v, vendor)
  BY <1>1, <1>4 DEF ExtraPath
<1> QED BY <1>2, <1>3, <1>4 DEF Server, SameFor, SamePlace

\* So it is for discovery as a whole; whether it succeeds does not depend on them.
LEMMA DiscoveryAlike ==
  ASSUME NEW w, NEW v, w.doc = v.doc, w.net = v.net
  PROVE  \/ findAllEndpoints(w) = NoClient /\ findAllEndpoints(v) = NoClient
         \/ SameFor(findAllEndpoints(w), findAllEndpoints(v), w.cfg \cap v.cfg)
<1> DEFINE Fine(c, d) == (c = NoClient /\ d = NoClient) \/ SameFor(c, d, w.cfg \cap v.cfg)
           root == w.doc[Root]
<1>1. \A r : Get(w, r) = Get(v, r)
  BY DEF Get, Retried, Outcome
<1>2. ASSUME NEW path PROVE Fine(FindPDUs(w, path), FindPDUs(v, path))
  <2>1. FindPDUs(w, path) = FindPDUs(v, path)
    BY <1>1 DEF FindPDUs
  <2>2. ASSUME NEW c PROVE SameFor(c, c, w.cfg \cap v.cfg)
    BY DEF SameFor, SamePlace
  <2> QED BY <2>1, <2>2
<1>3. Fine(FindServer(w, root), FindServer(v, root))
  BY <1>1, ServersAlike DEF FindServer
<1>4. Fine(NoClient, NoClient)
  OBVIOUS
<1>5. Fine(findAllEndpoints(w), findAllEndpoints(v))
  <2> DEFINE racks == w.doc[root.PowerEquipment].RackPDUs
  <2>1. CASE ~Get(w, Root)
    BY <1>1, <1>4, <2>1 DEF findAllEndpoints
  <2>2. CASE Get(w, Root) /\ Has(root, "PowerEquipment") /\ ~Get(w, root.PowerEquipment)
    <3>1. findAllEndpoints(w) = NoClient /\ findAllEndpoints(v) = NoClient
      BY <1>1, <2>2 DEF findAllEndpoints
    <3> QED BY <3>1
  <2>3. CASE Get(w, Root) /\ Has(root, "PowerEquipment") /\ Get(w, root.PowerEquipment) /\ racks # ""
    <3>1. findAllEndpoints(w) = FindPDUs(w, racks) /\ findAllEndpoints(v) = FindPDUs(v, racks)
      BY <1>1, <2>3 DEF findAllEndpoints
    <3> HIDE DEF Fine
    <3> QED BY <1>2, <3>1
  <2>4. CASE Get(w, Root) /\ Has(root, "PowerEquipment") /\ Get(w, root.PowerEquipment) /\ racks = ""
    <3>1. findAllEndpoints(w) = FindServer(w, root) /\ findAllEndpoints(v) = FindServer(v, root)
      BY <1>1, <2>4 DEF findAllEndpoints
    <3> HIDE DEF Fine
    <3> QED BY <1>3, <3>1
  <2>5. CASE /\ Get(w, Root) /\ ~Has(root, "PowerEquipment") /\ Has(root, "PowerDistribution")
             /\ root.PowerDistribution # ""
    <3>1. /\ findAllEndpoints(w) = FindPDUs(w, root.PowerDistribution)
          /\ findAllEndpoints(v) = FindPDUs(v, root.PowerDistribution)
      BY <1>1, <2>5 DEF findAllEndpoints
    <3> HIDE DEF Fine
    <3> QED BY <1>2, <3>1
  <2>6. CASE /\ Get(w, Root) /\ ~Has(root, "PowerEquipment")
             /\ Has(root, "PowerDistribution") => root.PowerDistribution = ""
    <3>1. findAllEndpoints(w) = FindServer(w, root) /\ findAllEndpoints(v) = FindServer(v, root)
      BY <1>1, <2>6 DEF findAllEndpoints
    <3> HIDE DEF Fine
    <3> QED BY <1>3, <3>1
  <2> HIDE DEF Fine
  <2> QED BY <2>1, <2>2, <2>3, <2>4, <2>5, <2>6
<1> QED BY <1>5

\* What a client remains that discovery found as f: only the path of the event log may
\* be corrected, and then it is the one that is read on a calm day anyway.
Remains(c, f) ==
  /\ SamePlace(c, f)
  /\ c.path.Manager = f.path.Manager /\ c.path.Extra = f.path.Extra
  /\ c.path.Event \in {f.path.Event, EventPath(WorldOf(f, Calm, {}))}

\* If nothing went wrong during discovery, the client is what there is to find.
Settled ==
  /\ (phase = "discovering" /\ ~blurred) => net = Calm
  /\ (client # NoClient /\ ~blurred) =>
       Found(machine, known) # NoClient /\ Remains(client, Found(machine, known))

\* The call for the event log leaves it so.
LEMMA EventRemains ==
  ASSUME NEW c, HasPaths(c), NEW f, Remains(c, f), NEW trouble, NEW groups
  PROVE  Remains(WithEvent(c, EventPath(WorldOf(c, trouble, groups))), f)
<1> DEFINE w    == WorldOf(c, trouble, groups)
           calm == WorldOf(f, Calm, {})
<1>1. Get(w, LogServicesSel) => Get(calm, LogServicesSel)
  BY CalmBest
<1>2. /\ w.vendor = calm.vendor /\ w.doc = calm.doc
      /\ w.path.Event = c.path.Event /\ calm.path.Event = f.path.Event
      /\ c.path.Event \in {f.path.Event, EventPath(calm)}
  BY DEF WorldOf, Remains, SamePlace
<1>3. LogsSel # LogServicesSel
  BY DEF LogsSel, LogServicesSel
<1>4. EventPath(w) \in {f.path.Event, EventPath(calm)}
  <2> HIDE DEF w, calm
  <2> QED BY <1>1, <1>2, <1>3 DEF EventPath
<1> HIDE DEF w
<1> QED BY <1>4, EventAlone DEF Remains, SamePlace, w

\* Every step leaves what was found settled.
LEMMA StepSettled ==
  ASSUME TypeOK, Consistent, Settled, [Next]_vars
  PROVE  Settled'
<1>1. ASSUME UNCHANGED <<machine, client, known, blurred>>, phase' = "discovering" => phase = "discovering" /\ net' = net
      PROVE  Settled'
  BY <1>1 DEF Settled, Found, Remains, WorldOf, Calm
<1>2. CASE BeginDiscovery
  <2>1. client' = NoClient /\ blurred' = (net' # Calm) /\ Calm' = Calm
    BY <1>2 DEF BeginDiscovery, TypeOK, Calm
  <2> QED BY <2>1 DEF Settled
<1>3. CASE EndDiscovery
  <2>1. /\ phase = "discovering" /\ phase' \in {"new", "idle"} /\ UNCHANGED <<machine, known, blurred>>
        /\ client' = findAllEndpoints([doc |-> Fleet[machine], net |-> net, cfg |-> known])
    BY <1>3 DEF EndDiscovery, config, found
  <2>2. Found(machine, known)' = Found(machine, known)
    BY <2>1 DEF Found, Calm
  <2>3. ASSUME ~blurred PROVE client' = Found(machine, known)
    <3>1. net = Calm
      BY <2>1, <2>3 DEF Settled
    <3> QED BY <2>1, <3>1 DEF Found, Fleet
  <2>4. ASSUME NEW c PROVE Remains(c, c)
    BY DEF Remains, SamePlace
  <2>5. Remains(client', Found(machine, known)') <=> Remains(client, Found(machine, known))'
    BY <2>1 DEF Remains, WorldOf, Calm
  <2> QED BY <2>1, <2>2, <2>3, <2>4, <2>5 DEF Settled
<1>4. CASE Reload \/ Collect \/ Submit \/ Report \/ Rest \/ UNCHANGED vars \/ \E call \in Calls : Panic(call)
  BY <1>1, <1>4 DEF Reload, Collect, Submit, Report, Rest, Panic, vars, config, found, world
<1>5. ASSUME NEW call \in Calls, Finish(call) PROVE Settled'
  <2>1. /\ call \in running /\ UNCHANGED <<machine, known, blurred, phase, net>>
        /\ client' = client \/ client' = WithEvent(client, EventPath(World(net, cfg)))
    BY <1>5 DEF Finish, config, found, world, WithEvent
  <2>2. CASE client' = client
    BY <1>1, <2>1, <2>2
  <2>3. CASE client' = WithEvent(client, EventPath(World(net, cfg)))
    <3>1. phase = "scraping" /\ client # NoClient /\ HasPaths(client)
      BY <2>1 DEF Consistent, Split, Shaped, TypeOK
    <3>2. Found(machine, known)' = Found(machine, known)
      BY <2>1 DEF Found, Calm
    <3>3. Remains(client, Found(machine, known)) => Remains(client', Found(machine, known))
      BY <2>3, <3>1, EventRemains, WorldIs
    <3>4. Remains(client', Found(machine, known)) <=> Remains(client, Found(machine, known))'
      BY <2>1, <3>2 DEF Remains, WorldOf, Calm
    <3> QED BY <2>1, <3>1, <3>2, <3>3, <3>4 DEF Settled
  <2> QED BY <2>1, <2>2, <2>3
<1> QED BY <1>2, <1>3, <1>4, <1>5 DEF Next, Scraping

\* On a calm day a client that is settled works in a world like that of a client which
\* discovery found with only the group enabled, if that group was enabled too, or if it
\* does not matter.
LEMMA CalmAlike ==
  ASSUME TypeOK, Settled, ~blurred, client # NoClient, NEW group, Found(machine, {group}) # NoClient,
         group \in {"manager", "events", "extra"} => group \in known
  PROVE  LET w == CalmWorld(machine, {group})
             v == WorldOf(client, Calm, cfg)
         IN  /\ Alike(w, v) /\ Alike(v, w)
             /\ \A r : Get(w, r) = Get(v, r)
             /\ group # "power" => AlikeFor(w, v, group)
<1> DEFINE w == CalmWorld(machine, {group})
           v == WorldOf(client, Calm, cfg)
           f == Found(machine, known)
           g == Found(machine, {group})
           day == WorldOf(f, Calm, {})
<1>1. Remains(client, f) /\ f # NoClient
  BY DEF Settled
<1>2. SameFor(f, g, known \cap {group})
  BY <1>1, DiscoveryAlike DEF Found
<1>3. /\ w.doc = v.doc /\ w.net = v.net /\ w.level = v.level
      /\ w.vendor = g.vendor /\ w.ilo4 = g.ilo4 /\ w.path = g.path
      /\ v.vendor = client.vendor /\ v.ilo4 = client.ilo4 /\ v.path = client.path
  BY DEF CalmWorld, WorldOf, Fleet
<1>4. \A r : Get(w, r) = Get(v, r)
  BY <1>3 DEF Get, Retried, Outcome
<1>5. ASSUME group = "events" PROVE EventPath(day) = EventPath(w) /\ f.path.Event = w.path.Event
  <2>1. f.path.Event = g.path.Event /\ f.vendor = g.vendor
    BY <1>2, <1>5 DEF SameFor, SamePlace
  <2>2. /\ day.vendor = w.vendor /\ day.path.Event = w.path.Event /\ day.doc = w.doc /\ day.net = w.net
    BY <1>3, <2>1 DEF WorldOf, CalmWorld, Fleet
  <2>3. Get(day, LogServicesSel) = Get(w, LogServicesSel)
    BY <2>2 DEF Get, Retried, Outcome
  <2> HIDE DEF day, w
  <2>4. EventPath(day) = EventPath(w)
    BY <2>2, <2>3 DEF EventPath
  <2> QED BY <1>3, <2>1, <2>4
<1>6. SamePlace(client, g)
  BY <1>1, <1>2 DEF Remains, SameFor, SamePlace
<1>7. Alike(w, v) /\ Alike(v, w)
  <2> HIDE DEF w, v
  <2> QED BY <1>3, <1>4, <1>6 DEF Alike, SamePlace
<1>8. ASSUME group # "power" PROVE AlikeFor(w, v, group)
  <2>1. group = "manager" => w.path.Manager = v.path.Manager
    BY <1>1, <1>2, <1>3 DEF Remains, SameFor
  <2>2. group = "extra" => w.path.Extra = v.path.Extra
    BY <1>1, <1>2, <1>3 DEF Remains, SameFor
  <2>3. group = "events" => v.path.Event \in {w.path.Event, EventPath(w)}
    BY <1>1, <1>3, <1>5 DEF Remains
  <2> HIDE DEF w, v
  <2> QED BY <1>7, <1>8, <2>1, <2>2, <2>3 DEF AlikeFor
<1> HIDE DEF w, v
<1>9. Alike(w, v) /\ Alike(v, w) /\ (\A r : Get(w, r) = Get(v, r)) /\ (group # "power" => AlikeFor(w, v, group))
  BY <1>4, <1>7, <1>8
<1> QED BY <1>9 DEF w, v

\* So the client sends at least what the machine has for the group.
LEMMA CalmSends ==
  ASSUME TypeOK, Settled, ~blurred, client # NoClient, NEW group \in Calls, Found(machine, {group}) # NoClient,
         group \in {"manager", "events", "extra"} => group \in known
  PROVE  Refresh(CalmWorld(machine, {group}), group) \subseteq Refresh(WorldOf(client, Calm, cfg), group)
<1> DEFINE w == CalmWorld(machine, {group})
           v == WorldOf(client, Calm, cfg)
<1>1. /\ Alike(w, v) /\ Alike(v, w)
      /\ \A r : Get(w, r) = Get(v, r)
      /\ group # "power" => AlikeFor(w, v, group)
  BY CalmAlike
<1>2. group \in GroupNames
  BY TaskSet DEF Calls, GroupNames
<1>3. w.cfg = {group}
  BY DEF CalmWorld
<1> HIDE DEF w, v
<1>4. ASSUME group = "power" PROVE Refresh(w, group) \subseteq Refresh(v, group)
  BY <1>1, <1>3, <1>4, PowerGrows
<1>5. ASSUME group # "power" PROVE Refresh(w, group) \subseteq Refresh(v, group)
  <2>1. ~Harmed(w, v)
    BY <1>1 DEF Harmed
  <2>2. Refresh(w, group) = Refresh(v, group)
    BY <1>1, <1>2, <1>5, <2>1, GroupsIsolated DEF Agrees
  <2> QED BY <2>2
<1>6. Refresh(w, group) \subseteq Refresh(v, group)
  BY <1>4, <1>5
<1> QED BY <1>6 DEF w, v

\* No group that the machine has something for is silently missing from a scrape: if it
\* sends nothing, something goes wrong now or did during discovery, or it was enabled when
\* discovery had settled the paths.
THEOREM NoSilentGap == SafetySpec => []GapExplained
<1>1. ASSUME TypeOK, Isolated, Settled PROVE GapExplained
  <2> SUFFICES ASSUME phase = "done", NEW group \in DOMAIN result \cap Offers[machine],
                      result[group] \subseteq Failed, ~Excused(group)
               PROVE  FALSE
    BY DEF GapExplained
  <2>1. client # NoClient /\ group \in Calls /\ machine \in DOMAIN Docs
    BY <1>1 DEF TypeOK, Fleet
  <2>2. net = Calm /\ ~blurred /\ (group \in {"manager", "events", "extra"} => group \in known)
    BY DEF Excused
  <2>3. result[group] = Refresh(WorldOf(client, Calm, cfg), group)
    <3>1. Spared(group) /\ group \notin panicked /\ DOMAIN net = {}
      BY <1>1, <2>2 DEF Isolated, Active, Excused, Calm
    <3> QED BY <3>1, WorldIs DEF Spared, Unharmed
  <2>4. Found(machine, {group}) # NoClient /\ ~ Refresh(CalmWorld(machine, {group}), group) \subseteq Failed
    BY <2>1, OffersAssumption DEF Offering
  <2>5. Refresh(CalmWorld(machine, {group}), group) \subseteq result[group]
    BY <1>1, <2>1, <2>2, <2>3, <2>4, CalmSends
  <2> QED BY <2>4, <2>5
<1>2. Init => Settled
  BY DEF Init, Settled
<1>3. Init => Isolated
  BY DEF Init, Isolated, Active
<1>4. TypeOK /\ Consistent /\ Isolated /\ [Next]_vars => Isolated'
  BY StepIsolated
<1>5. TypeOK /\ Consistent /\ Settled /\ [Next]_vars => Settled'
  BY StepSettled
<1> QED BY <1>1, <1>2, <1>3, <1>4, <1>5, Invariant, PTL DEF SafetySpec
=============================================================================
