----------------------------- MODULE SnapshotLoop -----------------------------
(***************************************************************************)
(* The collections over all hosts of internal/collector: the background    *)
(* loop (loop.go) that stores a snapshot per cycle for the OTLP reader     *)
(* (snapshot.go, otlp.go), and the requests that race with it on the       *)
(* hosts' collectors: scrapes of all hosts (gather_all.go) and of one.     *)
(*                                                                         *)
(* A cycle runs one call of gatherTarget per host, a limited number at a   *)
(* time.  The collector is taken by its abstract specification,            *)
(* SingleFlight: a call leads a collection or rides along with one; that a *)
(* collector may be replaced under way is the matter of CollectorCache.    *)
(***************************************************************************)
EXTENDS Naturals, FiniteSets

CONSTANTS Targets,    \* the hosts
          Pullers,    \* goroutines that serve /metrics
          Loop,       \* the goroutine of the loop
          Limit,      \* Config.Concurrency, 0 for no limit
          MaxStamp    \* bound: stamps that tell older families from newer

ASSUME LoopAssumption == Loop \notin Pullers

ASSUME NumbersAssumption == Limit \in Nat /\ MaxStamp \in Nat

ASSUME TargetsAssumption == IsFiniteSet(Targets)

Actors == Pullers \cup {Loop}

\* The families of one collector: whether any metric of the BMC's is among them; the
\* collection they are from; the names of the labels put on them since.
Names    == {"identity", "instance"}
Families == [real : BOOLEAN, stamp : 0..MaxStamp, labels : SUBSET Names]

\* None, or only the exporter's own.
Bare == [real |-> FALSE, stamp |-> 0, labels |-> {}]

\* A call of gatherTarget: where it is, the collection it leads, and, for the
\* properties only, whether the one it led or rode gathered anything.
Stages == {"none", "entering", "connecting", "ready", "leading", "riding", "landed"}
Calls  == [at : Stages, stamp : 0..MaxStamp, fresh : BOOLEAN]

NoCall == [at |-> "none", stamp |-> 0, fresh |-> FALSE]

\* What a snapshot says of a target.
Rows == [target : Targets, up : BOOLEAN, families : Families, fresh : BOOLEAN]

VARIABLES hosts,      \* Config.Hosts without "default"
          client,     \* targets that have a client
          stamp,      \* target -> collections begun
          cache,      \* target -> collector.families
          wants,      \* actor -> targets of its cycle
          names,      \* actor -> labels of its cycle
          todo,       \* actor -> targets that runLimited has not started
          call,       \* actor -> target -> call
          rows,       \* actor -> perHost
          phase,      \* actor -> "new", "cycle", "waiting" or "stopped"
          tick,       \* the ticker's channel is full
          cancelled,  \* ctx is
          store,      \* the snapshot
          exited      \* the process has

collectors == <<client, stamp, cache>>
cycle      == <<wants, names, todo>>
process    == <<hosts, cancelled, exited>>

vars == <<collectors, cycle, call, rows, phase, tick, store, process>>

Busy(a) == {t \in Targets : call[a][t].at # "none"}

LimitKept == \A a \in Actors : Limit > 0 => Cardinality(Busy(a)) <= Limit

TypeOK ==
  /\ hosts \subseteq Targets /\ client \subseteq Targets
  /\ stamp \in [Targets -> 0..MaxStamp]
  /\ cache \in [Targets -> Families]
  /\ wants \in [Actors -> SUBSET Targets] /\ names \in [Actors -> SUBSET Names]
  /\ todo \in [Actors -> SUBSET Targets]
  /\ call \in [Actors -> [Targets -> Calls]]
  /\ rows \in [Actors -> SUBSET Rows]
  /\ phase \in [Actors -> {"new", "cycle", "waiting", "stopped"}]
  /\ store \subseteq Rows
  /\ tick \in BOOLEAN /\ cancelled \in BOOLEAN /\ exited \in BOOLEAN
  /\ LimitKept

Init ==
  /\ hosts \in SUBSET Targets
  /\ client = {}
  /\ stamp = [t \in Targets |-> 0]
  /\ cache = [t \in Targets |-> Bare]
  /\ wants = [a \in Actors |-> {}] /\ names = wants /\ todo = wants /\ rows = wants
  /\ call = [a \in Actors |-> [t \in Targets |-> NoCall]]
  /\ phase = [a \in Actors |-> IF a = Loop THEN "new" ELSE "waiting"]
  /\ tick = FALSE /\ cancelled = FALSE /\ exited = FALSE
  /\ store = {}

-----------------------------------------------------------------------------
\* One call of gatherTarget

\* Mutant of labelFamilies: the labels go on the families themselves.
labelInPlace(fams, labels) ==
  [copy |-> [fams EXCEPT !.labels = @ \cup labels], source |-> [fams EXCEPT !.labels = @ \cup labels]]

\* The labels go on a deep copy: the collector's own families stay as they are.
labelFamilies(fams, labels) ==
  [copy |-> [fams EXCEPT !.labels = @ \cup labels], source |-> fams]

\* What a call returns: the copy and up=1 when there is a metric of the BMC's among
\* the families, else just up=0.
Row(a, t, fams, fresh) ==
  IF fams.real
  THEN [target |-> t, up |-> TRUE, families |-> labelFamilies(fams, names[a]).copy, fresh |-> fresh]
  ELSE [target |-> t, up |-> FALSE, families |-> Bare, fresh |-> FALSE]

\* Mutant of Return: a host that cannot be gathered is left out.
ReturnGathered(a, t, fams, fresh) ==
  rows' = [rows EXCEPT ![a] = IF fams.real THEN @ \cup {Row(a, t, fams, fresh)} ELSE @]

\* Appended to perHost under accMu.
Return(a, t, fams, fresh) ==
  rows' = [rows EXCEPT ![a] = @ \cup {Row(a, t, fams, fresh)}]

\* A call moves from one stage to the next.
Move(a, t, from, to) == call[a][t].at = from /\ call' = [call EXCEPT ![a][t].at = to]

End(a, t) == [call EXCEPT ![a][t] = NoCall]

\* Mutant of Submit: no SetLimit.
SubmitUnlimited(a, t) ==
  /\ t \in todo[a]
  /\ todo' = [todo EXCEPT ![a] = @ \ {t}]
  /\ Move(a, t, "none", "entering")
  /\ UNCHANGED <<collectors, wants, names, rows, phase, tick, store, process>>

\* A task of runLimited; the order of the tasks is that of a map.
Submit(a, t) ==
  /\ t \in todo[a]
  /\ Limit > 0 => Cardinality(Busy(a)) < Limit
  /\ todo' = [todo EXCEPT ![a] = @ \ {t}]
  /\ Move(a, t, "none", "entering")
  /\ UNCHANGED <<collectors, wants, names, rows, phase, tick, store, process>>

\* GetCollector; collected.L is held while the client is created.
Enter(a, t) ==
  /\ \A b \in Actors : call[b][t].at # "connecting"
  /\ Move(a, t, "entering", IF t \in client THEN "ready" ELSE "connecting")
  /\ UNCHANGED <<collectors, cycle, rows, phase, tick, store, process>>

Connect(a, t) ==
  /\ Move(a, t, "connecting", "ready")
  /\ client' = client \cup {t}
  /\ UNCHANGED <<stamp, cache, cycle, rows, phase, tick, store, process>>

\* No credentials, or no client: the host is down.
Refuse(a, t) ==
  /\ call[a][t].at = "connecting"
  /\ call' = End(a, t)
  /\ Return(a, t, Bare, FALSE)
  /\ UNCHANGED <<collectors, cycle, phase, tick, store, process>>

Leading(t) == {b \in Actors : call[b][t].at = "leading"}

\* collector.collecting
Collecting(t) == Leading(t) # {}

\* Mutant of Depart: the flag is tested in one section of collected.L and set in another.
DepartLate(a, t) ==
  /\ call[a][t].at = "ready"
  /\ \E n \in {IF stamp[t] < MaxStamp THEN stamp[t] + 1 ELSE MaxStamp} :
       /\ stamp' = [stamp EXCEPT ![t] = n]
       /\ call' = [call EXCEPT ![a][t] = [at |-> "leading", stamp |-> n, fresh |-> FALSE]]
  /\ UNCHANGED <<client, cache, cycle, rows, phase, tick, store, process>>

Depart(a, t) ==
  /\ ~Collecting(t)
  /\ call[a][t].at = "ready"
  /\ \E n \in {IF stamp[t] < MaxStamp THEN stamp[t] + 1 ELSE MaxStamp} :
       /\ stamp' = [stamp EXCEPT ![t] = n]
       /\ call' = [call EXCEPT ![a][t] = [at |-> "leading", stamp |-> n, fresh |-> FALSE]]
  /\ UNCHANGED <<client, cache, cycle, rows, phase, tick, store, process>>

Board(a, t) ==
  /\ Collecting(t)
  /\ Move(a, t, "ready", "riding")
  /\ UNCHANGED <<collectors, cycle, rows, phase, tick, store, process>>

\* Mutant of Disembark: no Broadcast.
DisembarkAlone(a, t, fresh) == call' = End(a, t)

\* The collection ends: its riders get off, its leader returns.
Disembark(a, t, fresh) ==
  call' = [b \in Actors |-> [u \in Targets |->
             CASE u = t /\ b = a -> NoCall
               [] u = t /\ call[b][u].at = "riding" -> [at |-> "landed", stamp |-> 0, fresh |-> fresh]
               [] OTHER -> call[b][u]]]

\* The registry refuses what was gathered (two series are the same): no families.
Fail(a, t) ==
  /\ call[a][t].at = "leading"
  /\ Disembark(a, t, FALSE)
  /\ Return(a, t, Bare, FALSE)
  /\ UNCHANGED <<collectors, cycle, phase, tick, store, process>>

\* The families are cached and labelled; those of a BMC that answers nothing are only
\* the exporter's own.
Land(a, t) ==
  /\ call[a][t].at = "leading"
  /\ \E fams \in {Bare, [real |-> TRUE, stamp |-> call[a][t].stamp, labels |-> {}]} :
       /\ cache' = [cache EXCEPT ![t] =
                      IF fams.real THEN labelFamilies(fams, names[a]).source ELSE fams]
       /\ Disembark(a, t, TRUE)
       /\ Return(a, t, fams, TRUE)
  /\ UNCHANGED <<client, stamp, cycle, phase, tick, store, process>>

\* A rider reads the cache when it wakes, whatever became of the collection it rode.
Wake(a, t) ==
  /\ call[a][t].at = "landed"
  /\ call' = End(a, t)
  /\ Return(a, t, cache[t], call[a][t].fresh)
  /\ cache' = [cache EXCEPT ![t] =
                 IF @.real THEN labelFamilies(@, names[a]).source ELSE @]
  /\ UNCHANGED <<client, stamp, cycle, phase, tick, store, process>>

-----------------------------------------------------------------------------
\* Cycles

Begin(a, targets, labels) ==
  /\ phase' = [phase EXCEPT ![a] = "cycle"]
  /\ wants' = [wants EXCEPT ![a] = targets] /\ todo' = [todo EXCEPT ![a] = targets]
  /\ names' = [names EXCEPT ![a] = labels]
  /\ rows' = [rows EXCEPT ![a] = {}]
  /\ UNCHANGED <<collectors, call, store, process>>

\* The loop collects once at its start, then on ticks.
CollectOnce ==
  /\ \/ phase[Loop] = "new" /\ UNCHANGED tick
     \/ phase[Loop] = "waiting" /\ tick /\ tick' = FALSE
  /\ Begin(Loop, hosts, {"identity"})

\* A scrape of all hosts, or of one, which need not be in the configuration and
\* whose series get no label.
Request(p) ==
  /\ phase[p] = "waiting"
  /\ \/ Begin(p, hosts, {"instance"})
     \/ \E t \in Targets : Begin(p, {t}, {})
  /\ UNCHANGED tick

Over(a) == phase[a] = "cycle" /\ todo[a] = {} /\ Busy(a) = {}

\* A request is answered; the loop swaps the pointer of the store.
Finish(a) ==
  /\ Over(a)
  /\ phase' = [phase EXCEPT ![a] = "waiting"]
  /\ store' = IF a = Loop THEN rows[a] ELSE store
  /\ rows' = [rows EXCEPT ![a] = {}] /\ wants' = [wants EXCEPT ![a] = {}]
  /\ names' = [names EXCEPT ![a] = {}]
  /\ UNCHANGED <<collectors, todo, call, tick, process>>

\* Mutant of Stop: the loop ends only when there is no tick to serve.
StopIdle ==
  /\ phase[Loop] = "waiting" /\ cancelled /\ ~tick
  /\ phase' = [phase EXCEPT ![Loop] = "stopped"]
  /\ UNCHANGED <<collectors, cycle, call, rows, tick, store, process>>

\* With a tick and the cancellation both there, select takes one at random.
Stop ==
  /\ phase[Loop] = "waiting" /\ cancelled
  /\ phase' = [phase EXCEPT ![Loop] = "stopped"]
  /\ UNCHANGED <<collectors, cycle, call, rows, tick, store, process>>

-----------------------------------------------------------------------------
\* The rest of the process

\* The channel of a ticker holds one tick; others are dropped.
Tick ==
  /\ phase[Loop] \notin {"new", "stopped"} /\ ~tick
  /\ tick' = TRUE
  /\ UNCHANGED <<collectors, cycle, call, rows, phase, store, process>>

\* A reload adds hosts and never removes one.
Reload ==
  /\ \E t \in Targets \ hosts : hosts' = hosts \cup {t}
  /\ UNCHANGED <<collectors, cycle, call, rows, phase, tick, store, cancelled, exited>>

Cancel ==
  /\ ~cancelled
  /\ cancelled' = TRUE
  /\ UNCHANGED <<collectors, cycle, call, rows, phase, tick, store, hosts, exited>>

\* The server shuts down within its timeout and nobody waits for the loop.
Exit ==
  /\ cancelled
  /\ exited' = TRUE
  /\ UNCHANGED <<collectors, cycle, call, rows, phase, tick, store, hosts, cancelled>>

Act(a, t) ==
  \/ Submit(a, t) \/ Enter(a, t) \/ Connect(a, t) \/ Refuse(a, t)
  \/ Depart(a, t) \/ Board(a, t) \/ Fail(a, t) \/ Land(a, t) \/ Wake(a, t)

Gathering == \E a \in Actors : Finish(a) \/ \E t \in Targets : Act(a, t)

Next ==
  /\ ~exited
  /\ \/ Gathering \/ CollectOnce \/ Stop
     \/ \E p \in Pullers : ~cancelled /\ Request(p)
     \/ Tick \/ Reload \/ Cancel \/ Exit

SafetySpec == Init /\ [][Next]_vars

\* Goroutines run, every collection ends (by its requests' timeouts at the latest),
\* a mutex is handed to those who wait for it, ticks come, and select does not
\* take the tick for ever when the cancellation is there too.
Fairness ==
  /\ \A a \in Actors : WF_vars(~exited /\ Finish(a))
  /\ \A a \in Actors, t \in Targets :
       WF_vars(~exited /\ Act(a, t)) /\ SF_vars(~exited /\ Enter(a, t))
  /\ WF_vars(~exited /\ CollectOnce) /\ WF_vars(~exited /\ Tick)
  /\ SF_vars(~exited /\ Stop)

Spec == SafetySpec /\ Fairness

-----------------------------------------------------------------------------
\* Properties

\* A cycle ends with one row for each host that was configured when it began, up
\* or down, whatever failed and whoever else was at work on the hosts.
EveryHostOnce ==
  \A a \in Actors : Over(a) =>
    /\ {r.target : r \in rows[a]} = wants[a]
    /\ \A r, s \in rows[a] : r.target = s.target => r = s

\* The families are shared between cycles and requests, the labels are not: what
\* is reported carries those of its own cycle, and the cache never any.
LabelsOwn ==
  /\ \A t \in Targets : cache[t].labels = {}
  /\ \A a \in Actors : \A r \in rows[a] : r.up => r.families.labels = names[a]

\* From one snapshot to the next no host goes back to older families, even if its
\* rows come from collections that requests ran.
SnapshotsAdvance ==
  [][\A old \in store, new \in store' :
       (old.target = new.target /\ old.up /\ new.up) => new.families.stamp >= old.families.stamp]_vars

\* A host that was added is in some later snapshot, unless the process is told to
\* stop: no collection, request or lock holds the loop up for ever.
HostsCovered ==
  \A t \in Targets : t \in hosts ~> (cancelled \/ \E r \in store : r.target = t)

\* Told to stop, the loop stops, if the process has not ended before.
LoopStops == cancelled ~> (exited \/ phase[Loop] = "stopped")

\* What gatherTarget's comment says: a collection that failed yields only up=0.
UpMeansGathered == \A r \in store : r.up => r.fresh

=============================================================================
