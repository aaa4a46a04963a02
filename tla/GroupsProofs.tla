----------------------------- MODULE GroupsProofs -----------------------------
(***************************************************************************)
(* What a metric group sends, for any resources, vendor, configuration and *)
(* number of members.                                                      *)
(*                                                                         *)
(* Trouble with the requests: a call that runs in the world w sends just   *)
(* what it would send in a world calm that differs from w only in          *)
(* answering more of the requests, and in what does not concern the group, *)
(* or else it fails. The argument follows the operators a call is built    *)
(* from (Fetch, Then, Walk); each keeps the relation Agrees between its    *)
(* two results.                                                            *)
(*                                                                         *)
(* Soundness: a call sends its own metrics only, and no value the BMC did  *)
(* not report. Sound says so of any part of a result; it goes up from the  *)
(* emitters through the same operators.                                    *)
(*                                                                         *)
(* Voltages: which of them the two calls that may report them send.        *)
(*                                                                         *)
(* Repetitions: a call sends no metric with the same labels twice if the   *)
(* BMC tells its resources apart where Redfish says so (Identified).       *)
(* Distinct says so of any part of a result.                               *)
(***************************************************************************)
EXTENDS Groups, WellFoundedInduction, TLAPS

\* The failure a call sends is a series like any other.
Fails(sent) == \E s \in sent : "metric" \in DOMAIN s /\ s.metric = "failure"

\* What was sent in a world is what another world would make of it, unless the
\* worlds differ and the call fails.
Agrees(differ, x, y) == x = y \/ (differ /\ Fails(x))

\* The requests that calm answers and w does not.
Harmed(w, calm) == \E r : Get(calm, r) /\ ~Get(w, r)

\* The worlds differ only in what is answered, where calm is no worse, in the groups that
\* are enabled, and in the paths that discovery looks for only when they are.
Alike(w, calm) ==
  /\ w.doc = calm.doc /\ w.level = calm.level
  /\ w.vendor = calm.vendor /\ w.ilo4 = calm.ilo4
  /\ w.path.System = calm.path.System /\ w.path.Thermal = calm.path.Thermal
  /\ w.path.ThermalSubsystem = calm.path.ThermalSubsystem
  /\ w.path.Power = calm.path.Power /\ w.path.PowerSubsystem = calm.path.PowerSubsystem
  /\ w.path.Storage = calm.path.Storage /\ w.path.Memory = calm.path.Memory
  /\ w.path.Network = calm.path.Network /\ w.path.Processors = calm.path.Processors
  /\ w.path.RackPDUs = calm.path.RackPDUs
  /\ \A r : Get(w, r) => Get(calm, r)

\* They do not differ in that either, as far as the group goes; the call for the event log
\* may have corrected its path.
AlikeFor(w, calm, group) ==
  /\ Alike(w, calm)
  /\ group = "power" => w.cfg = calm.cfg
  /\ group = "manager" => w.path.Manager = calm.path.Manager
  /\ group = "extra" => w.path.Extra = calm.path.Extra
  /\ group = "events" => calm.path.Event \in {w.path.Event, EventPath(w)}

-----------------------------------------------------------------------------
\* Failures

\* A failure is seen as one.
LEMMA FailsIsSeen == ASSUME NEW sent, Fails(sent) PROVE ~Ok(sent)
BY DEF Fails, Ok

\* The result of a request that failed is a failure.
LEMMA FailedFails == Fails(Failed)
BY DEF Fails, Failed, Info, Always

\* Being sent from further up does not hide a failure.
LEMMA PlacedFails == ASSUME NEW i, NEW sent, Fails(sent) PROVE Fails(Placed(i, sent))
<1>1. PICK s \in sent : "metric" \in DOMAIN s /\ s.metric = "failure"
  BY DEF Fails
<1> DEFINE t == [s EXCEPT !.at = <<i>> \o @]
<1>2. t \in Placed(i, sent)
  BY DEF Placed
<1>3. "metric" \in DOMAIN t /\ t.metric = "failure"
  BY <1>1
<1> QED BY <1>2, <1>3 DEF Fails

\* A failure among several results is one of the whole.
LEMMA UnionFails == ASSUME NEW a, NEW b, Fails(a) \/ Fails(b) PROVE Fails(a \cup b)
BY DEF Fails

-----------------------------------------------------------------------------
\* The operators that results are put together with

\* Then, without the binding of its first argument.
LEMMA ThenIs ==
  ASSUME NEW a, NEW b
  PROVE  Then(a, b) = a \cup IF Ok(a) THEN b ELSE {}
BY Zenon DEF Then, With

\* Two calls in a row agree if each does.
LEMMA ThenAgrees ==
  ASSUME NEW differ, NEW a, NEW a2, NEW b, NEW b2, Agrees(differ, a, a2), Agrees(differ, b, b2)
  PROVE  Agrees(differ, Then(a, b), Then(a2, b2))
<1>1. CASE differ /\ Fails(a)
  BY <1>1, ThenIs, UnionFails DEF Agrees
<1>2. CASE a = a2 /\ b = b2
  BY <1>2 DEF Agrees
<1>3. CASE a = a2 /\ differ /\ Fails(b) /\ Ok(a)
  BY <1>3, ThenIs, UnionFails DEF Agrees
<1>4. CASE a = a2 /\ ~Ok(a)
  BY <1>4, ThenIs DEF Agrees
<1> QED BY <1>1, <1>2, <1>3, <1>4 DEF Agrees

\* So it is for two parts of one result.
LEMMA UnionAgrees ==
  ASSUME NEW differ, NEW a, NEW a2, NEW b, NEW b2, Agrees(differ, a, a2), Agrees(differ, b, b2)
  PROVE  Agrees(differ, a \cup b, a2 \cup b2)
BY UnionFails DEF Agrees

\* The places of a list are natural numbers, whatever the list.
LEMMA FirstsNat == ASSUME NEW links PROVE Firsts(links) \subseteq Nat
BY DEF Firsts

\* Of the places of a list with some property there is a first one.
LEMMA FirstPlace ==
  ASSUME NEW S, S \subseteq Nat, S # {}
  PROVE  \E i \in S : \A j \in S : ~(j < i)
<1>1. PICK i \in S : \A j \in S : <<j, i>> \notin OpToRel(<, Nat)
  BY NatLessThanWellFounded, WFMin
<1> QED BY <1>1 DEF OpToRel

\* The visits of a walk, as a function of the place.
Stops(links, sent) == {[at |-> i, sent |-> sent[i]] : i \in Firsts(links)}

\* Those up to place k.
UpTo(k, links, sent) == {[at |-> i, sent |-> sent[i]] : i \in {j \in Firsts(links) : j <= k}}

\* A walk ends with the first member that fails.
LEMMA WalkEnds ==
  ASSUME NEW links, NEW sent, NEW k \in Firsts(links), ~Ok(sent[k]),
         \A j \in Firsts(links) : j < k => Ok(sent[j])
  PROVE  Reached(Stops(links, sent)) = UpTo(k, links, sent)
<1> DEFINE stop(i) == [at |-> i, sent |-> sent[i]]
           visits == Stops(links, sent)
<1>1. \A i \in Firsts(links) : i \in Nat
  BY FirstsNat
<1>2. ASSUME NEW v \in Reached(visits)
      PROVE  \E i \in Firsts(links) : i <= k /\ v = stop(i)
  <2>1. PICK i \in Firsts(links) : v = stop(i)
    BY <1>2 DEF Reached, Stops
  <2>2. stop(k) \in visits /\ stop(k).at = k /\ ~Ok(stop(k).sent)
    BY DEF Stops
  <2>3. ~(k < v.at)
    BY <1>2, <2>2 DEF Reached
  <2> QED BY <1>1, <2>1, <2>3
<1>3. ASSUME NEW i \in Firsts(links), i <= k
      PROVE  stop(i) \in Reached(visits)
  <2>1. stop(i) \in visits
    BY DEF Stops
  <2>2. ASSUME NEW u \in visits, u.at < stop(i).at PROVE Ok(u.sent)
    <3>1. PICK j \in Firsts(links) : u = stop(j)
      BY DEF Stops
    <3>2. j < k
      BY <1>1, <1>3, <2>2, <3>1
    <3> QED BY <3>1, <3>2
  <2> QED BY <2>1, <2>2 DEF Reached
<1>4. Reached(visits) \subseteq UpTo(k, links, sent)
  BY <1>2 DEF UpTo
<1>5. UpTo(k, links, sent) \subseteq Reached(visits)
  BY <1>3 DEF UpTo
<1> QED BY <1>4, <1>5

\* Two walks over the same links agree if the visits do.
LEMMA WalkAgrees ==
  ASSUME NEW differ, NEW links, NEW sent, NEW sent2,
         \A i \in Firsts(links) : Agrees(differ, sent[i], sent2[i])
  PROVE  Agrees(differ, Gathered(Reached(Stops(links, sent))), Gathered(Reached(Stops(links, sent2))))
<1> DEFINE Upset == {i \in Firsts(links) : ~Ok(sent[i])}
<1>1. CASE \A i \in Firsts(links) : sent[i] = sent2[i]
  <2>1. Stops(links, sent) = Stops(links, sent2)
    BY <1>1 DEF Stops
  <2> QED BY <2>1 DEF Agrees
<1>2. CASE ~(\A i \in Firsts(links) : sent[i] = sent2[i])
  <2>1. PICK i \in Firsts(links) : differ /\ Fails(sent[i])
    BY <1>2 DEF Agrees
  <2>2. i \in Upset /\ Upset \subseteq Nat
    BY <2>1, FailsIsSeen, FirstsNat
  <2>3. PICK k \in Upset : \A j \in Upset : ~(j < k)
    BY <2>2, FirstPlace
  <2>4. k \in Firsts(links) /\ ~Ok(sent[k]) /\ \A j \in Firsts(links) : j < k => Ok(sent[j])
    BY <2>3
  <2>5. Reached(Stops(links, sent)) = UpTo(k, links, sent)
    BY <2>4, WalkEnds
  <2>6. CASE Fails(sent[k])
    <3>1. [at |-> k, sent |-> sent[k]] \in Reached(Stops(links, sent))
      BY <2>4, <2>5, FirstsNat DEF UpTo
    <3>2. Placed(k, sent[k]) \subseteq Gathered(Reached(Stops(links, sent)))
      BY <3>1 DEF Gathered
    <3>3. Fails(Gathered(Reached(Stops(links, sent))))
      BY <2>6, <3>2, PlacedFails DEF Fails
    <3> QED BY <2>1, <3>3 DEF Agrees
  <2>7. CASE sent[k] = sent2[k]
    <3>1. \A j \in Firsts(links) : j <= k => sent[j] = sent2[j]
      BY <2>4, <2>7, FirstsNat, FailsIsSeen DEF Agrees
    <3>2. k \in Firsts(links) /\ ~Ok(sent2[k]) /\ \A j \in Firsts(links) : j < k => Ok(sent2[j])
      BY <2>4, <2>7, <3>1, FirstsNat
    <3>3. Reached(Stops(links, sent2)) = UpTo(k, links, sent2)
      BY <3>2, WalkEnds
    <3>4. Reached(Stops(links, sent)) = Reached(Stops(links, sent2))
      BY <2>5, <3>1, <3>3 DEF UpTo
    <3> QED BY <3>4 DEF Agrees
  <2> QED BY <2>4, <2>6, <2>7 DEF Agrees
<1> QED BY <1>1, <1>2

-----------------------------------------------------------------------------
\* Requests


Answer(w, r, sent) == IF Get(w, r) THEN sent ELSE Failed

\* A request agrees if what is made of its answer does.
LEMMA AnswerAgrees ==
  ASSUME NEW w, NEW calm, Alike(w, calm), NEW r, NEW x, NEW y,
         Get(w, r) => Agrees(Harmed(w, calm), x, y)
  PROVE  Agrees(Harmed(w, calm), Answer(w, r, x), Answer(calm, r, y))
<1>1. CASE Get(w, r)
  BY <1>1 DEF Alike, Answer
<1>2. CASE ~Get(w, r) /\ Get(calm, r)
  BY <1>2, FailedFails DEF Agrees, Harmed, Answer
<1>3. CASE ~Get(w, r) /\ ~Get(calm, r)
  BY <1>3 DEF Agrees, Answer
<1> QED BY <1>1, <1>2, <1>3

\* In particular if the answer is taken as it is.
LEMMA AnswerSame ==
  ASSUME NEW w, NEW calm, Alike(w, calm), NEW r, NEW x
  PROVE  Agrees(Harmed(w, calm), Answer(w, r, x), Answer(calm, r, x))
<1>1. Agrees(Harmed(w, calm), x, x)
  BY DEF Agrees
<1> QED BY <1>1, AnswerAgrees

\* The links of the collection at r, and a walk over them whose visits are given as a
\* function of the place.
Linked(w, r) == Members(<<>>, w.doc[r])

Tour(links, sent) == Gathered(Reached(Stops(links, sent)))

Toured(w, r, sent) == Answer(w, r, Tour(Linked(w, r), sent))

\* Collections agree if the visits to their members do.
LEMMA TouredAgrees ==
  ASSUME NEW w, NEW calm, Alike(w, calm), NEW r, NEW sent, NEW sent2,
         \A i \in Firsts(Linked(w, r)) : Agrees(Harmed(w, calm), sent[i], sent2[i])
  PROVE  Agrees(Harmed(w, calm), Toured(w, r, sent), Toured(calm, r, sent2))
<1>1. Linked(w, r) = Linked(calm, r)
  BY DEF Alike, Linked
<1>2. Agrees(Harmed(w, calm), Tour(Linked(w, r), sent), Tour(Linked(w, r), sent2))
  BY WalkAgrees DEF Tour
<1> QED BY <1>1, <1>2, AnswerAgrees DEF Toured

-----------------------------------------------------------------------------
\* The metric groups

\* The processors.
LEMMA ProcessorsAgree ==
  ASSUME NEW w, NEW calm, Alike(w, calm)
  PROVE  Agrees(Harmed(w, calm), RefreshProcessors(w), RefreshProcessors(calm))
<1> DEFINE Cpu(v, d) ==
             LET state == IF v.vendor = "Hpe" /\ v.ilo4 /\ d.State = "" /\ d.Health # "none"
                          THEN "Enabled" ELSE d.State
             IN  IF d.ProcessorType = "CPU" /\ state = "Enabled" THEN CpuSeries(d) ELSE {}
           Visit(v, r) == Answer(v, r, Cpu(v, v.doc[r]))
           links(v) == Linked(v, v.path.Processors)
           Sent(v) == [i \in Firsts(links(v)) |-> Visit(v, links(v)[i])]
<1>1. ASSUME NEW v PROVE RefreshProcessors(v) = Toured(v, v.path.Processors, Sent(v))
  BY Zenon DEF RefreshProcessors, Collection, Fetch, Walk, With, Visits, Toured, Tour, Stops, Answer, Linked
<1>2. ASSUME NEW r PROVE Agrees(Harmed(w, calm), Visit(w, r), Visit(calm, r))
  <2>1. Cpu(w, w.doc[r]) = Cpu(calm, calm.doc[r])
    BY DEF Alike
  <2> HIDE DEF Cpu
  <2> QED BY <2>1, AnswerAgrees DEF Agrees
<1> HIDE DEF Visit
<1>3. links(w) = links(calm) /\ w.path.Processors = calm.path.Processors
  BY DEF Alike, Linked
<1>4. \A i \in Firsts(links(w)) : Agrees(Harmed(w, calm), Sent(w)[i], Sent(calm)[i])
  BY <1>2, <1>3
<1> HIDE DEF Sent
<1> QED BY <1>1, <1>3, <1>4, TouredAgrees

\* The sensors, as newer machines report them.
LEMMA SensorsNewAgree ==
  ASSUME NEW w, NEW calm, Alike(w, calm)
  PROVE  Agrees(Harmed(w, calm), RefreshSensorsNew(w), RefreshSensorsNew(calm))
<1> DEFINE Visit(v, r) == Answer(v, r, ThermalFan(v.doc[r]))
           Sent(v, r) == [i \in Firsts(Linked(v, r)) |-> Visit(v, Linked(v, r)[i])]
           Fans(v, d) == IF d.Fans = "" THEN {} ELSE Toured(v, d.Fans, Sent(v, d.Fans))
           Readings(v, m) == Rows(m.TemperatureReadings, LAMBDA n, t : ThermalReading(v, n, t))
           Metrics(v, d) == IF d.ThermalMetrics = "" THEN {}
                            ELSE Answer(v, d.ThermalMetrics, Readings(v, v.doc[d.ThermalMetrics]))
           Both(v, d) == Then(Fans(v, d), Metrics(v, d))
<1>1. ASSUME NEW v
      PROVE  RefreshSensorsNew(v) =
               Answer(v, v.path.ThermalSubsystem, Both(v, v.doc[v.path.ThermalSubsystem]))
  BY Zenon DEF RefreshSensorsNew, Collection, Fetch, Walk, With, Visits, Toured, Tour, Stops, Answer, Linked
<1>2. ASSUME NEW d PROVE Agrees(Harmed(w, calm), Fans(w, d), Fans(calm, d))
  <2>1. ASSUME NEW r PROVE Agrees(Harmed(w, calm), Visit(w, r), Visit(calm, r))
    BY AnswerAgrees DEF Agrees, Alike
  <2>2. Linked(w, d.Fans) = Linked(calm, d.Fans)
    BY DEF Alike, Linked
  <2> HIDE DEF Visit
  <2>3. \A i \in Firsts(Linked(w, d.Fans)) :
           Agrees(Harmed(w, calm), Sent(w, d.Fans)[i], Sent(calm, d.Fans)[i])
    BY <2>1, <2>2
  <2> HIDE DEF Sent
  <2>4. Agrees(Harmed(w, calm), Toured(w, d.Fans, Sent(w, d.Fans)), Toured(calm, d.Fans, Sent(calm, d.Fans)))
    BY <2>3, TouredAgrees
  <2> QED BY <2>4 DEF Agrees
<1>3. ASSUME NEW d PROVE Agrees(Harmed(w, calm), Metrics(w, d), Metrics(calm, d))
  <2>1. ASSUME NEW n, NEW t PROVE ThermalReading(w, n, t) = ThermalReading(calm, n, t)
    BY DEF ThermalReading, ReadingName, Alike
  <2>2. ASSUME NEW m PROVE Readings(w, m) = Readings(calm, m)
    BY <2>1 DEF Rows
  <2>3. w.doc = calm.doc
    BY DEF Alike
  <2> DEFINE x == Readings(w, w.doc[d.ThermalMetrics])
  <2>4. x = Readings(calm, calm.doc[d.ThermalMetrics])
    BY <2>2, <2>3
  <2> HIDE DEF Readings, x
  <2>5. Agrees(Harmed(w, calm), Answer(w, d.ThermalMetrics, x), Answer(calm, d.ThermalMetrics, x))
    BY AnswerSame
  <2> QED BY <2>4, <2>5 DEF Agrees, x
<1> HIDE DEF Fans, Metrics
<1>4. w.path.ThermalSubsystem = calm.path.ThermalSubsystem /\ w.doc = calm.doc
  BY DEF Alike
<1>5. ASSUME NEW d PROVE Agrees(Harmed(w, calm), Both(w, d), Both(calm, d))
  BY <1>2, <1>3, ThenAgrees
<1> HIDE DEF Both
<1> QED BY <1>1, <1>4, <1>5, AnswerAgrees

\* The sensors, in either form.
LEMMA SensorsAgree ==
  ASSUME NEW w, NEW calm, Alike(w, calm)
  PROVE  Agrees(Harmed(w, calm), RefreshSensors(w), RefreshSensors(calm))
<1>1. ASSUME NEW v
      PROVE  RefreshSensorsOld(v) =
               Answer(v, v.path.Thermal, Rows(v.doc[v.path.Thermal].Temperatures, OldTemperature)
                                           \cup Rows(v.doc[v.path.Thermal].Fans, OldFan))
  BY Zenon DEF RefreshSensorsOld, Fetch, Answer
<1>2. w.path.Thermal = calm.path.Thermal /\ w.path.ThermalSubsystem = calm.path.ThermalSubsystem
      /\ w.doc = calm.doc
  BY DEF Alike
<1>3. Agrees(Harmed(w, calm), RefreshSensorsOld(w), RefreshSensorsOld(calm))
  BY <1>1, <1>2, AnswerSame
<1> QED BY <1>2, <1>3, SensorsNewAgree DEF RefreshSensors, Agrees

\* The voltages, asked for on their own.
LEMMA VoltagesAgree ==
  ASSUME NEW w, NEW calm, Alike(w, calm)
  PROVE  Agrees(Harmed(w, calm), RefreshVoltages(w), RefreshVoltages(calm))
<1>1. ASSUME NEW v
      PROVE  RefreshVoltages(v) = IF v.path.Power = "" THEN {}
                                  ELSE Answer(v, v.path.Power, emitVoltages(v.doc[v.path.Power]))
  BY Zenon DEF RefreshVoltages, Fetch, Answer
<1>2. w.path.Power = calm.path.Power /\ w.doc = calm.doc
  BY DEF Alike
<1>3. Agrees(Harmed(w, calm), Answer(w, w.path.Power, emitVoltages(w.doc[w.path.Power])),
                              Answer(calm, w.path.Power, emitVoltages(w.doc[w.path.Power])))
  BY AnswerSame
<1> QED BY <1>1, <1>2, <1>3 DEF Agrees

\* What the resource of older machines says of the power, and of the voltages.
PowerOnly(v, d) ==
  Rows(d.PowerSupplies, LAMBDA n, p : PowerSupplyRow(v, d, n, p))
    \cup ChassisPower(v, d)
    \cup Rows(d.PowerControl, LAMBDA n, pc : PowerControlRow(v, d, n))

VoltsToo(v, d) == IF "sensors" \in v.cfg THEN emitVoltages(d) ELSE {}

LEMMA PowerOldParts ==
  ASSUME NEW v
  PROVE  RefreshPowerOld(v) = Answer(v, v.path.Power, PowerOnly(v, v.doc[v.path.Power])
                                                        \cup VoltsToo(v, v.doc[v.path.Power]))
BY Zenon DEF RefreshPowerOld, Fetch, Answer, PowerOnly, VoltsToo

\* What it says of the power is the same in both worlds.
LEMMA PowerOnlySame ==
  ASSUME NEW w, NEW calm, Alike(w, calm), NEW d
  PROVE  PowerOnly(w, d) = PowerOnly(calm, d)
<1> DEFINE Supplies(v) == Rows(d.PowerSupplies, LAMBDA n, p : PowerSupplyRow(v, d, n, p))
           Controls(v) == Rows(d.PowerControl, LAMBDA n, pc : PowerControlRow(v, d, n))
<1>1. w.vendor = calm.vendor /\ w.ilo4 = calm.ilo4
  BY DEF Alike
<1>2. Supplies(w) = Supplies(calm)
  <2>1. ASSUME NEW n, NEW p PROVE PowerSupplyRow(w, d, n, p) = PowerSupplyRow(calm, d, n, p)
    <3>1. InputWatts(w, d, p) = InputWatts(calm, d, p)
      BY <1>1 DEF InputWatts
    <3> QED BY <1>1, <3>1 DEF PowerSupplyRow
  <2> QED BY <2>1 DEF Rows
<1>3. Controls(w) = Controls(calm)
  <2>1. ASSUME NEW n PROVE PowerControlRow(w, d, n) = PowerControlRow(calm, d, n)
    <3>1. ControlOf(w, d, n) = ControlOf(calm, d, n)
      BY <1>1 DEF ControlOf
    <3> QED BY <3>1 DEF PowerControlRow
  <2> QED BY <2>1 DEF Rows
<1>4. ChassisPower(w, d) = ChassisPower(calm, d)
  BY <1>1 DEF ChassisPower
<1>5. ASSUME NEW v PROVE PowerOnly(v, d) = Supplies(v) \cup ChassisPower(v, d) \cup Controls(v)
  BY Zenon DEF PowerOnly
<1> HIDE DEF Supplies, Controls
<1> QED BY <1>2, <1>3, <1>4, <1>5

\* The power, as older machines report it.
LEMMA PowerOldAgrees ==
  ASSUME NEW w, NEW calm, Alike(w, calm), w.cfg = calm.cfg
  PROVE  Agrees(Harmed(w, calm), RefreshPowerOld(w), RefreshPowerOld(calm))
<1>1. w.path.Power = calm.path.Power /\ w.doc = calm.doc
  BY DEF Alike
<1>2. ASSUME NEW d PROVE VoltsToo(w, d) = VoltsToo(calm, d)
  BY DEF VoltsToo
<1> DEFINE All(v) == PowerOnly(v, v.doc[v.path.Power]) \cup VoltsToo(v, v.doc[v.path.Power])
           x      == All(w)
<1>3. All(calm) = x
  <2>1. \A d : PowerOnly(w, d) = PowerOnly(calm, d)
    BY PowerOnlySame
  <2> QED BY <1>1, <1>2, <2>1
<1>4. \A v : RefreshPowerOld(v) = Answer(v, v.path.Power, All(v))
  BY PowerOldParts
<1> HIDE DEF All
<1>5. RefreshPowerOld(w) = Answer(w, w.path.Power, x) /\ RefreshPowerOld(calm) = Answer(calm, w.path.Power, x)
  BY <1>1, <1>3, <1>4
<1> HIDE DEF x
<1> QED BY <1>5, AnswerSame

\* The power, as older machines report it, with the voltages and without them.
LEMMA PowerOldGrows ==
  ASSUME NEW w, NEW calm, Alike(w, calm), Alike(calm, w), "sensors" \notin w.cfg
  PROVE  RefreshPowerOld(w) \subseteq RefreshPowerOld(calm)
<1>1. w.path.Power = calm.path.Power /\ w.doc = calm.doc /\ \A r : Get(w, r) <=> Get(calm, r)
  BY DEF Alike
<1>2. ASSUME NEW d PROVE VoltsToo(w, d) = {}
  BY DEF VoltsToo
<1> QED BY <1>1, <1>2, PowerOldParts, PowerOnlySame DEF Answer

\* The power, as newer machines report it.
LEMMA PowerNewAgrees ==
  ASSUME NEW w, NEW calm, Alike(w, calm)
  PROVE  Agrees(Harmed(w, calm), RefreshPowerNew(w), RefreshPowerNew(calm))
<1> DEFINE Base(p)       == PowerSupplyHealth(p.Id, p.Health) \cup PowerSupplyCapacity(p.Id, p.PowerCapacityWatts)
           Metrics(v, p) == IF p.Metrics = "" THEN {}
                            ELSE Answer(v, p.Metrics, SupplyMetrics(p.Id, v.doc[p.Metrics]))
           Supply(v, p)  == Then(Base(p), Metrics(v, p))
           Visit(v, r)   == Answer(v, r, Supply(v, v.doc[r]))
           Sent(v, r)    == [i \in Firsts(Linked(v, r)) |-> Visit(v, Linked(v, r)[i])]
           All(v, d)     == IF d.PowerSupplies = "" THEN {}
                            ELSE Toured(v, d.PowerSupplies, Sent(v, d.PowerSupplies))
<1>1. ASSUME NEW v
      PROVE  RefreshPowerNew(v) =
               Answer(v, v.path.PowerSubsystem, All(v, v.doc[v.path.PowerSubsystem]))
  BY Zenon DEF RefreshPowerNew, Collection, Fetch, Walk, With, Visits, Toured, Tour, Stops, Answer, Linked
<1>2. w.path.PowerSubsystem = calm.path.PowerSubsystem /\ w.doc = calm.doc
  BY DEF Alike
<1>3. ASSUME NEW p PROVE Agrees(Harmed(w, calm), Supply(w, p), Supply(calm, p))
  <2>1. Agrees(Harmed(w, calm), Metrics(w, p), Metrics(calm, p))
    <3> DEFINE x == SupplyMetrics(p.Id, w.doc[p.Metrics])
    <3>1. Agrees(Harmed(w, calm), Answer(w, p.Metrics, x), Answer(calm, p.Metrics, x))
      BY AnswerSame
    <3> QED BY <1>2, <3>1 DEF Agrees
  <2>2. Agrees(Harmed(w, calm), Base(p), Base(p))
    BY DEF Agrees
  <2> HIDE DEF Metrics, Own
  <2> QED BY <2>1, <2>2, ThenAgrees
<1> HIDE DEF Supply
<1>4. ASSUME NEW r PROVE Agrees(Harmed(w, calm), Visit(w, r), Visit(calm, r))
  BY <1>2, <1>3, AnswerAgrees
<1> HIDE DEF Visit
<1>5. ASSUME NEW d PROVE Agrees(Harmed(w, calm), All(w, d), All(calm, d))
  <2>1. Linked(w, d.PowerSupplies) = Linked(calm, d.PowerSupplies)
    BY <1>2 DEF Linked
  <2>2. \A i \in Firsts(Linked(w, d.PowerSupplies)) :
           Agrees(Harmed(w, calm), Sent(w, d.PowerSupplies)[i], Sent(calm, d.PowerSupplies)[i])
    BY <1>4, <2>1
  <2> HIDE DEF Sent
  <2>3. Agrees(Harmed(w, calm), Toured(w, d.PowerSupplies, Sent(w, d.PowerSupplies)),
                                Toured(calm, d.PowerSupplies, Sent(calm, d.PowerSupplies)))
    BY <2>2, TouredAgrees
  <2> QED BY <2>3 DEF Agrees
<1> HIDE DEF All
<1> QED BY <1>1, <1>2, <1>5, AnswerAgrees

\* The power, in either form.
LEMMA PowerAgrees ==
  ASSUME NEW w, NEW calm, Alike(w, calm), w.cfg = calm.cfg
  PROVE  Agrees(Harmed(w, calm), RefreshPower(w), RefreshPower(calm))
<1>1. w.path.Power = calm.path.Power /\ w.path.PowerSubsystem = calm.path.PowerSubsystem
  BY DEF Alike
<1> QED BY <1>1, PowerOldAgrees, PowerNewAgrees DEF RefreshPower, Agrees

\* The system.
LEMMA SystemAgrees ==
  ASSUME NEW w, NEW calm, Alike(w, calm)
  PROVE  Agrees(Harmed(w, calm), RefreshSystem(w), RefreshSystem(calm))
<1> DEFINE All(v, d) == SystemSeries([d EXCEPT !.IndicatorLED =
                          IF v.vendor = "Hpe" THEN FirstPresent(@, d.HpeIndicatorLED) ELSE @])
<1>1. ASSUME NEW v PROVE RefreshSystem(v) = Answer(v, v.path.System, All(v, v.doc[v.path.System]))
  BY Zenon DEF RefreshSystem, Fetch, Answer
<1>2. w.path.System = calm.path.System /\ w.doc = calm.doc /\ w.vendor = calm.vendor
  BY DEF Alike
<1>3. ASSUME NEW d PROVE All(w, d) = All(calm, d)
  BY <1>2
<1> HIDE DEF All
<1> QED BY <1>1, <1>2, <1>3, AnswerSame

\* The manager agrees, but for its model, which may come from a second resource.
LEMMA ManagerAgrees ==
  ASSUME NEW w, NEW calm, Alike(w, calm), w.path.Manager = calm.path.Manager
  PROVE  \/ Agrees(Harmed(w, calm), RefreshManager(w), RefreshManager(calm))
         \/ Get(w, DellAttributesPath) # Get(calm, DellAttributesPath)
<1> DEFINE All(v, d) ==
             ManagerSeries(d,
               IF v.vendor = "Dell" /\ DellAttributesPath \in d.DellAttributes /\ Get(v, DellAttributesPath)
               THEN v.doc[DellAttributesPath].InfoHWModel ELSE d.Model)
<1>1. ASSUME NEW v PROVE RefreshManager(v) = Answer(v, v.path.Manager, All(v, v.doc[v.path.Manager]))
  BY Zenon DEF RefreshManager, Fetch, Answer
<1>2. w.path.Manager = calm.path.Manager /\ w.doc = calm.doc /\ w.vendor = calm.vendor
  BY DEF Alike
<1> SUFFICES ASSUME Get(w, DellAttributesPath) = Get(calm, DellAttributesPath)
             PROVE  Agrees(Harmed(w, calm), RefreshManager(w), RefreshManager(calm))
  OBVIOUS
<1>3. ASSUME NEW d PROVE All(w, d) = All(calm, d)
  BY <1>2
<1> HIDE DEF All
<1> QED BY <1>1, <1>2, <1>3, AnswerSame

\* The memory.
LEMMA MemoryAgrees ==
  ASSUME NEW w, NEW calm, Alike(w, calm)
  PROVE  Agrees(Harmed(w, calm), RefreshMemory(w), RefreshMemory(calm))
<1> DEFINE Module(v, d) == IF v.vendor = "Hpe" /\ v.ilo4
                           THEN [d EXCEPT !.Health = d.DIMMStatus, !.CapacityMiB = d.SizeMB] ELSE d
           All(v, d)    == IF d.State = "Absent" \/ d.Id = "" THEN {} ELSE MemorySeries(Module(v, d))
           Visit(v, r)  == Answer(v, r, All(v, v.doc[r]))
           links(v)     == Linked(v, v.path.Memory)
           Sent(v)      == [i \in Firsts(links(v)) |-> Visit(v, links(v)[i])]
<1>1. ASSUME NEW v PROVE RefreshMemory(v) = Toured(v, v.path.Memory, Sent(v))
  BY Zenon DEF RefreshMemory, Collection, Fetch, Walk, With, Visits, Toured, Tour, Stops, Answer, Linked
<1>2. w.path.Memory = calm.path.Memory /\ w.doc = calm.doc /\ w.vendor = calm.vendor /\ w.ilo4 = calm.ilo4
  BY DEF Alike
<1>3. ASSUME NEW d PROVE All(w, d) = All(calm, d)
  BY <1>2
<1> HIDE DEF All
<1>4. ASSUME NEW r PROVE Agrees(Harmed(w, calm), Visit(w, r), Visit(calm, r))
  BY <1>2, <1>3, AnswerSame
<1> HIDE DEF Visit
<1>5. links(w) = links(calm)
  BY <1>2 DEF Linked
<1>6. \A i \in Firsts(links(w)) : Agrees(Harmed(w, calm), Sent(w)[i], Sent(calm)[i])
  BY <1>4, <1>5
<1> HIDE DEF Sent
<1> QED BY <1>1, <1>2, <1>6, TouredAgrees

\* The ports of a network adapter.
LEMMA PortsAgree ==
  ASSUME NEW w, NEW calm, Alike(w, calm), NEW ni
  PROVE  Agrees(Harmed(w, calm), Ports(w, ni), Ports(calm, ni))
<1> DEFINE Visit(v, r) == Answer(v, r, PortSeries(ni.Id, PortId(v, ni, r, v.doc[r]), v.doc[r]))
           at          == IF ni.Ports # "" THEN ni.Ports ELSE ni.NetworkPorts
           Sent(v)     == [i \in Firsts(Linked(v, at)) |-> Visit(v, Linked(v, at)[i])]
<1>1. ASSUME NEW v PROVE Ports(v, ni) = Toured(v, at, Sent(v))
  BY Zenon DEF Ports, Collection, Fetch, Walk, With, Visits, Toured, Tour, Stops, Answer, Linked
<1>2. w.doc = calm.doc /\ w.vendor = calm.vendor
  BY DEF Alike
<1>3. ASSUME NEW r PROVE Agrees(Harmed(w, calm), Visit(w, r), Visit(calm, r))
  <2>1. ASSUME NEW p PROVE PortId(w, ni, r, p) = PortId(calm, ni, r, p)
    BY <1>2 DEF PortId
  <2> QED BY <1>2, <2>1, AnswerSame
<1> HIDE DEF Visit, at
<1>4. Linked(w, at) = Linked(calm, at)
  BY <1>2 DEF Linked
<1>5. \A i \in Firsts(Linked(w, at)) : Agrees(Harmed(w, calm), Sent(w)[i], Sent(calm)[i])
  BY <1>3, <1>4
<1> HIDE DEF Sent
<1> QED BY <1>1, <1>5, TouredAgrees

\* An adapter with its ports.
LEMMA AdapterAgrees ==
  ASSUME NEW w, NEW calm, Alike(w, calm), NEW ni
  PROVE  Agrees(Harmed(w, calm), Adapter(w, ni), Adapter(calm, ni))
<1> DEFINE own == AdapterInfo(ni) \cup AdapterHealth(ni)
<1>1. w.vendor = calm.vendor /\ w.ilo4 = calm.ilo4
  BY DEF Alike
<1>2. CASE w.vendor = "Hpe" /\ w.ilo4
  BY <1>1, <1>2 DEF Adapter, Agrees
<1>3. CASE ~(w.vendor = "Hpe" /\ w.ilo4)
  <2>1. Adapter(w, ni) = Then(own, Ports(w, ni)) /\ Adapter(calm, ni) = Then(own, Ports(calm, ni))
    BY <1>1, <1>3 DEF Adapter
  <2>2. Agrees(Harmed(w, calm), own, own)
    BY DEF Agrees
  <2> HIDE DEF own
  <2> QED BY <2>1, <2>2, PortsAgree, ThenAgrees
<1> QED BY <1>2, <1>3

\* The network adapters: a walk for each member of another.
LEMMA NetworkAgrees ==
  ASSUME NEW w, NEW calm, Alike(w, calm)
  PROVE  Agrees(Harmed(w, calm), RefreshNetwork(w), RefreshNetwork(calm))
<1> DEFINE Visit(v, r) == Answer(v, r, Adapter(v, v.doc[r]))
           links(v)    == Linked(v, v.path.Network)
           Sent(v)     == [i \in Firsts(links(v)) |-> Visit(v, links(v)[i])]
<1>1. ASSUME NEW v PROVE RefreshNetwork(v) = Toured(v, v.path.Network, Sent(v))
  BY Zenon DEF RefreshNetwork, Collection, Fetch, Walk, With, Visits, Toured, Tour, Stops, Answer, Linked
<1>2. w.path.Network = calm.path.Network /\ w.doc = calm.doc
  BY DEF Alike
<1>3. ASSUME NEW r PROVE Agrees(Harmed(w, calm), Visit(w, r), Visit(calm, r))
  BY <1>2, AdapterAgrees, AnswerAgrees
<1> HIDE DEF Visit
<1>4. links(w) = links(calm)
  BY <1>2 DEF Linked
<1>5. \A i \in Firsts(links(w)) : Agrees(Harmed(w, calm), Sent(w)[i], Sent(calm)[i])
  BY <1>3, <1>4
<1> HIDE DEF Sent
<1> QED BY <1>1, <1>2, <1>5, TouredAgrees

\* Where the drives are listed, a walk over them.
LEMMA DrivesAgree ==
  ASSUME NEW w, NEW calm, Alike(w, calm), NEW parent, NEW links
  PROVE  Agrees(Harmed(w, calm), Drives(w, parent, links), Drives(calm, parent, links))
<1> DEFINE Visit(v, c) == Answer(v, c, Drive(v, parent, v.doc[c]))
           Sent(v)     == [i \in Firsts(links) |-> Visit(v, links[i])]
<1>1. ASSUME NEW v PROVE Drives(v, parent, links) = Tour(links, Sent(v))
  BY Zenon DEF Drives, Fetch, Walk, With, Visits, Tour, Stops, Answer
<1>2. w.doc = calm.doc /\ w.vendor = calm.vendor /\ w.ilo4 = calm.ilo4
  BY DEF Alike
<1>3. ASSUME NEW x PROVE Drive(w, parent, x) = Drive(calm, parent, x)
  <2>1. DriveId(w, x) = DriveId(calm, x) /\ LifeLeft(w, x) = LifeLeft(calm, x)
    BY <1>2 DEF DriveId, LifeLeft
  <2> QED BY <1>2, <2>1 DEF Drive
<1>4. ASSUME NEW c PROVE Agrees(Harmed(w, calm), Visit(w, c), Visit(calm, c))
  BY <1>2, <1>3, AnswerSame
<1> HIDE DEF Visit
<1>5. \A i \in Firsts(links) : Agrees(Harmed(w, calm), Sent(w)[i], Sent(calm)[i])
  BY <1>4
<1> HIDE DEF Sent
<1> QED BY <1>1, <1>5, WalkAgrees DEF Tour

\* The controllers of a storage unit.
LEMMA ControllersAgree ==
  ASSUME NEW w, NEW calm, Alike(w, calm), NEW d
  PROVE  Agrees(Harmed(w, calm), Controllers(w, d), Controllers(calm, d))
<1> DEFINE Visit(v, c)  == Answer(v, c, ControllerSeries(d.Id, v.doc[c].Id, v.doc[c]))
           Sent(v)      == [i \in Firsts(Linked(v, d.Controllers)) |-> Visit(v, Linked(v, d.Controllers)[i])]
           inline       == Rows(d.StorageControllers, LAMBDA n, x :
                             ControllerSeries(d.Id, InlineId(x), x))
<1>1. ASSUME NEW v
      PROVE  Controllers(v, d) = IF d.Controllers # "" THEN Toured(v, d.Controllers, Sent(v)) ELSE inline
  BY Zenon DEF Controllers, Collection, Fetch, Walk, With, Visits, Toured, Tour, Stops, Answer, Linked
<1>2. w.doc = calm.doc
  BY DEF Alike
<1>3. ASSUME NEW c PROVE Agrees(Harmed(w, calm), Visit(w, c), Visit(calm, c))
  BY <1>2, AnswerSame
<1> HIDE DEF Visit, inline
<1>4. Linked(w, d.Controllers) = Linked(calm, d.Controllers)
  BY <1>2 DEF Linked
<1>5. \A i \in Firsts(Linked(w, d.Controllers)) : Agrees(Harmed(w, calm), Sent(w)[i], Sent(calm)[i])
  BY <1>3, <1>4
<1> HIDE DEF Sent
<1>6. Agrees(Harmed(w, calm), Toured(w, d.Controllers, Sent(w)), Toured(calm, d.Controllers, Sent(calm)))
  BY <1>5, TouredAgrees
<1>7. CASE d.Controllers # ""
  <2>1. Controllers(w, d) = Toured(w, d.Controllers, Sent(w))
    BY <1>1, <1>7
  <2>2. Controllers(calm, d) = Toured(calm, d.Controllers, Sent(calm))
    BY <1>1, <1>7
  <2> QED BY <1>6, <2>1, <2>2
<1>8. CASE d.Controllers = ""
  BY <1>1, <1>8, Zenon DEF Agrees
<1> QED BY <1>7, <1>8

\* The volumes of a storage unit.
LEMMA VolumesAgree ==
  ASSUME NEW w, NEW calm, Alike(w, calm), NEW d
  PROVE  Agrees(Harmed(w, calm), Volumes(w, d), Volumes(calm, d))
<1> DEFINE Visit(v, c) == Answer(v, c, VolumeSeries(d.Id, v.doc[c]))
           Sent(v)     == [i \in Firsts(Linked(v, d.Volumes)) |-> Visit(v, Linked(v, d.Volumes)[i])]
<1>1. ASSUME NEW v
      PROVE  Volumes(v, d) = IF d.Volumes # "" THEN Toured(v, d.Volumes, Sent(v)) ELSE {}
  BY Zenon DEF Volumes, Collection, Fetch, Walk, With, Visits, Toured, Tour, Stops, Answer, Linked
<1>2. w.doc = calm.doc
  BY DEF Alike
<1>3. ASSUME NEW c PROVE Agrees(Harmed(w, calm), Visit(w, c), Visit(calm, c))
  BY <1>2, AnswerSame
<1> HIDE DEF Visit
<1>4. Linked(w, d.Volumes) = Linked(calm, d.Volumes)
  BY <1>2 DEF Linked
<1>5. \A i \in Firsts(Linked(w, d.Volumes)) : Agrees(Harmed(w, calm), Sent(w)[i], Sent(calm)[i])
  BY <1>3, <1>4
<1> HIDE DEF Sent
<1>6. Agrees(Harmed(w, calm), Toured(w, d.Volumes, Sent(w)), Toured(calm, d.Volumes, Sent(calm)))
  BY <1>5, TouredAgrees
<1>7. CASE d.Volumes # ""
  <2>1. Volumes(w, d) = Toured(w, d.Volumes, Sent(w))
    BY <1>1, <1>7
  <2>2. Volumes(calm, d) = Toured(calm, d.Volumes, Sent(calm))
    BY <1>1, <1>7
  <2> QED BY <1>6, <2>1, <2>2
<1>8. CASE d.Volumes = ""
  BY <1>1, <1>8, Zenon DEF Agrees
<1> QED BY <1>7, <1>8

\* A storage unit: what it says of itself, its drives, controllers and volumes, until
\* one of them fails.
LEMMA UnitAgrees ==
  ASSUME NEW w, NEW calm, Alike(w, calm), NEW d
  PROVE  Agrees(Harmed(w, calm), StorageUnit(w, d), StorageUnit(calm, d))
<1>1. Agrees(Harmed(w, calm), Own(d), Own(d))
  BY DEF Agrees
<1>2. Agrees(Harmed(w, calm), Then(Controllers(w, d), Volumes(w, d)), Then(Controllers(calm, d), Volumes(calm, d)))
  BY ControllersAgree, VolumesAgree, ThenAgrees
<1>3. Agrees(Harmed(w, calm), Then(Drives(w, d.Id, d.Drives), Then(Controllers(w, d), Volumes(w, d))),
                              Then(Drives(calm, d.Id, d.Drives), Then(Controllers(calm, d), Volumes(calm, d))))
  BY <1>2, DrivesAgree, ThenAgrees
<1> QED BY <1>1, <1>3, ThenAgrees DEF StorageUnit

\* A storage unit of iLO 4.
LEMMA Ilo4UnitAgrees ==
  ASSUME NEW w, NEW calm, Alike(w, calm), NEW r, NEW d
  PROVE  Agrees(Harmed(w, calm), Ilo4Storage(w, r, d), Ilo4Storage(calm, r, d))
<1> DEFINE at         == r \o "DiskDrives/"
           All(v)     == Then(Own(d), Drives(v, d.Id, Members(<<>>, v.doc[at])))
<1>1. ASSUME NEW v PROVE Ilo4Storage(v, r, d) = Answer(v, at, All(v))
  BY Zenon DEF Ilo4Storage, Fetch, Answer
<1>2. Agrees(Harmed(w, calm), All(w), All(calm))
  <2> DEFINE listed == Members(<<>>, w.doc[at])
  <2>1. w.doc = calm.doc
    BY DEF Alike
  <2>2. All(w) = Then(Own(d), Drives(w, d.Id, listed)) /\ All(calm) = Then(Own(d), Drives(calm, d.Id, listed))
    BY <2>1
  <2>3. Agrees(Harmed(w, calm), Own(d), Own(d))
    BY DEF Agrees
  <2> HIDE DEF All, listed
  <2> QED BY <2>2, <2>3, DrivesAgree, ThenAgrees
<1> HIDE DEF All, at
<1> QED BY <1>1, <1>2, AnswerAgrees

\* The storage.
LEMMA StorageAgrees ==
  ASSUME NEW w, NEW calm, Alike(w, calm)
  PROVE  Agrees(Harmed(w, calm), RefreshStorage(w), RefreshStorage(calm))
<1> DEFINE All(v, r, d) == IF v.vendor = "Hpe" /\ v.ilo4 THEN Ilo4Storage(v, r, d) ELSE StorageUnit(v, d)
           Visit(v, r)  == Answer(v, r, All(v, r, v.doc[r]))
           links(v)     == Linked(v, v.path.Storage)
           Sent(v)      == [i \in Firsts(links(v)) |-> Visit(v, links(v)[i])]
<1>1. ASSUME NEW v PROVE RefreshStorage(v) = Toured(v, v.path.Storage, Sent(v))
  BY Zenon DEF RefreshStorage, Collection, Fetch, Walk, With, Visits, Toured, Tour, Stops, Answer, Linked
<1>2. w.path.Storage = calm.path.Storage /\ w.doc = calm.doc /\ w.vendor = calm.vendor /\ w.ilo4 = calm.ilo4
  BY DEF Alike
<1>3. ASSUME NEW r, NEW d PROVE Agrees(Harmed(w, calm), All(w, r, d), All(calm, r, d))
  BY <1>2, Ilo4UnitAgrees, UnitAgrees
<1> HIDE DEF All
<1>4. ASSUME NEW r PROVE Agrees(Harmed(w, calm), Visit(w, r), Visit(calm, r))
  BY <1>2, <1>3, AnswerAgrees
<1> HIDE DEF Visit
<1>5. links(w) = links(calm)
  BY <1>2 DEF Linked
<1>6. \A i \in Firsts(links(w)) : Agrees(Harmed(w, calm), Sent(w)[i], Sent(calm)[i])
  BY <1>4, <1>5
<1> HIDE DEF Sent
<1> QED BY <1>1, <1>2, <1>6, TouredAgrees

\* Dell's own resource.
LEMMA DellAgrees ==
  ASSUME NEW w, NEW calm, Alike(w, calm), w.path.Extra = calm.path.Extra
  PROVE  Agrees(Harmed(w, calm), RefreshDell(w), RefreshDell(calm))
<1>1. ASSUME NEW v
      PROVE  RefreshDell(v) =
               IF v.vendor = "Dell" /\ DellSystemPath \in v.path.Extra
               THEN Answer(v, DellSystemPath, DellSystemSeries(v.doc[DellSystemPath])) ELSE {}
  BY Zenon DEF RefreshDell, Fetch, Answer
<1>2. w.vendor = calm.vendor /\ w.path.Extra = calm.path.Extra /\ w.doc = calm.doc
  BY DEF Alike
<1> DEFINE x == DellSystemSeries(w.doc[DellSystemPath])
<1>3. Agrees(Harmed(w, calm), Answer(w, DellSystemPath, x), Answer(calm, DellSystemPath, x))
  BY AnswerSame
<1>4. CASE w.vendor = "Dell" /\ DellSystemPath \in w.path.Extra
  BY <1>1, <1>2, <1>3, <1>4
<1>5. CASE ~(w.vendor = "Dell" /\ DellSystemPath \in w.path.Extra)
  BY <1>1, <1>2, <1>5 DEF Agrees
<1> QED BY <1>4, <1>5

\* The power distribution units, which are all read, also after one that failed.
LEMMA PDUsAgree ==
  ASSUME NEW w, NEW calm, Alike(w, calm)
  PROVE  Agrees(Harmed(w, calm), RefreshPDUs(w), RefreshPDUs(calm))
<1> DEFINE Metrics(v, d) == Answer(v, d.Metrics, PduMetrics(d.Id, v.doc[d.Metrics]))
           All(v, d)     == Then(PduSeries(d), Metrics(v, d))
           Visit(v, r)   == Answer(v, r, All(v, v.doc[r]))
           links(v)      == v.path.RackPDUs
           Sent(v)       == [i \in Firsts(links(v)) |-> Visit(v, links(v)[i])]
<1>1. ASSUME NEW v PROVE RefreshPDUs(v) = Gathered(Stops(links(v), Sent(v)))
  BY Zenon DEF RefreshPDUs, Fetch, Visits, Stops, Answer
<1>2. w.path.RackPDUs = calm.path.RackPDUs /\ w.doc = calm.doc
  BY DEF Alike
<1>3. ASSUME NEW d PROVE Agrees(Harmed(w, calm), All(w, d), All(calm, d))
  <2>1. Agrees(Harmed(w, calm), Metrics(w, d), Metrics(calm, d))
    BY <1>2, AnswerSame
  <2>2. Agrees(Harmed(w, calm), PduSeries(d), PduSeries(d))
    BY DEF Agrees
  <2> HIDE DEF Metrics
  <2> QED BY <2>1, <2>2, ThenAgrees
<1> HIDE DEF All
<1>4. ASSUME NEW r PROVE Agrees(Harmed(w, calm), Visit(w, r), Visit(calm, r))
  BY <1>2, <1>3, AnswerAgrees
<1> HIDE DEF Visit
<1>5. \A i \in Firsts(links(w)) : Agrees(Harmed(w, calm), Sent(w)[i], Sent(calm)[i])
  BY <1>2, <1>4
<1> HIDE DEF Sent
<1>6. CASE \A i \in Firsts(links(w)) : Sent(w)[i] = Sent(calm)[i]
  BY <1>1, <1>2, <1>6 DEF Stops, Agrees
<1>7. CASE ~(\A i \in Firsts(links(w)) : Sent(w)[i] = Sent(calm)[i])
  <2>1. PICK i \in Firsts(links(w)) : Harmed(w, calm) /\ Fails(Sent(w)[i])
    BY <1>5, <1>7 DEF Agrees
  <2>2. Placed(i, Sent(w)[i]) \subseteq Gathered(Stops(links(w), Sent(w)))
    <3>1. [at |-> i, sent |-> Sent(w)[i]] \in Stops(links(w), Sent(w))
      BY DEF Stops
    <3> QED BY <3>1 DEF Gathered
  <2>3. Fails(RefreshPDUs(w))
    BY <1>1, <2>1, <2>2, PlacedFails DEF Fails
  <2> QED BY <2>1, <2>3 DEF Agrees
<1> QED BY <1>6, <1>7

\* The event log agrees with that of the same client, and of one that goes on from what
\* this call took its path to be.
LEMMA EventsAgree ==
  ASSUME NEW w, NEW calm, Alike(w, calm), calm.path.Event \in {w.path.Event, EventPath(w)}
  PROVE  Agrees(Harmed(w, calm), RefreshEventLog(w), RefreshEventLog(calm))
<1> DEFINE All(v, r) == Rows(v.doc[r].Entries, LAMBDA n, e : EventRow(v, e))
<1>1. ASSUME NEW v
      PROVE  RefreshEventLog(v) =
               IF v.path.Event = "" THEN {} ELSE Answer(v, EventPath(v), All(v, EventPath(v)))
  BY Zenon DEF RefreshEventLog, Fetch, Answer
<1>2. w.doc = calm.doc /\ w.vendor = calm.vendor /\ w.level = calm.level
      /\ \A r : Get(w, r) => Get(calm, r)
  BY DEF Alike
<1>3. ASSUME NEW r PROVE All(w, r) = All(calm, r)
  <2>1. ASSUME NEW e PROVE EventRow(w, e) = EventRow(calm, e)
    BY <1>2 DEF EventRow
  <2> QED BY <1>2, <2>1 DEF Rows
<1> HIDE DEF All
<1>4. LogServicesSel # LogsSel /\ LogServicesSel # "" /\ LogsSel # ""
  BY DEF LogServicesSel, LogsSel
<1>5. CASE w.path.Event = ""
  <2>1. EventPath(w) = ""
    BY <1>4, <1>5 DEF EventPath
  <2> QED BY <1>1, <1>5, <2>1 DEF Agrees
<1>6. CASE w.path.Event # "" /\ EventPath(calm) = EventPath(w)
  <2>1. EventPath(w) # ""
    BY <1>4, <1>6 DEF EventPath
  <2>2. Agrees(Harmed(w, calm), Answer(w, EventPath(w), All(w, EventPath(w))),
                                Answer(calm, EventPath(w), All(w, EventPath(w))))
    BY AnswerSame
  <2> QED BY <1>1, <1>3, <1>6, <2>1, <2>2
<1>7. CASE w.path.Event # "" /\ EventPath(calm) # EventPath(w)
  <2>1. EventPath(w) = LogServicesSel /\ ~Get(w, LogServicesSel) /\ Get(calm, LogServicesSel)
    BY <1>2, <1>4, <1>7 DEF EventPath
  <2>2. RefreshEventLog(w) = Failed
    BY <1>1, <1>7, <2>1 DEF Answer
  <2> QED BY <2>1, <2>2, FailedFails DEF Agrees, Harmed
<1> QED BY <1>5, <1>6, <1>7

-----------------------------------------------------------------------------
\* All of them

\* Which function refreshes which group.
LEMMA RefreshIs ==
  ASSUME NEW w
  PROVE  /\ Refresh(w, "system") = RefreshSystem(w)
         /\ Refresh(w, "sensors") = RefreshSensors(w)
         /\ Refresh(w, "voltages") = RefreshVoltages(w)
         /\ Refresh(w, "power") = RefreshPower(w)
         /\ Refresh(w, "network") = RefreshNetwork(w)
         /\ Refresh(w, "events") = RefreshEventLog(w)
         /\ Refresh(w, "storage") = RefreshStorage(w)
         /\ Refresh(w, "memory") = RefreshMemory(w)
         /\ Refresh(w, "processors") = RefreshProcessors(w)
         /\ Refresh(w, "manager") = RefreshManager(w)
         /\ Refresh(w, "extra") = RefreshDell(w)
         /\ Refresh(w, "pdus") = RefreshPDUs(w)
<1>1. Refresh(w, "system") = RefreshSystem(w)
  BY Zenon DEF Refresh
<1>2. Refresh(w, "sensors") = RefreshSensors(w)
  BY Zenon DEF Refresh
<1>3. Refresh(w, "voltages") = RefreshVoltages(w)
  BY Zenon DEF Refresh
<1>4. Refresh(w, "power") = RefreshPower(w)
  BY Zenon DEF Refresh
<1>5. Refresh(w, "network") = RefreshNetwork(w)
  BY Zenon DEF Refresh
<1>6. Refresh(w, "events") = RefreshEventLog(w)
  BY Zenon DEF Refresh
<1>7. Refresh(w, "storage") = RefreshStorage(w)
  BY Zenon DEF Refresh
<1>8. Refresh(w, "memory") = RefreshMemory(w)
  BY Zenon DEF Refresh
<1>9. Refresh(w, "processors") = RefreshProcessors(w)
  BY Zenon DEF Refresh
<1>10. Refresh(w, "manager") = RefreshManager(w)
  BY Zenon DEF Refresh
<1>11. Refresh(w, "extra") = RefreshDell(w)
  BY Zenon DEF Refresh
<1>12. Refresh(w, "pdus") = RefreshPDUs(w)
  BY Zenon DEF Refresh
<1> QED BY <1>1, <1>2, <1>3, <1>4, <1>5, <1>6, <1>7, <1>8, <1>9, <1>10, <1>11, <1>12

GroupNames ==
  {"system", "sensors", "voltages", "power", "network", "events", "storage", "memory",
   "processors", "manager", "extra", "pdus"}

\* Whatever goes wrong, a metric group sends what it would send on a calm day or fails;
\* only the model of a Dell manager may come from elsewhere.
THEOREM GroupsIsolated ==
  ASSUME NEW w, NEW calm, NEW group \in GroupNames, AlikeFor(w, calm, group)
  PROVE  \/ Agrees(Harmed(w, calm), Refresh(w, group), Refresh(calm, group))
         \/ group = "manager" /\ Get(w, DellAttributesPath) # Get(calm, DellAttributesPath)
BY RefreshIs, SystemAgrees, SensorsAgree, VoltagesAgree, PowerAgrees, NetworkAgrees, StorageAgrees,
   MemoryAgrees, ProcessorsAgree, ManagerAgrees, DellAgrees, PDUsAgree, EventsAgree DEF GroupNames, AlikeFor

\* Enabling the sensors adds to what the power group sends and takes nothing away.
LEMMA PowerGrows ==
  ASSUME NEW w, NEW calm, Alike(w, calm), Alike(calm, w), "sensors" \notin w.cfg
  PROVE  Refresh(w, "power") \subseteq Refresh(calm, "power")
<1>1. w.path.Power = calm.path.Power /\ w.path.PowerSubsystem = calm.path.PowerSubsystem
      /\ ~Harmed(w, calm)
  BY DEF Alike, Harmed
<1>2. RefreshPowerNew(w) = RefreshPowerNew(calm) /\ RefreshPowerOld(w) \subseteq RefreshPowerOld(calm)
  BY <1>1, PowerNewAgrees, PowerOldGrows DEF Agrees
<1>3. RefreshPower(w) \subseteq RefreshPower(calm)
  BY <1>1, <1>2 DEF RefreshPower
<1> QED BY <1>3, RefreshIs

-----------------------------------------------------------------------------
\* What is sent: records, of the metrics in kinds or of a failure, and no value of a field
\* that is missing but for the metrics that are known for it
Sound(kinds, sent) ==
  \A s \in sent :
    /\ {"metric", "from", "at"} \subseteq DOMAIN s
    /\ s.metric \in kinds \cup {"failure"}
    /\ s.from \in {"none", "default"} => s.metric \in Zeroed

\* The metrics of each group.
SystemKinds ==
  {"power_on", "system_health", "indicator_led_on", "indicator_active", "memory_size",
   "cpu_count", "bios_info", "machine_info"}

SensorKinds == {"temperature", "fan_health", "fan_speed"}

VoltageKinds == {"voltage"}

PowerKinds ==
  {"power_supply_health", "power_supply_input_watts", "power_supply_input_voltage",
   "power_supply_output_watts", "power_supply_capacity_watts", "power_supply_efficiency",
   "power_control_consumed", "power_control_capacity", "power_control_min", "power_control_max",
   "power_control_avg", "power_control_interval"}

NetworkKinds ==
  {"adapter_info", "adapter_health", "port_current_speed", "port_health", "port_max_speed",
   "port_link_up"}

EventKinds == {"event_log_entry"}

StorageKinds ==
  {"storage_info", "storage_health", "dell_battery_health", "drive_info", "drive_health",
   "drive_capacity", "drive_life_left", "drive_indicator_active", "controller_cache_size",
   "controller_cache_health", "controller_info", "controller_speed", "controller_health",
   "volume_info", "volume_health", "volume_capacity", "volume_media_span"}

MemoryKinds == {"memory_info", "memory_health", "memory_capacity", "memory_speed"}

ProcessorKinds ==
  {"cpu_voltage", "cpu_current_speed", "cpu_info", "cpu_health", "cpu_max_speed",
   "cpu_total_cores", "cpu_total_threads"}

ManagerKinds == {"manager_info", "manager_health"}

DellKinds == {"dell_battery_rollup_health", "dell_airflow"}

PduKinds ==
  {"pdu_info", "pdu_health", "pdu_power_watts", "pdu_power_apparent", "pdu_power_factor",
   "pdu_energy_kwh"}

\* More metrics may be allowed.
LEMMA SoundMore ==
  ASSUME NEW kinds, NEW more, kinds \subseteq more, NEW sent, Sound(kinds, sent)
  PROVE  Sound(more, sent)
BY DEF Sound

\* The five ways to send a sample.
LEMMA SamplesSound ==
  ASSUME NEW kinds, NEW metric \in kinds, NEW labels, NEW v
  PROVE  /\ metric \in Zeroed => Sound(kinds, Always(metric, labels, v))
         /\ metric \in Zeroed => Sound(kinds, NotNil(metric, labels, v))
         /\ Sound(kinds, Info(metric, labels))
         /\ Sound(kinds, Present(metric, labels, v))
         /\ Sound(kinds, Health(metric, labels, v))
         /\ Sound(kinds, Nonzero(metric, labels, v))
BY DEF Sound, Always, NotNil, Info, Present, Health, Nonzero, Given

\* Nothing, a failure, and what is put together from parts.
LEMMA PartsSound ==
  ASSUME NEW kinds, NEW a, NEW b, Sound(kinds, a), Sound(kinds, b)
  PROVE  Sound(kinds, a \cup b) /\ Sound(kinds, Then(a, b))
BY ThenIs DEF Sound

\* Nothing is sent that is wrong if nothing is sent ...
LEMMA NothingSound == ASSUME NEW kinds PROVE Sound(kinds, {})
BY DEF Sound

\* ... or a failure.
LEMMA FailureSound == ASSUME NEW kinds PROVE Sound(kinds, Failed)
BY DEF Sound, Failed, Info, Always

\* The place that is added on the way up does not matter.
LEMMA PlacedSound ==
  ASSUME NEW kinds, NEW sent, NEW i, Sound(kinds, sent)
  PROVE  Sound(kinds, Placed(i, sent))
<1> SUFFICES ASSUME NEW t \in Placed(i, sent)
             PROVE  /\ {"metric", "from", "at"} \subseteq DOMAIN t /\ t.metric \in kinds \cup {"failure"}
                    /\ t.from \in {"none", "default"} => t.metric \in Zeroed
  BY DEF Sound
<1>1. PICK s \in sent : t = [s EXCEPT !.at = <<i>> \o @]
  BY DEF Placed
<1>2. {"metric", "from", "at"} \subseteq DOMAIN s
  BY DEF Sound
<1>3. DOMAIN t = DOMAIN s /\ t.metric = s.metric /\ t.from = s.from
  BY <1>1, <1>2
<1> QED BY <1>2, <1>3 DEF Sound

\* Any number of parts.
LEMMA UnionSound ==
  ASSUME NEW kinds, NEW parts, \A x \in parts : Sound(kinds, x)
  PROVE  Sound(kinds, UNION parts)
BY DEF Sound

\* Visits, all of them or up to the first that fails.
LEMMA VisitsSound ==
  ASSUME NEW kinds, NEW visits, \A v \in visits : Sound(kinds, v.sent)
  PROVE  Sound(kinds, Gathered(visits)) /\ Sound(kinds, Gathered(Reached(visits)))
<1>1. \A x \in {Placed(v.at, v.sent) : v \in visits} : Sound(kinds, x)
  BY PlacedSound
<1>2. \A x \in {Placed(v.at, v.sent) : v \in Reached(visits)} : Sound(kinds, x)
  BY PlacedSound DEF Reached
<1> QED BY <1>1, <1>2, UnionSound DEF Gathered

\* What is made of the answer to a request.
LEMMA AnswerSound ==
  ASSUME NEW kinds, NEW w, NEW r, NEW sent, Sound(kinds, sent)
  PROVE  Sound(kinds, Answer(w, r, sent))
BY FailureSound DEF Answer

\* A walk whose visits are given as a function of the place.
LEMMA TouredSound ==
  ASSUME NEW kinds, NEW w, NEW r, NEW sent, \A i \in Firsts(Linked(w, r)) : Sound(kinds, sent[i])
  PROVE  Sound(kinds, Toured(w, r, sent))
<1>1. \A v \in Stops(Linked(w, r), sent) : Sound(kinds, v.sent)
  BY DEF Stops
<1>2. Sound(kinds, Tour(Linked(w, r), sent))
  BY <1>1, VisitsSound DEF Tour
<1> QED BY <1>2, AnswerSound DEF Toured

-----------------------------------------------------------------------------
\* The emitters

\* The emitters of the system, of fans and temperatures.
LEMMA SensorEmitters ==
  /\ \A d : Sound(SystemKinds, SystemSeries(d))
  /\ \A id, name, v : Sound(SensorKinds, Temperature(id, name, v))
  /\ \A id, name, health, v : Sound(SensorKinds, FanSeries(id, name, health, v))
<1>1. ASSUME NEW d PROVE Sound(SystemKinds, SystemSeries(d))
  <2>1. Sound(SystemKinds, MemorySize(d))
    BY SamplesSound, NothingSound DEF MemorySize, Zeroed, SystemKinds
  <2>2. Sound(SystemKinds, CpuCount(d))
    BY SamplesSound, NothingSound DEF CpuCount, Zeroed, SystemKinds
  <2> QED BY <2>1, <2>2, SamplesSound, PartsSound DEF SystemSeries, Zeroed, SystemKinds
<1>2. ASSUME NEW id, NEW name, NEW v PROVE Sound(SensorKinds, Temperature(id, name, v))
  BY SamplesSound DEF Temperature, Zeroed, SensorKinds
<1>3. ASSUME NEW id, NEW name, NEW health, NEW v PROVE Sound(SensorKinds, FanSeries(id, name, health, v))
  BY SamplesSound, PartsSound DEF FanSeries, Zeroed, SensorKinds
<1> QED BY <1>1, <1>2, <1>3

\* Those of power supplies and controls.
LEMMA PowerEmitters ==
  /\ \A id, v : Sound(PowerKinds, PowerSupplyHealth(id, v))
  /\ \A id, v : Sound(PowerKinds, PowerSupplyInput(id, v))
  /\ \A id, v : Sound(PowerKinds, PowerSupplyVoltage(id, v))
  /\ \A id, v : Sound(PowerKinds, PowerSupplyOutput(id, v))
  /\ \A id, v : Sound(PowerKinds, PowerSupplyCapacity(id, v))
  /\ \A id, v : Sound(PowerKinds, PowerSupplyEfficiency(id, v))
  /\ \A id, name, v : Sound(PowerKinds, PowerConsumed(id, name, v))
  /\ \A id, name, v : Sound(PowerKinds, PowerCapacity(id, name, v))
  /\ \A id, name, d : Sound(PowerKinds, PowerMetrics(id, name, d))
<1>1. ASSUME NEW id, NEW v PROVE Sound(PowerKinds, PowerSupplyHealth(id, v))
  BY SamplesSound, PartsSound DEF PowerSupplyHealth, Zeroed, PowerKinds
<1>2. ASSUME NEW id, NEW v PROVE Sound(PowerKinds, PowerSupplyInput(id, v))
  BY SamplesSound, PartsSound DEF PowerSupplyInput, Zeroed, PowerKinds
<1>3. ASSUME NEW id, NEW v PROVE Sound(PowerKinds, PowerSupplyVoltage(id, v))
  BY SamplesSound, PartsSound DEF PowerSupplyVoltage, Zeroed, PowerKinds
<1>4. ASSUME NEW id, NEW v PROVE Sound(PowerKinds, PowerSupplyOutput(id, v))
  BY SamplesSound, PartsSound DEF PowerSupplyOutput, Zeroed, PowerKinds
<1>5. ASSUME NEW id, NEW v PROVE Sound(PowerKinds, PowerSupplyCapacity(id, v))
  BY SamplesSound, PartsSound DEF PowerSupplyCapacity, Zeroed, PowerKinds
<1>6. ASSUME NEW id, NEW v PROVE Sound(PowerKinds, PowerSupplyEfficiency(id, v))
  BY SamplesSound, PartsSound DEF PowerSupplyEfficiency, Zeroed, PowerKinds
<1>7. ASSUME NEW id, NEW name, NEW v PROVE Sound(PowerKinds, PowerConsumed(id, name, v))
  BY SamplesSound, PartsSound DEF PowerConsumed, Zeroed, PowerKinds
<1>8. ASSUME NEW id, NEW name, NEW v PROVE Sound(PowerKinds, PowerCapacity(id, name, v))
  BY SamplesSound, PartsSound DEF PowerCapacity, Zeroed, PowerKinds
<1>9. ASSUME NEW id, NEW name, NEW d PROVE Sound(PowerKinds, PowerMetrics(id, name, d))
  BY SamplesSound, PartsSound DEF PowerMetrics, Zeroed, PowerKinds
<1> QED BY <1>1, <1>2, <1>3, <1>4, <1>5, <1>6, <1>7, <1>8, <1>9

\* Those of the storage and the memory.
LEMMA StorageEmitters ==
  /\ \A d : Sound(StorageKinds, StorageSeries(d))
  /\ \A parent, id, d : Sound(StorageKinds, DriveSeries(parent, id, d))
  /\ \A parent, id, d : Sound(StorageKinds, CacheSeries(parent, id, d))
  /\ \A parent, id, d : Sound(StorageKinds, ControllerSeries(parent, id, d))
  /\ \A parent, d : Sound(StorageKinds, VolumeSeries(parent, d))
  /\ \A d : Sound(MemoryKinds, MemorySeries(d))
<1>1. ASSUME NEW d PROVE Sound(StorageKinds, StorageSeries(d))
  BY SamplesSound, PartsSound DEF StorageSeries, Zeroed, StorageKinds
<1>2. ASSUME NEW parent, NEW id, NEW d PROVE Sound(StorageKinds, DriveSeries(parent, id, d))
  BY SamplesSound, PartsSound DEF DriveSeries, Zeroed, StorageKinds
<1>3. ASSUME NEW parent, NEW id, NEW d PROVE Sound(StorageKinds, CacheSeries(parent, id, d))
  BY SamplesSound, PartsSound DEF CacheSeries, Zeroed, StorageKinds
<1>4. ASSUME NEW parent, NEW id, NEW d PROVE Sound(StorageKinds, ControllerSeries(parent, id, d))
  BY SamplesSound, PartsSound, NothingSound DEF ControllerSeries, CacheSeries, Zeroed, StorageKinds
<1>5. ASSUME NEW parent, NEW d PROVE Sound(StorageKinds, VolumeSeries(parent, d))
  BY SamplesSound, PartsSound DEF VolumeSeries, Zeroed, StorageKinds
<1>6. ASSUME NEW d PROVE Sound(MemoryKinds, MemorySeries(d))
  BY SamplesSound, PartsSound DEF MemorySeries, Zeroed, MemoryKinds
<1> QED BY <1>1, <1>2, <1>3, <1>4, <1>5, <1>6

\* Those of the network.
LEMMA NetworkEmitters ==
  /\ \A d : Sound(NetworkKinds, AdapterInfo(d))
  /\ \A d : Sound(NetworkKinds, AdapterHealth(d))
  /\ \A parent, id, mbps, gbps, link : Sound(NetworkKinds, PortSpeed(parent, id, mbps, gbps, link))
  /\ \A parent, id, p : Sound(NetworkKinds, PortSeries(parent, id, p))
<1>1. ASSUME NEW d PROVE Sound(NetworkKinds, AdapterInfo(d))
  BY SamplesSound, PartsSound DEF AdapterInfo, Zeroed, NetworkKinds
<1>2. ASSUME NEW d PROVE Sound(NetworkKinds, AdapterHealth(d))
  BY SamplesSound, PartsSound DEF AdapterHealth, Zeroed, NetworkKinds
<1>3. ASSUME NEW parent, NEW id, NEW mbps, NEW gbps, NEW link PROVE Sound(NetworkKinds, PortSpeed(parent, id, mbps, gbps, link))
  BY SamplesSound, PartsSound DEF PortSpeed, Zeroed, NetworkKinds
<1>4. ASSUME NEW parent, NEW id, NEW p PROVE Sound(NetworkKinds, PortSeries(parent, id, p))
  BY SamplesSound, PartsSound DEF PortSeries, PortHealth, PortMaxSpeed, PortLinkUp, PortSpeed, Zeroed, NetworkKinds
<1> QED BY <1>1, <1>2, <1>3, <1>4

\* Those of managers, Dell's resource, power distribution units and the event log.
LEMMA OtherEmitters ==
  /\ \A d, model : Sound(ManagerKinds, ManagerSeries(d, model))
  /\ \A d : Sound(DellKinds, DellSystemSeries(d))
  /\ \A d : Sound(PduKinds, PduSeries(d))
  /\ \A id, d : Sound(PduKinds, PduMetrics(id, d))
  /\ \A e : Sound(EventKinds, EventLogEntry(e))
<1>1. ASSUME NEW d, NEW model PROVE Sound(ManagerKinds, ManagerSeries(d, model))
  BY SamplesSound, PartsSound DEF ManagerSeries, Zeroed, ManagerKinds
<1>2. ASSUME NEW d PROVE Sound(DellKinds, DellSystemSeries(d))
  BY SamplesSound, PartsSound DEF DellSystemSeries, Zeroed, DellKinds
<1>3. ASSUME NEW d PROVE Sound(PduKinds, PduSeries(d))
  BY SamplesSound, PartsSound DEF PduSeries, Zeroed, PduKinds
<1>4. ASSUME NEW id, NEW d PROVE Sound(PduKinds, PduMetrics(id, d))
  BY SamplesSound, PartsSound DEF PduMetrics, Zeroed, PduKinds
<1>5. ASSUME NEW e PROVE Sound(EventKinds, EventLogEntry(e))
  BY SamplesSound, PartsSound DEF EventLogEntry, Zeroed, EventKinds
<1> QED BY <1>1, <1>2, <1>3, <1>4, <1>5

\* The battery of a controller.
LEMMA BatterySound == \A d : Sound(StorageKinds, ControllerBattery(d))
<1> SUFFICES ASSUME NEW d PROVE Sound(StorageKinds, ControllerBattery(d))
  OBVIOUS
<1>1. Sound(StorageKinds, Health("dell_battery_health", <<d.Id>>, d.BatteryStatus))
  BY SamplesSound DEF StorageKinds
<1> QED BY <1>1 DEF ControllerBattery, Sound

\* Those of the processors.
LEMMA CpuSound == \A d : Sound(ProcessorKinds, CpuSeries(d))
<1> SUFFICES ASSUME NEW d PROVE Sound(ProcessorKinds, CpuSeries(d))
  OBVIOUS
<1>1. Sound(ProcessorKinds, CpuVoltage(d))
  <2>1. CpuVoltage(d) \in {Present("cpu_voltage", <<d.Id>>, d.Volts),
                           Always("cpu_voltage", <<d.Id>>, d.Volts), {}}
    <3>1. CpuVoltage(d) = Present("cpu_voltage", <<d.Id>>, d.Volts)
            \/ CpuVoltage(d) = Always("cpu_voltage", <<d.Id>>, d.Volts) \/ CpuVoltage(d) = {}
      BY Zenon DEF CpuVoltage
    <3> QED BY <3>1
  <2> QED BY <2>1, SamplesSound, NothingSound DEF Zeroed, ProcessorKinds
<1>2. Sound(ProcessorKinds, CpuCurrentSpeed(d))
  <2>1. \A v : Sound(ProcessorKinds, Always("cpu_current_speed", <<d.Id>>, v))
    BY SamplesSound DEF Zeroed, ProcessorKinds
  <2> QED BY <2>1 DEF CpuCurrentSpeed, Sound
<1> QED BY <1>1, <1>2, SamplesSound, PartsSound DEF CpuSeries, Zeroed, ProcessorKinds

-----------------------------------------------------------------------------
\* What the groups send

\* The system.
LEMMA SystemSound == ASSUME NEW w PROVE Sound(SystemKinds, RefreshSystem(w))
<1> DEFINE All(d) == SystemSeries([d EXCEPT !.IndicatorLED =
                       IF w.vendor = "Hpe" THEN FirstPresent(@, d.HpeIndicatorLED) ELSE @])
<1>1. RefreshSystem(w) = Answer(w, w.path.System, All(w.doc[w.path.System]))
  BY Zenon DEF RefreshSystem, Fetch, Answer
<1>2. ASSUME NEW d PROVE Sound(SystemKinds, All(d))
  BY SensorEmitters
<1> HIDE DEF All
<1> QED BY <1>1, <1>2, AnswerSound

\* The manager.
LEMMA ManagerSound == ASSUME NEW w PROVE Sound(ManagerKinds, RefreshManager(w))
<1> DEFINE All(d) ==
             ManagerSeries(d,
               IF w.vendor = "Dell" /\ DellAttributesPath \in d.DellAttributes /\ Get(w, DellAttributesPath)
               THEN w.doc[DellAttributesPath].InfoHWModel ELSE d.Model)
<1>1. RefreshManager(w) = Answer(w, w.path.Manager, All(w.doc[w.path.Manager]))
  BY Zenon DEF RefreshManager, Fetch, Answer
<1>2. ASSUME NEW d PROVE Sound(ManagerKinds, All(d))
  BY OtherEmitters
<1> HIDE DEF All
<1> QED BY <1>1, <1>2, AnswerSound

\* The processors.
LEMMA ProcessorsSound == ASSUME NEW w PROVE Sound(ProcessorKinds, RefreshProcessors(w))
<1> DEFINE Cpu(d) ==
             LET state == IF w.vendor = "Hpe" /\ w.ilo4 /\ d.State = "" /\ d.Health # "none"
                          THEN "Enabled" ELSE d.State
             IN  IF d.ProcessorType = "CPU" /\ state = "Enabled" THEN CpuSeries(d) ELSE {}
           links == Linked(w, w.path.Processors)
           sent == [i \in Firsts(links) |-> Answer(w, links[i], Cpu(w.doc[links[i]]))]
<1>1. RefreshProcessors(w) = Toured(w, w.path.Processors, sent)
  BY Zenon DEF RefreshProcessors, Collection, Fetch, Walk, With, Visits, Toured, Tour, Stops, Answer, Linked
<1>2. ASSUME NEW d PROVE Sound(ProcessorKinds, Cpu(d))
  BY CpuSound, NothingSound
<1> HIDE DEF Cpu
<1>3. \A i \in Firsts(links) : Sound(ProcessorKinds, sent[i])
  BY <1>2, AnswerSound
<1> HIDE DEF sent
<1> QED BY <1>1, <1>3, TouredSound

\* The memory.
LEMMA MemorySound == ASSUME NEW w PROVE Sound(MemoryKinds, RefreshMemory(w))
<1> DEFINE Module(d) == IF w.vendor = "Hpe" /\ w.ilo4
                        THEN [d EXCEPT !.Health = d.DIMMStatus, !.CapacityMiB = d.SizeMB] ELSE d
           All(d)    == IF d.State = "Absent" \/ d.Id = "" THEN {} ELSE MemorySeries(Module(d))
           links     == Linked(w, w.path.Memory)
           sent      == [i \in Firsts(links) |-> Answer(w, links[i], All(w.doc[links[i]]))]
<1>1. RefreshMemory(w) = Toured(w, w.path.Memory, sent)
  BY Zenon DEF RefreshMemory, Collection, Fetch, Walk, With, Visits, Toured, Tour, Stops, Answer, Linked
<1>2. ASSUME NEW d PROVE Sound(MemoryKinds, All(d))
  BY StorageEmitters, NothingSound
<1> HIDE DEF All
<1>3. \A i \in Firsts(links) : Sound(MemoryKinds, sent[i])
  BY <1>2, AnswerSound
<1> HIDE DEF sent
<1> QED BY <1>1, <1>3, TouredSound

\* Dell's own resource.
LEMMA DellSound == ASSUME NEW w PROVE Sound(DellKinds, RefreshDell(w))
<1>1. \/ RefreshDell(w) = Answer(w, DellSystemPath, DellSystemSeries(w.doc[DellSystemPath]))
      \/ RefreshDell(w) = {}
  BY Zenon DEF RefreshDell, Fetch, Answer
<1> QED BY <1>1, OtherEmitters, AnswerSound, NothingSound

\* The power distribution units.
LEMMA PDUsSound == ASSUME NEW w PROVE Sound(PduKinds, RefreshPDUs(w))
<1> DEFINE Unit(d) == Then(PduSeries(d), Answer(w, d.Metrics, PduMetrics(d.Id, w.doc[d.Metrics])))
           links   == w.path.RackPDUs
           sent    == [i \in Firsts(links) |-> Answer(w, links[i], Unit(w.doc[links[i]]))]
<1>1. RefreshPDUs(w) = Gathered(Stops(links, sent))
  BY Zenon DEF RefreshPDUs, Fetch, Visits, Stops, Answer
<1>2. ASSUME NEW d PROVE Sound(PduKinds, Unit(d))
  BY OtherEmitters, AnswerSound, PartsSound
<1> HIDE DEF Unit
<1>3. \A v \in Stops(links, sent) : Sound(PduKinds, v.sent)
  BY <1>2, AnswerSound DEF Stops
<1> HIDE DEF sent
<1> QED BY <1>1, <1>3, VisitsSound

\* The event log.
LEMMA EventsSound == ASSUME NEW w PROVE Sound(EventKinds, RefreshEventLog(w))
<1> DEFINE entries == w.doc[EventPath(w)].Entries
           All     == Rows(entries, LAMBDA n, e : EventRow(w, e))
<1>1. RefreshEventLog(w) = {} \/ RefreshEventLog(w) = Answer(w, EventPath(w), All)
  BY Zenon DEF RefreshEventLog, Fetch, Answer
<1>2. ASSUME NEW e PROVE Sound(EventKinds, EventRow(w, e))
  BY OtherEmitters, NothingSound DEF EventRow
<1>3. \A x \in {Placed(i, EventRow(w, entries[i])) : i \in DOMAIN entries} : Sound(EventKinds, x)
  BY <1>2, PlacedSound
<1>4. Sound(EventKinds, All)
  BY <1>3, UnionSound DEF Rows
<1> HIDE DEF All
<1> QED BY <1>1, <1>4, AnswerSound, NothingSound

\* The network.
LEMMA PortsSound == ASSUME NEW w, NEW ni PROVE Sound(NetworkKinds, Ports(w, ni))
<1> DEFINE at    == IF ni.Ports # "" THEN ni.Ports ELSE ni.NetworkPorts
           links == Linked(w, at)
           sent  == [i \in Firsts(links) |->
                       Answer(w, links[i], PortSeries(ni.Id, PortId(w, ni, links[i], w.doc[links[i]]),
                                                      w.doc[links[i]]))]
<1>1. Ports(w, ni) = Toured(w, at, sent)
  BY Zenon DEF Ports, Collection, Fetch, Walk, With, Visits, Toured, Tour, Stops, Answer, Linked
<1>2. \A i \in Firsts(links) : Sound(NetworkKinds, sent[i])
  BY NetworkEmitters, AnswerSound
<1> HIDE DEF sent, at
<1> QED BY <1>1, <1>2, TouredSound

\* An adapter with its ports.
LEMMA AdapterSound == ASSUME NEW w, NEW ni PROVE Sound(NetworkKinds, Adapter(w, ni))
<1> DEFINE speed(n, mbps) == PortSpeed(ni.Id, Itoa(n), mbps, "none", "none")
           list     == ni.PhysicalPorts
           physical == Rows(list, speed)
           own      == AdapterInfo(ni) \cup AdapterHealth(ni)
<1>1. Adapter(w, ni) = AdapterInfo(ni) \cup physical \/ Adapter(w, ni) = Then(own, Ports(w, ni))
  BY Zenon DEF Adapter
<1>2. Sound(NetworkKinds, physical)
  <2>1. ASSUME NEW n, NEW mbps PROVE Sound(NetworkKinds, speed(n, mbps))
    BY NetworkEmitters
  <2> HIDE DEF speed, list
  <2>2. \A x \in {Placed(i, speed(i, list[i])) : i \in DOMAIN list} : Sound(NetworkKinds, x)
    BY <2>1, PlacedSound
  <2> QED BY <2>2, UnionSound DEF Rows
<1>3. Sound(NetworkKinds, own)
  BY NetworkEmitters, PartsSound
<1>4. Sound(NetworkKinds, AdapterInfo(ni)) /\ Sound(NetworkKinds, Ports(w, ni))
  BY NetworkEmitters, PortsSound
<1> HIDE DEF speed, list, physical, own
<1>5. Sound(NetworkKinds, AdapterInfo(ni) \cup physical) /\ Sound(NetworkKinds, Then(own, Ports(w, ni)))
  BY <1>2, <1>3, <1>4, PartsSound
<1> QED BY <1>1, <1>5

\* All adapters.
LEMMA NetworkSound == ASSUME NEW w PROVE Sound(NetworkKinds, RefreshNetwork(w))
<1> DEFINE links == Linked(w, w.path.Network)
           sent  == [i \in Firsts(links) |-> Answer(w, links[i], Adapter(w, w.doc[links[i]]))]
<1>1. RefreshNetwork(w) = Toured(w, w.path.Network, sent)
  BY Zenon DEF RefreshNetwork, Collection, Fetch, Walk, With, Visits, Toured, Tour, Stops, Answer, Linked
<1>2. \A i \in Firsts(links) : Sound(NetworkKinds, sent[i])
  BY AdapterSound, AnswerSound
<1> HIDE DEF sent
<1> QED BY <1>1, <1>2, TouredSound

\* The drives of a storage unit.
LEMMA DrivesSound == ASSUME NEW w, NEW parent, NEW links PROVE Sound(StorageKinds, Drives(w, parent, links))
<1> DEFINE sent == [i \in Firsts(links) |-> Answer(w, links[i], Drive(w, parent, w.doc[links[i]]))]
<1>1. Drives(w, parent, links) = Tour(links, sent)
  BY Zenon DEF Drives, Fetch, Walk, With, Visits, Tour, Stops, Answer
<1>2. ASSUME NEW x PROVE Sound(StorageKinds, Drive(w, parent, x))
  BY StorageEmitters, NothingSound DEF Drive
<1>3. \A v \in Stops(links, sent) : Sound(StorageKinds, v.sent)
  BY <1>2, AnswerSound DEF Stops
<1> HIDE DEF sent
<1> QED BY <1>1, <1>3, VisitsSound DEF Tour

\* Its controllers.
LEMMA ControllersSound == ASSUME NEW w, NEW d PROVE Sound(StorageKinds, Controllers(w, d))
<1> DEFINE links == Linked(w, d.Controllers)
           sent  == [i \in Firsts(links) |->
                       Answer(w, links[i], ControllerSeries(d.Id, w.doc[links[i]].Id, w.doc[links[i]]))]
           list  == d.StorageControllers
           row(n, x) == ControllerSeries(d.Id, InlineId(x), x)
<1>1. Controllers(w, d) = IF d.Controllers # "" THEN Toured(w, d.Controllers, sent) ELSE Rows(list, row)
  BY Zenon DEF Controllers, Collection, Fetch, Walk, With, Visits, Toured, Tour, Stops, Answer, Linked
<1>2. \A i \in Firsts(links) : Sound(StorageKinds, sent[i])
  BY StorageEmitters, AnswerSound
<1>3. ASSUME NEW n, NEW x PROVE Sound(StorageKinds, row(n, x))
  BY StorageEmitters
<1> HIDE DEF row, list
<1>4. \A x \in {Placed(i, row(i, list[i])) : i \in DOMAIN list} : Sound(StorageKinds, x)
  BY <1>3, PlacedSound
<1>5. Sound(StorageKinds, Rows(list, row))
  BY <1>4, UnionSound DEF Rows
<1> HIDE DEF sent
<1>6. Sound(StorageKinds, Toured(w, d.Controllers, sent))
  BY <1>2, TouredSound
<1> QED BY Zenon, <1>1, <1>5, <1>6

\* Its volumes.
LEMMA VolumesSound == ASSUME NEW w, NEW d PROVE Sound(StorageKinds, Volumes(w, d))
<1> DEFINE links == Linked(w, d.Volumes)
           sent  == [i \in Firsts(links) |-> Answer(w, links[i], VolumeSeries(d.Id, w.doc[links[i]]))]
<1>1. Volumes(w, d) = {} \/ Volumes(w, d) = Toured(w, d.Volumes, sent)
  BY Zenon DEF Volumes, Collection, Fetch, Walk, With, Visits, Toured, Tour, Stops, Answer, Linked
<1>2. \A i \in Firsts(links) : Sound(StorageKinds, sent[i])
  BY StorageEmitters, AnswerSound
<1> HIDE DEF sent
<1> QED BY <1>1, <1>2, TouredSound, NothingSound

\* All storage units.
LEMMA StorageSound == ASSUME NEW w PROVE Sound(StorageKinds, RefreshStorage(w))
<1> DEFINE All(r, d) == IF w.vendor = "Hpe" /\ w.ilo4 THEN Ilo4Storage(w, r, d) ELSE StorageUnit(w, d)
           links     == Linked(w, w.path.Storage)
           sent      == [i \in Firsts(links) |-> Answer(w, links[i], All(links[i], w.doc[links[i]]))]
<1>1. RefreshStorage(w) = Toured(w, w.path.Storage, sent)
  BY Zenon DEF RefreshStorage, Collection, Fetch, Walk, With, Visits, Toured, Tour, Stops, Answer, Linked
<1>2. ASSUME NEW d PROVE Sound(StorageKinds, Own(d))
  BY StorageEmitters, BatterySound, PartsSound DEF Own
<1>3. ASSUME NEW d PROVE Sound(StorageKinds, StorageUnit(w, d))
  BY <1>2, DrivesSound, ControllersSound, VolumesSound, PartsSound DEF StorageUnit
<1>4. ASSUME NEW r, NEW d PROVE Sound(StorageKinds, Ilo4Storage(w, r, d))
  <2> DEFINE at  == r \o "DiskDrives/"
             all == Then(Own(d), Drives(w, d.Id, Members(<<>>, w.doc[at])))
  <2>1. Ilo4Storage(w, r, d) = Answer(w, at, all)
    BY Zenon DEF Ilo4Storage, Fetch, Answer
  <2>2. Sound(StorageKinds, all)
    BY <1>2, DrivesSound, PartsSound
  <2> HIDE DEF at, all
  <2> QED BY <2>1, <2>2, AnswerSound
<1>5. ASSUME NEW r, NEW d PROVE Sound(StorageKinds, All(r, d))
  BY <1>3, <1>4
<1> HIDE DEF All
<1>6. \A i \in Firsts(links) : Sound(StorageKinds, sent[i])
  BY <1>5, AnswerSound
<1> HIDE DEF sent
<1> QED BY <1>1, <1>6, TouredSound

\* The sensors.
LEMMA SensorsSound == ASSUME NEW w PROVE Sound(SensorKinds, RefreshSensors(w))
<1>1. Sound(SensorKinds, RefreshSensorsOld(w))
  <2> DEFINE temperatures == w.doc[w.path.Thermal].Temperatures
             fans == w.doc[w.path.Thermal].Fans
  <2>1. RefreshSensorsOld(w) =
          Answer(w, w.path.Thermal, Rows(temperatures, OldTemperature) \cup Rows(fans, OldFan))
    BY Zenon DEF RefreshSensorsOld, Fetch, Answer
  <2>2. \A n, t : Sound(SensorKinds, OldTemperature(n, t)) /\ Sound(SensorKinds, OldFan(n, t))
    BY SensorEmitters, NothingSound DEF OldTemperature, OldFan
  <2> HIDE DEF temperatures, fans
  <2>3. \A x \in {Placed(i, OldTemperature(i, temperatures[i])) : i \in DOMAIN temperatures} : Sound(SensorKinds, x)
    BY <2>2, PlacedSound
  <2>4. \A x \in {Placed(i, OldFan(i, fans[i])) : i \in DOMAIN fans} : Sound(SensorKinds, x)
    BY <2>2, PlacedSound
  <2>5. Sound(SensorKinds, Rows(temperatures, OldTemperature)) /\ Sound(SensorKinds, Rows(fans, OldFan))
    BY <2>3, <2>4, UnionSound DEF Rows
  <2> QED BY <2>1, <2>5, PartsSound, AnswerSound
<1>2. Sound(SensorKinds, RefreshSensorsNew(w))
  <2> DEFINE at      == w.path.ThermalSubsystem
             d       == w.doc[at]
             links   == Linked(w, d.Fans)
             sent    == [i \in Firsts(links) |-> Answer(w, links[i], ThermalFan(w.doc[links[i]]))]
             fans    == IF d.Fans = "" THEN {} ELSE Toured(w, d.Fans, sent)
             list    == w.doc[d.ThermalMetrics].TemperatureReadings
             readings == Rows(list, LAMBDA n, t : ThermalReading(w, n, t))
             metrics == IF d.ThermalMetrics = "" THEN {} ELSE Answer(w, d.ThermalMetrics, readings)
  <2>1. RefreshSensorsNew(w) = Answer(w, at, Then(fans, metrics))
    BY Zenon DEF RefreshSensorsNew, Collection, Fetch, Walk, With, Visits, Toured, Tour, Stops, Answer, Linked
  <2>2. \A n, t : Sound(SensorKinds, ThermalReading(w, n, t)) /\ Sound(SensorKinds, ThermalFan(t))
    BY SensorEmitters, NothingSound DEF ThermalReading, ThermalFan
  <2>3. \A x \in {Placed(i, ThermalReading(w, i, list[i])) : i \in DOMAIN list} : Sound(SensorKinds, x)
    BY <2>2, PlacedSound
  <2>4. Sound(SensorKinds, readings)
    BY <2>3, UnionSound DEF Rows
  <2>5. \A i \in Firsts(links) : Sound(SensorKinds, sent[i])
    BY <2>2, AnswerSound
  <2> HIDE DEF sent, readings
  <2>6. Sound(SensorKinds, fans)
    BY <2>5, TouredSound, NothingSound
  <2>7. Sound(SensorKinds, metrics)
    BY <2>4, AnswerSound, NothingSound
  <2> HIDE DEF fans, metrics, at
  <2> QED BY <2>1, <2>6, <2>7, PartsSound, AnswerSound
<1> QED BY <1>1, <1>2, NothingSound DEF RefreshSensors

\* The voltages: a sample of a reading that is given, and of nothing else.
LEMMA VoltagesSound == ASSUME NEW d PROVE Sound(VoltageKinds, emitVoltages(d))
<1>1. ASSUME NEW n, NEW v PROVE Sound(VoltageKinds, VoltageRow(n, v))
  <2> DEFINE row == Voltage(Itoa(n), v.Name, v.ReadingVolts)
  <2>1. v.ReadingVolts \in Given => Sound(VoltageKinds, row)
    <3>1. \A labels, x : x \in Given => Sound(VoltageKinds, Always("voltage", labels, x))
      BY DEF Sound, Always, Given, VoltageKinds
    <3> QED BY <3>1 DEF Voltage
  <2> QED BY <2>1, NothingSound DEF VoltageRow
<1> DEFINE list == d.Voltages
<1>2. \A x \in {Placed(i, VoltageRow(i, list[i])) : i \in DOMAIN list} : Sound(VoltageKinds, x)
  BY <1>1, PlacedSound
<1> QED BY <1>2, UnionSound DEF emitVoltages, Rows

\* The power as newer machines report it.
LEMMA PowerNewSound == ASSUME NEW w PROVE Sound(PowerKinds, RefreshPowerNew(w))
<1> DEFINE own(p)     == PowerSupplyHealth(p.Id, p.Health) \cup PowerSupplyCapacity(p.Id, p.PowerCapacityWatts)
           metrics(p) == IF p.Metrics = "" THEN {}
                         ELSE Answer(w, p.Metrics, SupplyMetrics(p.Id, w.doc[p.Metrics]))
           supply(p)  == Then(own(p), metrics(p))
           at         == w.path.PowerSubsystem
           d          == w.doc[at]
           links      == Linked(w, d.PowerSupplies)
           sent       == [i \in Firsts(links) |-> Answer(w, links[i], supply(w.doc[links[i]]))]
           all        == IF d.PowerSupplies = "" THEN {} ELSE Toured(w, d.PowerSupplies, sent)
<1>1. RefreshPowerNew(w) = Answer(w, at, all)
  BY Zenon DEF RefreshPowerNew, Collection, Fetch, Walk, With, Visits, Toured, Tour, Stops, Answer, Linked
<1>2. ASSUME NEW p PROVE Sound(PowerKinds, supply(p))
  <2>1. Sound(PowerKinds, own(p))
    BY PowerEmitters, PartsSound
  <2>2. Sound(PowerKinds, SupplyMetrics(p.Id, w.doc[p.Metrics]))
    BY PowerEmitters, PartsSound DEF SupplyMetrics
  <2>3. Sound(PowerKinds, metrics(p))
    BY <2>2, AnswerSound, NothingSound
  <2> QED BY <2>1, <2>3, PartsSound
<1> HIDE DEF supply
<1>3. \A i \in Firsts(links) : Sound(PowerKinds, sent[i])
  BY <1>2, AnswerSound
<1> HIDE DEF sent
<1>4. Sound(PowerKinds, all)
  BY <1>3, TouredSound, NothingSound
<1> HIDE DEF all, at
<1> QED BY <1>1, <1>4, AnswerSound

\* The power as older machines report it: the voltages are in the same resource, and
\* are sent with the rest if the sensors are wanted.
LEMMA PowerOldIs ==
  ASSUME NEW w
  PROVE  \E rest :
           /\ Sound(PowerKinds, rest)
           /\ RefreshPowerOld(w) =
                Answer(w, w.path.Power,
                       rest \cup IF "sensors" \in w.cfg THEN emitVoltages(w.doc[w.path.Power]) ELSE {})
<1> DEFINE d        == w.doc[w.path.Power]
           supplies == d.PowerSupplies
           controls == d.PowerControl
           rows     == Rows(supplies, LAMBDA n, p : PowerSupplyRow(w, d, n, p))
           lines    == Rows(controls, LAMBDA n, pc : PowerControlRow(w, d, n))
           volts    == IF "sensors" \in w.cfg THEN emitVoltages(d) ELSE {}
           rest     == rows \cup ChassisPower(w, d) \cup lines
<1>1. RefreshPowerOld(w) = Answer(w, w.path.Power, rest \cup volts)
  BY Zenon DEF RefreshPowerOld, Fetch, Answer
<1>2. ASSUME NEW n, NEW p PROVE Sound(PowerKinds, PowerSupplyRow(w, d, n, p))
  BY PowerEmitters, PartsSound, NothingSound DEF PowerSupplyRow
<1>3. ASSUME NEW n PROVE Sound(PowerKinds, PowerControlRow(w, d, n))
  BY PowerEmitters, PartsSound, NothingSound DEF PowerControlRow
<1>4. Sound(PowerKinds, ChassisPower(w, d))
  BY PowerEmitters, NothingSound DEF ChassisPower
<1>5. Sound(PowerKinds, rows)
  <2>1. \A x \in {Placed(i, PowerSupplyRow(w, d, i, supplies[i])) : i \in DOMAIN supplies} : Sound(PowerKinds, x)
    BY <1>2, PlacedSound
  <2> QED BY <2>1, UnionSound DEF Rows
<1>6. Sound(PowerKinds, lines)
  <2>1. \A x \in {Placed(i, PowerControlRow(w, d, i)) : i \in DOMAIN controls} : Sound(PowerKinds, x)
    BY <1>3, PlacedSound
  <2> QED BY <2>1, UnionSound DEF Rows
<1> HIDE DEF rows, lines
<1>7. Sound(PowerKinds, rest)
  BY <1>4, <1>5, <1>6, PartsSound
<1> HIDE DEF rest
<1> QED BY <1>1, <1>7

\* So the power is sound, with the voltages that come with it if the sensors are wanted.
LEMMA PowerOldSound ==
  ASSUME NEW w
  PROVE  Sound(IF "sensors" \in w.cfg THEN PowerKinds \cup VoltageKinds ELSE PowerKinds, RefreshPowerOld(w))
<1> DEFINE volts == IF "sensors" \in w.cfg THEN emitVoltages(w.doc[w.path.Power]) ELSE {}
           kinds == IF "sensors" \in w.cfg THEN PowerKinds \cup VoltageKinds ELSE PowerKinds
<1>1. PICK rest : Sound(PowerKinds, rest) /\ RefreshPowerOld(w) = Answer(w, w.path.Power, rest \cup volts)
  BY PowerOldIs
<1>2. Sound(kinds, rest) /\ Sound(kinds, volts)
  BY <1>1, VoltagesSound, SoundMore, NothingSound
<1> HIDE DEF volts, kinds
<1>3. Sound(kinds, rest \cup volts)
  BY <1>2, PartsSound
<1>4. Sound(kinds, Answer(w, w.path.Power, rest \cup volts))
  BY <1>3, AnswerSound
<1> QED BY <1>1, <1>4 DEF kinds, volts

\* What a group may send: the voltages may come with the power if the sensors are wanted.
Kinds(cfg, group) ==
  [system  |-> SystemKinds, sensors |-> SensorKinds, voltages |-> VoltageKinds,
   power   |-> IF "sensors" \in cfg THEN PowerKinds \cup VoltageKinds ELSE PowerKinds,
   network |-> NetworkKinds, events |-> EventKinds, storage |-> StorageKinds, memory |-> MemoryKinds,
   processors |-> ProcessorKinds, manager |-> ManagerKinds, extra |-> DellKinds, pdus |-> PduKinds][group]

\* No metric group sends a value the BMC did not report, but for the metrics that are
\* known for it, and each sends its own metrics only.
THEOREM GroupsHonest ==
  ASSUME NEW w, NEW group \in GroupNames
  PROVE  Sound(Kinds(w.cfg, group), Refresh(w, group))
<1>1. CASE group = "voltages"
  <2>1. \/ RefreshVoltages(w) = {} \/ RefreshVoltages(w) = Failed
        \/ RefreshVoltages(w) = emitVoltages(w.doc[w.path.Power])
    BY Zenon DEF RefreshVoltages, Fetch
  <2>2. Sound(VoltageKinds, RefreshVoltages(w))
    BY <2>1, VoltagesSound, NothingSound, FailureSound
  <2> QED BY <1>1, <2>2, RefreshIs DEF Kinds
<1>2. CASE group = "power"
  <2> DEFINE kinds == IF "sensors" \in w.cfg THEN PowerKinds \cup VoltageKinds ELSE PowerKinds
  <2>1. Sound(kinds, RefreshPowerOld(w)) /\ Sound(kinds, RefreshPowerNew(w)) /\ Sound(kinds, {})
    BY PowerOldSound, PowerNewSound, NothingSound, SoundMore
  <2>2. Kinds(w.cfg, group) = kinds
    BY <1>2 DEF Kinds
  <2> HIDE DEF kinds
  <2>3. Sound(kinds, RefreshPower(w))
    BY <2>1 DEF RefreshPower
  <2> QED BY <1>2, <2>2, <2>3, RefreshIs
<1>3. CASE group \notin {"voltages", "power"}
  BY <1>3, RefreshIs, SystemSound, SensorsSound, NetworkSound, StorageSound, MemorySound,
     ProcessorsSound, ManagerSound, DellSound, PDUsSound, EventsSound DEF GroupNames, Kinds
<1> QED BY <1>1, <1>2, <1>3

\* No metric belongs to two groups ...
LEMMA KindsApart ==
  ASSUME NEW g \in GroupNames, NEW h \in GroupNames, g # h, NEW cfg,
         "power" \in {g, h} /\ "voltages" \in {g, h} => "sensors" \notin cfg
  PROVE  Kinds(cfg, g) \cap Kinds(cfg, h) = {}
<1> DEFINE Is(k) == Kinds(cfg, k)
<1>1. /\ Is("system") = SystemKinds /\ Is("sensors") = SensorKinds /\ Is("voltages") = VoltageKinds
      /\ Is("power") = IF "sensors" \in cfg THEN PowerKinds \cup VoltageKinds ELSE PowerKinds
      /\ Is("network") = NetworkKinds /\ Is("events") = EventKinds /\ Is("storage") = StorageKinds
      /\ Is("memory") = MemoryKinds /\ Is("processors") = ProcessorKinds
      /\ Is("manager") = ManagerKinds /\ Is("extra") = DellKinds /\ Is("pdus") = PduKinds
  BY DEF Kinds
<1> USE DEF SystemKinds, SensorKinds, VoltageKinds, PowerKinds, NetworkKinds, EventKinds, StorageKinds,
            MemoryKinds, ProcessorKinds, ManagerKinds, DellKinds, PduKinds
<1> HIDE DEF Is
<1>2. Is(g) \cap Is(h) = {}
  BY <1>1 DEF GroupNames
<1> QED BY <1>2 DEF Is

-----------------------------------------------------------------------------
\* The voltages themselves

\* The entries of the array of voltages that have a name and a reading.
RailsOf(d) == {i \in DOMAIN d.Voltages : VoltageRow(i, d.Voltages[i]) # {}}

\* A sample of a voltage that was sent from some place.
VoltSample(labels, v, at) == [metric |-> "voltage", labels |-> labels, from |-> v, at |-> at]

\* The sample of entry i, as call c sent it.
RailSample(c, d, i) == VoltSample(<<Itoa(i), d.Voltages[i].Name>>, d.Voltages[i].ReadingVolts, <<c, i>>)

\* A place, as it is seen from further up.
Under(a, at) == <<a>> \o at

\* The samples of all of them.
RailSamples(c, d) == {RailSample(c, d, i) : i \in RailsOf(d)}

\* How places are put together.
LEMMA Places ==
  ASSUME NEW a, NEW b
  PROVE  Under(a, <<>>) = <<a>> /\ Under(a, <<b>>) = <<a, b>>
<1> DEFINE S == {a, b}
           t == <<a>> \o <<b>>
<1>1. <<a>> \in Seq(S) /\ <<b>> \in Seq(S) /\ <<a, b>> \in Seq(S)
  OBVIOUS
<1>2. Len(<<a>>) = 1 /\ Len(<<b>>) = 1 /\ Len(<<a, b>>) = 2
  OBVIOUS
<1>3. t \in Seq(S) /\ Len(t) = 2
  BY <1>1, <1>2
<1>4. t[1] = a /\ t[2] = b
  BY <1>1, <1>2
<1>5. <<a>> \o <<>> = <<a>>
  BY <1>1
<1> HIDE DEF t
<1>6. t = <<a, b>>
  BY <1>1, <1>2, <1>3, <1>4
<1> QED BY <1>5, <1>6 DEF t, Under

\* A series that is sent on from place i.
Moved(i, s) == [s EXCEPT !.at = <<i>> \o @]

\* What is placed is moved.
LEMMA PlacedMoves == ASSUME NEW i, NEW sent PROVE Placed(i, sent) = {Moved(i, s) : s \in sent}
BY Zenon DEF Placed, Moved

\* A sample that is sent on has another place and is the same otherwise.
LEMMA SampleMoves ==
  ASSUME NEW i, NEW labels, NEW v, NEW at
  PROVE  Moved(i, VoltSample(labels, v, at)) = VoltSample(labels, v, Under(i, at))
<1>1. VoltSample(labels, v, at).at = at
  BY DEF VoltSample
<1>2. [VoltSample(labels, v, at) EXCEPT !.at = Under(i, at)] = VoltSample(labels, v, Under(i, at))
  BY DEF VoltSample
<1> QED BY <1>1, <1>2 DEF Moved, Under

\* There is one sample for each of those entries.
LEMMA VoltagesAre ==
  ASSUME NEW d, NEW c
  PROVE  Placed(c, emitVoltages(d)) = RailSamples(c, d)
<1> DEFINE list == d.Voltages
           sample(i, at) == VoltSample(<<Itoa(i), list[i].Name>>, list[i].ReadingVolts, at)
<1>1. ASSUME NEW i PROVE VoltageRow(i, list[i]) = {} \/ VoltageRow(i, list[i]) = {sample(i, <<>>)}
  BY Zenon DEF VoltageRow, Voltage, Always, VoltSample
<1>2. ASSUME NEW i PROVE Moved(i, sample(i, <<>>)) = sample(i, <<i>>)
  BY Places, SampleMoves
<1>3. ASSUME NEW i PROVE Moved(c, sample(i, <<i>>)) = RailSample(c, d, i)
  BY Places, SampleMoves DEF RailSample
<1>4. \A i : i \in RailsOf(d) <=> i \in DOMAIN list /\ VoltageRow(i, list[i]) # {}
  BY DEF RailsOf
<1>5. emitVoltages(d) = UNION {Placed(i, VoltageRow(i, list[i])) : i \in DOMAIN list}
  BY DEF emitVoltages, Rows
<1> HIDE DEF list, sample
<1>6. ASSUME NEW i \in DOMAIN list
      PROVE  Placed(i, VoltageRow(i, list[i])) = IF i \in RailsOf(d) THEN {sample(i, <<i>>)} ELSE {}
  <2>1. CASE i \in RailsOf(d)
    BY <1>1, <1>2, <1>4, <2>1, PlacedMoves
  <2>2. CASE i \notin RailsOf(d)
    BY <1>4, <2>2, PlacedMoves
  <2> QED BY <2>1, <2>2
<1>7. emitVoltages(d) = {sample(i, <<i>>) : i \in RailsOf(d)}
  <2>1. ASSUME NEW s \in emitVoltages(d) PROVE \E i \in RailsOf(d) : s = sample(i, <<i>>)
    BY <1>5, <1>6
  <2>2. ASSUME NEW i \in RailsOf(d) PROVE sample(i, <<i>>) \in emitVoltages(d)
    BY <1>4, <1>5, <1>6
  <2> QED BY <2>1, <2>2
<1>8. Placed(c, emitVoltages(d)) = {Moved(c, s) : s \in emitVoltages(d)}
  BY PlacedMoves
<1>9. {Moved(c, s) : s \in emitVoltages(d)} = {Moved(c, sample(i, <<i>>)) : i \in RailsOf(d)}
  BY <1>7
<1> QED BY <1>3, <1>8, <1>9 DEF RailSamples
-----------------------------------------------------------------------------
\* What is sent once.  The series of a result are of the metrics in kinds and carry labels
\* in labels, and no two of them agree in both.
Distinct(kinds, labels, sent) ==
  \A s \in sent :
    /\ {"metric", "labels", "from", "at"} \subseteq DOMAIN s
    /\ \/ s.metric = "failure"
       \/ /\ s.metric \in kinds /\ s.labels \in labels
          /\ \A t \in sent : t.metric = s.metric /\ t.labels = s.labels => t = s

\* A series, as an emitter makes it.
Sample(metric, labels, v) == [metric |-> metric, labels |-> labels, from |-> v, at |-> <<>>]

\* Each of the ways to send one sends just this one or nothing.
LEMMA SamplesAre ==
  ASSUME NEW metric, NEW labels, NEW v
  PROVE  /\ Always(metric, labels, v) \subseteq {Sample(metric, labels, v)}
         /\ NotNil(metric, labels, v) \subseteq {Sample(metric, labels, v)}
         /\ Info(metric, labels) \subseteq {Sample(metric, labels, "info")}
         /\ Present(metric, labels, v) \subseteq {Sample(metric, labels, v)}
         /\ Health(metric, labels, v) \subseteq {Sample(metric, labels, v)}
         /\ Nonzero(metric, labels, v) \subseteq {Sample(metric, labels, v)}
BY DEF Sample, Always, NotNil, Info, Present, Health, Nonzero

\* Samples of one set of labels are distinct if their metrics determine their values.
LEMMA RowDistinct ==
  ASSUME NEW kinds, NEW l, NEW sent,
         \A s \in sent : \E m \in kinds : \E v : s = Sample(m, l, v),
         \A s, t \in sent : s.metric = t.metric => s = t
  PROVE  Distinct(kinds, {l}, sent)
<1>1. ASSUME NEW m, NEW v
      PROVE  /\ {"metric", "labels", "from", "at"} \subseteq DOMAIN Sample(m, l, v)
             /\ Sample(m, l, v).metric = m /\ Sample(m, l, v).labels = l
  BY DEF Sample
<1> QED BY <1>1 DEF Distinct

\* Fewer series, more metrics and more labels are fine.
LEMMA DistinctMore ==
  ASSUME NEW kinds, NEW more, kinds \subseteq more, NEW labels, NEW wider, labels \subseteq wider,
         NEW sent, NEW part, part \subseteq sent, Distinct(kinds, labels, sent)
  PROVE  Distinct(more, wider, part)
BY DEF Distinct

\* Nothing and a failure have no series that could be there twice.
LEMMA NothingDistinct ==
  ASSUME NEW kinds, NEW labels
  PROVE  Distinct(kinds, labels, {}) /\ Distinct(kinds, labels, Failed)
BY DEF Distinct, Failed, Info, Always

\* Two parts that differ in their metrics or in their labels.
LEMMA PartsDistinct ==
  ASSUME NEW k1, NEW l1, NEW a, Distinct(k1, l1, a), NEW k2, NEW l2, NEW b, Distinct(k2, l2, b),
         k1 \cap k2 = {} \/ l1 \cap l2 = {}
  PROVE  Distinct(k1 \cup k2, l1 \cup l2, a \cup b) /\ Distinct(k1 \cup k2, l1 \cup l2, Then(a, b))
<1>1. Distinct(k1 \cup k2, l1 \cup l2, a \cup b)
  BY DEF Distinct
<1>2. Then(a, b) \subseteq a \cup b
  BY ThenIs
<1> QED BY <1>1, <1>2, DistinctMore

\* The place that is added on the way up does not matter.
LEMMA PlacedDistinct ==
  ASSUME NEW kinds, NEW labels, NEW sent, NEW i, Distinct(kinds, labels, sent)
  PROVE  Distinct(kinds, labels, Placed(i, sent))
<1>1. ASSUME NEW s \in sent
      PROVE  /\ DOMAIN Moved(i, s) = DOMAIN s /\ Moved(i, s).metric = s.metric
             /\ Moved(i, s).labels = s.labels
  <2>1. {"metric", "labels"} \subseteq DOMAIN s
    BY DEF Distinct
  <2> QED BY <2>1 DEF Moved
<1>2. Placed(i, sent) = {Moved(i, s) : s \in sent}
  BY PlacedMoves
<1> QED BY <1>1, <1>2 DEF Distinct

\* Any number of parts, each sent from a place of its own, and their labels.
Heap(S, sent) == UNION {Placed(i, sent[i]) : i \in S}

Joined(S, labels) == UNION {labels[i] : i \in S}

\* The parts are distinct together if their labels differ.
LEMMA HeapDistinct ==
  ASSUME NEW kinds, NEW S, NEW labels, NEW sent,
         \A i \in S : Distinct(kinds, labels[i], sent[i]),
         \A i, j \in S : labels[i] \cap labels[j] # {} => i = j
  PROVE  Distinct(kinds, Joined(S, labels), Heap(S, sent))
<1> DEFINE part(i) == Placed(i, sent[i])
<1>1. \A i \in S : Distinct(kinds, labels[i], part(i))
  BY PlacedDistinct
<1> HIDE DEF part
<1>2. ASSUME NEW i \in S, NEW s \in part(i)
      PROVE  /\ {"metric", "labels", "from", "at"} \subseteq DOMAIN s
             /\ \/ s.metric = "failure"
                \/ /\ s.metric \in kinds /\ s.labels \in labels[i]
                   /\ \A t \in part(i) : t.metric = s.metric /\ t.labels = s.labels => t = s
  BY <1>1, <1>2 DEF Distinct
<1>3. ASSUME NEW i \in S, NEW s \in part(i), NEW j \in S, NEW t \in part(j),
             s.metric # "failure", t.metric = s.metric, t.labels = s.labels
      PROVE  t = s
  <2>1. s.labels \in labels[i] /\ t.labels \in labels[j]
    BY <1>2, <1>3
  <2>2. labels[i] \cap labels[j] # {}
    BY <1>3, <2>1
  <2>3. i = j
    BY <2>2
  <2> QED BY <1>2, <1>3, <2>3
<1> DEFINE all == UNION {part(i) : i \in S}
           wide == UNION {labels[i] : i \in S}
<1>4. ASSUME NEW s \in all
      PROVE  /\ {"metric", "labels", "from", "at"} \subseteq DOMAIN s
             /\ \/ s.metric = "failure"
                \/ /\ s.metric \in kinds /\ s.labels \in wide
                   /\ \A t \in all : t.metric = s.metric /\ t.labels = s.labels => t = s
  <2>1. PICK i \in S : s \in part(i)
    BY <1>4
  <2>2. ASSUME s.metric # "failure", NEW t \in all, t.metric = s.metric, t.labels = s.labels
        PROVE  t = s
    <3>1. PICK j \in S : t \in part(j)
      BY <2>2
    <3> QED BY <1>3, <2>1, <2>2, <3>1
  <2>3. s.metric # "failure" => s.metric \in kinds /\ s.labels \in wide
    BY <1>2, <2>1
  <2> QED BY <1>2, <2>1, <2>2, <2>3
<1>5. Distinct(kinds, wide, all)
  <2> HIDE DEF all, wide
  <2> QED BY <1>4 DEF Distinct
<1> QED BY <1>5 DEF part, Heap, Joined

\* What is followed is a link of its own.
LEMMA FirstsDiffer ==
  ASSUME NEW links, NEW i \in Firsts(links), NEW j \in Firsts(links), links[i] = links[j]
  PROVE  i = j /\ i \in 1..Len(links)
<1>1. ASSUME NEW a \in Firsts(links), NEW b \in Firsts(links), a < b PROVE links[a] # links[b]
  BY <1>1, FirstsNat DEF Firsts
<1>2. i \in 1..Len(links)
  BY DEF Firsts
<1>3. ~(i < j) /\ ~(j < i)
  BY <1>1
<1> QED BY <1>2, <1>3, FirstsNat

\* Only what exists is got.
LEMMA GotExists == ASSUME NEW w, NEW r, Get(w, r) PROVE r \in DOMAIN w.doc
BY DEF Get, Retried, Outcome

\* Visits to resources whose labels differ, all of them or up to the first that fails.
LEMMA VisitsDistinct ==
  ASSUME NEW w, NEW kinds, NEW links, NEW labels, NEW sent,
         \A i \in Firsts(links) :
           IF Get(w, links[i]) THEN Distinct(kinds, labels[links[i]], sent[i]) ELSE sent[i] = Failed,
         \A r, s \in Existing(w, links) : labels[r] \cap labels[s] # {} => r = s
  PROVE  /\ Distinct(kinds, Joined(Existing(w, links), labels), Gathered(Stops(links, sent)))
         /\ Distinct(kinds, Joined(Existing(w, links), labels), Tour(links, sent))
<1> DEFINE own  == [i \in Firsts(links) |-> IF Get(w, links[i]) THEN labels[links[i]] ELSE {}]
           all  == Joined(Existing(w, links), labels)
           heap == Heap(Firsts(links), sent)
<1>1. \A i \in Firsts(links) : Distinct(kinds, own[i], sent[i])
  BY NothingDistinct
<1>2. \A i \in Firsts(links) : Get(w, links[i]) => links[i] \in Existing(w, links)
  BY GotExists, FirstsDiffer DEF Existing
<1>3. ASSUME NEW i \in Firsts(links), NEW j \in Firsts(links), own[i] \cap own[j] # {} PROVE i = j
  <2>1. Get(w, links[i]) /\ Get(w, links[j]) /\ labels[links[i]] \cap labels[links[j]] # {}
    BY <1>3
  <2>2. links[i] = links[j]
    BY <1>2, <2>1
  <2> QED BY <2>2, FirstsDiffer
<1>4. Distinct(kinds, Joined(Firsts(links), own), heap)
  <2> HIDE DEF own
  <2> QED BY <1>1, <1>3, HeapDistinct
<1>5. Joined(Firsts(links), own) \subseteq all
  BY <1>2 DEF Joined
<1>6. Gathered(Stops(links, sent)) \subseteq heap /\ Gathered(Reached(Stops(links, sent))) \subseteq heap
  BY DEF Gathered, Stops, Reached, Heap
<1> HIDE DEF own, all, heap
<1>7. Distinct(kinds, all, Gathered(Stops(links, sent))) /\ Distinct(kinds, all, Tour(links, sent))
  BY <1>4, <1>5, <1>6, DistinctMore DEF Tour
<1> QED BY <1>7 DEF all

\* What is made of the answer to a request.
LEMMA AnswerDistinct ==
  ASSUME NEW kinds, NEW labels, NEW w, NEW r, NEW sent, Get(w, r) => Distinct(kinds, labels, sent)
  PROVE  Distinct(kinds, labels, Answer(w, r, sent))
BY NothingDistinct DEF Answer

\* A walk over a collection whose members have labels that differ.
LEMMA TouredDistinct ==
  ASSUME NEW w, NEW kinds, NEW at, NEW labels, NEW sent,
         Get(w, at) =>
           \A i \in Firsts(Linked(w, at)) :
             IF Get(w, Linked(w, at)[i]) THEN Distinct(kinds, labels[Linked(w, at)[i]], sent[i])
             ELSE sent[i] = Failed,
         \A r, s \in MembersAt(w, at) : labels[r] \cap labels[s] # {} => r = s
  PROVE  Distinct(kinds, Joined(MembersAt(w, at), labels), Toured(w, at, sent))
<1> DEFINE all == Joined(MembersAt(w, at), labels)
<1>1. ASSUME Get(w, at) PROVE Distinct(kinds, all, Tour(Linked(w, at), sent))
  <2>1. MembersAt(w, at) = Existing(w, Linked(w, at))
    BY <1>1, GotExists DEF MembersAt, Linked
  <2> QED BY <1>1, <2>1, VisitsDistinct
<1> HIDE DEF all
<1>2. Distinct(kinds, all, Toured(w, at, sent))
  BY <1>1, AnswerDistinct DEF Toured
<1> QED BY <1>2 DEF all

\* The numerals of two elements differ.
LEMMA ItoaDiffers ==
  ASSUME NEW list, Numbered(list), NEW i \in DOMAIN list, NEW j \in DOMAIN list, Itoa(i) = Itoa(j)
  PROVE  i = j
BY NumeralsAssumption DEF Numbered, Itoa

\* The fields of a sample.
LEMMA SampleFields ==
  ASSUME NEW m, NEW l, NEW v
  PROVE  Sample(m, l, v).metric = m /\ Sample(m, l, v).labels = l
BY DEF Sample

-----------------------------------------------------------------------------
\* What the emitters send, once

\* The system.
LEMMA SystemOnce == ASSUME NEW d PROVE Distinct(SystemKinds, {<<>>}, SystemSeries(d))
<1> DEFINE memory == MemorySize(d)
           cpus   == CpuCount(d)
<1>m. \A s \in memory : s = Sample("memory_size", <<>>, d.TotalSystemMemoryGiB)
  BY SamplesAre DEF MemorySize
<1>c. \A s \in cpus : s = Sample("cpu_count", <<>>, d.ProcessorCount)
  BY SamplesAre DEF CpuCount
<1> HIDE DEF memory, cpus
<1>1. ASSUME NEW s \in SystemSeries(d) PROVE \E m \in SystemKinds : \E v : s = Sample(m, <<>>, v)
  <2>1. \/ s = Sample("power_on", <<>>, d.PowerState)
        \/ s = Sample("system_health", <<>>, d.Health)
        \/ s = Sample("indicator_led_on", <<>>, d.IndicatorLED)
        \/ s = Sample("indicator_active", <<>>, d.LocationIndicatorActive)
        \/ s = Sample("memory_size", <<>>, d.TotalSystemMemoryGiB)
        \/ s = Sample("cpu_count", <<>>, d.ProcessorCount)
        \/ s = Sample("bios_info", <<>>, "info")
        \/ s = Sample("machine_info", <<>>, "info")
    BY <1>m, <1>c, SamplesAre DEF SystemSeries, memory, cpus
  <2> QED BY <2>1 DEF SystemKinds
<1>2. \A s, t \in SystemSeries(d) : s.metric = t.metric => s = t
  BY <1>m, <1>c, SamplesAre, SampleFields DEF SystemSeries, memory, cpus
<1> QED BY <1>1, <1>2, RowDistinct

\* The processors.
LEMMA CpuOnce == ASSUME NEW d PROVE Distinct(ProcessorKinds, {<<d.Id>>}, CpuSeries(d))
<1> DEFINE volts == CpuVoltage(d)
           speed == CpuCurrentSpeed(d)
<1>1. \A s \in volts : \E v : s = Sample("cpu_voltage", <<d.Id>>, v)
  BY SamplesAre DEF CpuVoltage
<1>2. \A s \in speed : \E v : s = Sample("cpu_current_speed", <<d.Id>>, v)
  BY SamplesAre DEF CpuCurrentSpeed
<1>3. \A s, t \in volts : s = t
  BY SamplesAre DEF CpuVoltage
<1>4. \A s, t \in speed : s = t
  BY SamplesAre DEF CpuCurrentSpeed
<1> HIDE DEF volts, speed
<1>5. CpuSeries(d) = Info("cpu_info", <<d.Id>>) \cup Health("cpu_health", <<d.Id>>, d.Health)
                       \cup volts \cup Present("cpu_max_speed", <<d.Id>>, d.MaxSpeedMHz) \cup speed
                       \cup Always("cpu_total_cores", <<d.Id>>, d.TotalCores)
                       \cup Always("cpu_total_threads", <<d.Id>>, d.TotalThreads)
  BY DEF CpuSeries, volts, speed
<1>6. \A s \in CpuSeries(d) : \E m \in ProcessorKinds : \E v : s = Sample(m, <<d.Id>>, v)
  BY <1>1, <1>2, <1>5, SamplesAre DEF ProcessorKinds
<1>7. \A s, t \in CpuSeries(d) : s.metric = t.metric => s = t
  BY <1>1, <1>2, <1>3, <1>4, <1>5, SamplesAre, SampleFields
<1> QED BY <1>6, <1>7, RowDistinct

\* The metrics of the parts of a group that have labels of their own.
FanKinds == {"fan_health", "fan_speed"}

UnitKinds == {"storage_info", "storage_health", "dell_battery_health"}

DriveKinds == {"drive_info", "drive_health", "drive_capacity", "drive_life_left", "drive_indicator_active"}

ControllerKinds ==
  {"controller_info", "controller_speed", "controller_health", "controller_cache_size",
   "controller_cache_health"}

VolumeKinds == {"volume_info", "volume_health", "volume_capacity", "volume_media_span"}

AdapterKinds == {"adapter_info", "adapter_health"}

PortKinds == {"port_health", "port_max_speed", "port_link_up", "port_current_speed"}

\* Fans and temperatures.
LEMMA SensorOnce ==
  ASSUME NEW id, NEW name, NEW health, NEW v
  PROVE  /\ Distinct({"temperature"}, {<<id, name>>}, Temperature(id, name, v))
         /\ Distinct(FanKinds, {<<id, name>>}, FanSeries(id, name, health, v))
<1> DEFINE l == <<id, name>>
<1>1. FanSeries(id, name, health, v) = Health("fan_health", l, health) \cup Always("fan_speed", l, v)
  BY DEF FanSeries
<1>2. Temperature(id, name, v) = Always("temperature", l, v)
  BY DEF Temperature
<1> HIDE DEF l
<1>3. \A s \in FanSeries(id, name, health, v) : \E m \in FanKinds : \E x : s = Sample(m, l, x)
  BY <1>1, SamplesAre DEF FanKinds
<1>4. \A s, t \in FanSeries(id, name, health, v) : s.metric = t.metric => s = t
  BY <1>1, SamplesAre, SampleFields
<1>5. \A s \in Temperature(id, name, v) : s = Sample("temperature", l, v)
  BY <1>2, SamplesAre
<1>6. Distinct({"temperature"}, {l}, Temperature(id, name, v))
  BY <1>5, RowDistinct
<1>7. Distinct(FanKinds, {l}, FanSeries(id, name, health, v))
  BY <1>3, <1>4, RowDistinct
<1> QED BY <1>6, <1>7 DEF l

\* A sample alone.
LEMMA SampleOnce ==
  ASSUME NEW m, NEW l, NEW v, NEW sent, sent \subseteq {Sample(m, l, v)}
  PROVE  Distinct({m}, {l}, sent)
<1>1. \A s \in sent : s = Sample(m, l, v)
  OBVIOUS
<1> QED BY <1>1, RowDistinct

\* Storage units, with their batteries.
LEMMA UnitOnce == ASSUME NEW d PROVE Distinct(UnitKinds, {<<d.Id>>}, Own(d))
<1> DEFINE l == <<d.Id>>
<1>1. Own(d) \subseteq Info("storage_info", l) \cup Health("storage_health", l, d.Health)
                         \cup Health("dell_battery_health", l, d.BatteryStatus)
  BY DEF Own, StorageSeries, ControllerBattery
<1> HIDE DEF l
<1>2. ASSUME NEW s \in Own(d)
      PROVE  \/ s = Sample("storage_info", l, "info") \/ s = Sample("storage_health", l, d.Health)
             \/ s = Sample("dell_battery_health", l, d.BatteryStatus)
  BY <1>1, SamplesAre
<1>3. \A s \in Own(d) : \E m \in UnitKinds : \E v : s = Sample(m, l, v)
  BY <1>2 DEF UnitKinds
<1>4. \A s, t \in Own(d) : s.metric = t.metric => s = t
  BY <1>2, SampleFields
<1> QED BY <1>3, <1>4, RowDistinct DEF l

\* Drives.
LEMMA DriveOnce ==
  ASSUME NEW parent, NEW id, NEW d
  PROVE  Distinct(DriveKinds, {<<id, parent>>}, DriveSeries(parent, id, d))
<1> DEFINE l == <<id, parent>>
           lit == FirstPresent(d.LocationIndicatorActive, d.IndicatorLED)
           sent == DriveSeries(parent, id, d)
<1>1. sent = Info("drive_info", l) \cup Health("drive_health", l, d.Health)
               \cup Nonzero("drive_capacity", l, d.CapacityBytes)
               \cup NotNil("drive_life_left", l, d.PredictedLifeLeft)
               \cup Present("drive_indicator_active", l, lit)
  BY DEF DriveSeries
<1> HIDE DEF l, lit, sent
<1>2. ASSUME NEW s \in sent
      PROVE  \/ s = Sample("drive_info", l, "info") \/ s = Sample("drive_health", l, d.Health)
             \/ s = Sample("drive_capacity", l, d.CapacityBytes)
             \/ s = Sample("drive_life_left", l, d.PredictedLifeLeft)
             \/ s = Sample("drive_indicator_active", l, lit)
  BY <1>1, SamplesAre
<1>3. \A s \in sent : \E m \in DriveKinds : \E v : s = Sample(m, l, v)
  BY <1>2 DEF DriveKinds
<1>4. \A s, t \in sent : s.metric = t.metric => s = t
  BY <1>2, SampleFields
<1> QED BY <1>3, <1>4, RowDistinct DEF l, sent

\* Storage controllers, with their caches.
LEMMA ControllerOnce ==
  ASSUME NEW parent, NEW id, NEW d
  PROVE  Distinct(ControllerKinds, {<<id, parent>>}, ControllerSeries(parent, id, d))
<1> DEFINE l == <<id, parent>>
           sent == ControllerSeries(parent, id, d)
<1>1. sent \subseteq Info("controller_info", l) \cup Nonzero("controller_speed", l, d.SpeedGbps)
                       \cup Health("controller_health", l, d.Health)
                       \cup Nonzero("controller_cache_size", l, d.TotalCacheSizeMiB)
                       \cup Health("controller_cache_health", l, d.CacheHealth)
  BY DEF ControllerSeries, CacheSeries
<1> HIDE DEF l, sent
<1>2. ASSUME NEW s \in sent
      PROVE  \/ s = Sample("controller_info", l, "info") \/ s = Sample("controller_speed", l, d.SpeedGbps)
             \/ s = Sample("controller_health", l, d.Health)
             \/ s = Sample("controller_cache_size", l, d.TotalCacheSizeMiB)
             \/ s = Sample("controller_cache_health", l, d.CacheHealth)
  BY <1>1, SamplesAre
<1>3. \A s \in sent : \E m \in ControllerKinds : \E v : s = Sample(m, l, v)
  BY <1>2 DEF ControllerKinds
<1>4. \A s, t \in sent : s.metric = t.metric => s = t
  BY <1>2, SampleFields
<1> QED BY <1>3, <1>4, RowDistinct DEF l, sent

\* Volumes.
LEMMA VolumeOnce ==
  ASSUME NEW parent, NEW d
  PROVE  Distinct(VolumeKinds, {<<d.Id, parent>>}, VolumeSeries(parent, d))
<1> DEFINE l == <<d.Id, parent>>
           span == FirstNonzero(d.MediaSpanCount, d.DrivesCount)
           sent == VolumeSeries(parent, d)
<1>1. sent = Info("volume_info", l) \cup Health("volume_health", l, d.Health)
               \cup Nonzero("volume_capacity", l, d.CapacityBytes) \cup Nonzero("volume_media_span", l, span)
  BY DEF VolumeSeries
<1> HIDE DEF l, span, sent
<1>2. ASSUME NEW s \in sent
      PROVE  \/ s = Sample("volume_info", l, "info") \/ s = Sample("volume_health", l, d.Health)
             \/ s = Sample("volume_capacity", l, d.CapacityBytes) \/ s = Sample("volume_media_span", l, span)
  BY <1>1, SamplesAre
<1>3. \A s \in sent : \E m \in VolumeKinds : \E v : s = Sample(m, l, v)
  BY <1>2 DEF VolumeKinds
<1>4. \A s, t \in sent : s.metric = t.metric => s = t
  BY <1>2, SampleFields
<1> QED BY <1>3, <1>4, RowDistinct DEF l, sent

\* Memory modules.
LEMMA MemoryOnce == ASSUME NEW d PROVE Distinct(MemoryKinds, {<<d.Id>>}, MemorySeries(d))
<1> DEFINE l == <<d.Id>>
           sent == MemorySeries(d)
<1>1. sent = Info("memory_info", l) \cup Health("memory_health", l, d.Health)
               \cup Nonzero("memory_capacity", l, d.CapacityMiB) \cup Nonzero("memory_speed", l, d.OperatingSpeedMhz)
  BY DEF MemorySeries
<1> HIDE DEF l, sent
<1>2. ASSUME NEW s \in sent
      PROVE  \/ s = Sample("memory_info", l, "info") \/ s = Sample("memory_health", l, d.Health)
             \/ s = Sample("memory_capacity", l, d.CapacityMiB)
             \/ s = Sample("memory_speed", l, d.OperatingSpeedMhz)
  BY <1>1, SamplesAre
<1>3. \A s \in sent : \E m \in MemoryKinds : \E v : s = Sample(m, l, v)
  BY <1>2 DEF MemoryKinds
<1>4. \A s, t \in sent : s.metric = t.metric => s = t
  BY <1>2, SampleFields
<1> QED BY <1>3, <1>4, RowDistinct DEF l, sent

SupplyKinds ==
  {"power_supply_health", "power_supply_input_watts", "power_supply_input_voltage",
   "power_supply_output_watts", "power_supply_capacity_watts", "power_supply_efficiency"}

ControlKinds ==
  {"power_control_consumed", "power_control_capacity", "power_control_min", "power_control_max",
   "power_control_avg", "power_control_interval"}

\* The power supplies, whatever the values of their fields.
LEMMA SupplyOnce ==
  ASSUME NEW id, NEW v1, NEW v2, NEW v3, NEW v4, NEW v5, NEW v6
  PROVE  Distinct(SupplyKinds, {<<id>>},
           PowerSupplyHealth(id, v1) \cup PowerSupplyInput(id, v2) \cup PowerSupplyOutput(id, v3)
             \cup PowerSupplyVoltage(id, v4) \cup PowerSupplyCapacity(id, v5)
             \cup PowerSupplyEfficiency(id, v6))
<1> DEFINE l == <<id>>
           sent == PowerSupplyHealth(id, v1) \cup PowerSupplyInput(id, v2) \cup PowerSupplyOutput(id, v3)
                     \cup PowerSupplyVoltage(id, v4) \cup PowerSupplyCapacity(id, v5)
                     \cup PowerSupplyEfficiency(id, v6)
<1>1. sent = Health("power_supply_health", l, v1) \cup Nonzero("power_supply_input_watts", l, v2)
               \cup Nonzero("power_supply_output_watts", l, v3) \cup Nonzero("power_supply_input_voltage", l, v4)
               \cup Nonzero("power_supply_capacity_watts", l, v5) \cup Nonzero("power_supply_efficiency", l, v6)
  BY DEF PowerSupplyHealth, PowerSupplyInput, PowerSupplyOutput, PowerSupplyVoltage, PowerSupplyCapacity,
         PowerSupplyEfficiency
<1> HIDE DEF l, sent
<1>2. ASSUME NEW s \in sent
      PROVE  \/ s = Sample("power_supply_health", l, v1) \/ s = Sample("power_supply_input_watts", l, v2)
             \/ s = Sample("power_supply_output_watts", l, v3)
             \/ s = Sample("power_supply_input_voltage", l, v4)
             \/ s = Sample("power_supply_capacity_watts", l, v5)
             \/ s = Sample("power_supply_efficiency", l, v6)
  BY <1>1, SamplesAre
<1>3. \A s \in sent : \E m \in SupplyKinds : \E v : s = Sample(m, l, v)
  BY <1>2 DEF SupplyKinds
<1>4. \A s, t \in sent : s.metric = t.metric => s = t
  BY <1>2, SampleFields
<1> QED BY <1>3, <1>4, RowDistinct DEF l, sent

\* The power controls, whatever the values of their fields.
LEMMA ControlOnce ==
  ASSUME NEW id, NEW name, NEW v, NEW x, NEW m
  PROVE  Distinct(ControlKinds, {<<id, name>>},
           PowerConsumed(id, name, v) \cup PowerCapacity(id, name, x) \cup PowerMetrics(id, name, m))
<1> DEFINE l == <<id, name>>
           sent == PowerConsumed(id, name, v) \cup PowerCapacity(id, name, x) \cup PowerMetrics(id, name, m)
<1>1. sent = Nonzero("power_control_consumed", l, v) \cup Nonzero("power_control_capacity", l, x)
               \cup Nonzero("power_control_min", l, m.MinConsumedWatts)
               \cup Nonzero("power_control_max", l, m.MaxConsumedWatts)
               \cup Nonzero("power_control_avg", l, m.AvgConsumedWatts)
               \cup Nonzero("power_control_interval", l, m.IntervalInMinutes)
  BY DEF PowerConsumed, PowerCapacity, PowerMetrics
<1> HIDE DEF l, sent
<1>2. ASSUME NEW s \in sent
      PROVE  \/ s = Sample("power_control_consumed", l, v) \/ s = Sample("power_control_capacity", l, x)
             \/ s = Sample("power_control_min", l, m.MinConsumedWatts)
             \/ s = Sample("power_control_max", l, m.MaxConsumedWatts)
             \/ s = Sample("power_control_avg", l, m.AvgConsumedWatts)
             \/ s = Sample("power_control_interval", l, m.IntervalInMinutes)
  BY <1>1, SamplesAre
<1>3. \A s \in sent : \E k \in ControlKinds : \E y : s = Sample(k, l, y)
  BY <1>2 DEF ControlKinds
<1>4. \A s, t \in sent : s.metric = t.metric => s = t
  BY <1>2, SampleFields
<1> QED BY <1>3, <1>4, RowDistinct DEF l, sent

\* Network adapters.
LEMMA AdapterOnce ==
  ASSUME NEW d
  PROVE  Distinct(AdapterKinds, {<<d.Id>>}, AdapterInfo(d) \cup AdapterHealth(d))
<1> DEFINE l == <<d.Id>>
           sent == AdapterInfo(d) \cup AdapterHealth(d)
<1>1. sent = Info("adapter_info", l) \cup Health("adapter_health", l, d.Health)
  BY DEF AdapterInfo, AdapterHealth
<1> HIDE DEF l, sent
<1>2. ASSUME NEW s \in sent
      PROVE  s = Sample("adapter_info", l, "info") \/ s = Sample("adapter_health", l, d.Health)
  BY <1>1, SamplesAre
<1>3. \A s \in sent : \E m \in AdapterKinds : \E v : s = Sample(m, l, v)
  BY <1>2 DEF AdapterKinds
<1>4. \A s, t \in sent : s.metric = t.metric => s = t
  BY <1>2, SampleFields
<1> QED BY <1>3, <1>4, RowDistinct DEF l, sent

\* Network ports.
LEMMA PortOnce ==
  ASSUME NEW parent, NEW id, NEW d
  PROVE  Distinct(PortKinds, {<<id, parent>>}, PortSeries(parent, id, d))
<1> DEFINE l == <<id, parent>>
           speed == FirstNonzero(d.CurrentLinkSpeedMbps, FirstNonzero(d.CurrentSpeedGbps, d.LinkSpeedMbps))
           sent == PortSeries(parent, id, d)
<1>1. sent = Health("port_health", l, d.Health) \cup Nonzero("port_max_speed", l, d.MaxSpeedGbps)
               \cup Always("port_link_up", l, d.LinkStatus) \cup Nonzero("port_current_speed", l, speed)
  BY DEF PortSeries, PortHealth, PortMaxSpeed, PortLinkUp, PortSpeed
<1> HIDE DEF l, speed, sent
<1>2. ASSUME NEW s \in sent
      PROVE  \/ s = Sample("port_health", l, d.Health) \/ s = Sample("port_max_speed", l, d.MaxSpeedGbps)
             \/ s = Sample("port_link_up", l, d.LinkStatus) \/ s = Sample("port_current_speed", l, speed)
  BY <1>1, SamplesAre
<1>3. \A s \in sent : \E m \in PortKinds : \E v : s = Sample(m, l, v)
  BY <1>2 DEF PortKinds
<1>4. \A s, t \in sent : s.metric = t.metric => s = t
  BY <1>2, SampleFields
<1> QED BY <1>3, <1>4, RowDistinct DEF l, sent

\* The manager, which has no labels with another manager, and Dell's own resource.
LEMMA ManagerOnce ==
  ASSUME NEW d, NEW model
  PROVE  /\ \E labels : Distinct(ManagerKinds, labels, ManagerSeries(d, model))
         /\ Distinct(DellKinds, {<<>>}, DellSystemSeries(d))
<1>1. Distinct({"manager_info"}, {<<d.Id, model>>}, Info("manager_info", <<d.Id, model>>))
  BY SamplesAre, SampleOnce
<1>2. Distinct({"manager_health"}, {<<d.Id>>}, Health("manager_health", <<d.Id>>, d.Health))
  BY SamplesAre, SampleOnce
<1>3. {"manager_info"} \cap {"manager_health"} = {} /\ {"manager_info"} \cup {"manager_health"} = ManagerKinds
  BY DEF ManagerKinds
<1>4. \E labels : Distinct(ManagerKinds, labels, ManagerSeries(d, model))
  BY <1>1, <1>2, <1>3, PartsDistinct DEF ManagerSeries
<1>5. Distinct({"dell_battery_rollup_health"}, {<<>>},
               Health("dell_battery_rollup_health", <<>>, d.BatteryRollupStatus))
  BY SamplesAre, SampleOnce
<1>6. Distinct({"dell_airflow"}, {<<>>}, Nonzero("dell_airflow", <<>>, d.EstimatedSystemAirflowCFM))
  BY SamplesAre, SampleOnce
<1>7. /\ {"dell_battery_rollup_health"} \cap {"dell_airflow"} = {}
      /\ {"dell_battery_rollup_health"} \cup {"dell_airflow"} = DellKinds /\ {<<>>} \cup {<<>>} = {<<>>}
  BY DEF DellKinds
<1>8. Distinct(DellKinds, {<<>>}, DellSystemSeries(d))
  BY <1>5, <1>6, <1>7, PartsDistinct DEF DellSystemSeries
<1> QED BY <1>4, <1>8

PduUnitKinds == {"pdu_info", "pdu_health"}

PduMetricKinds == {"pdu_power_watts", "pdu_power_apparent", "pdu_power_factor", "pdu_energy_kwh"}

\* Power distribution units.
LEMMA PduOnce ==
  ASSUME NEW d, NEW id, NEW m
  PROVE  /\ Distinct(PduUnitKinds, {<<d.Id>>}, PduSeries(d))
         /\ Distinct(PduMetricKinds, {<<id>>}, PduMetrics(id, m))
<1> DEFINE l == <<d.Id>>
           own == PduSeries(d)
           k == <<id>>
           sent == PduMetrics(id, m)
<1>1. own = Info("pdu_info", l) \cup Health("pdu_health", l, d.Health)
  BY DEF PduSeries
<1>2. sent = Always("pdu_power_watts", k, m.PowerWatts) \cup Always("pdu_power_apparent", k, m.ApparentVA)
               \cup Always("pdu_power_factor", k, m.PowerFactor) \cup Always("pdu_energy_kwh", k, m.EnergykWh)
  BY DEF PduMetrics
<1> HIDE DEF l, own, k, sent
<1>3. ASSUME NEW s \in own
      PROVE  s = Sample("pdu_info", l, "info") \/ s = Sample("pdu_health", l, d.Health)
  BY <1>1, SamplesAre
<1>4. \A s \in own : \E x \in PduUnitKinds : \E v : s = Sample(x, l, v)
  BY <1>3 DEF PduUnitKinds
<1>5. \A s, t \in own : s.metric = t.metric => s = t
  BY <1>3, SampleFields
<1>6. ASSUME NEW s \in sent
      PROVE  \/ s = Sample("pdu_power_watts", k, m.PowerWatts)
             \/ s = Sample("pdu_power_apparent", k, m.ApparentVA)
             \/ s = Sample("pdu_power_factor", k, m.PowerFactor)
             \/ s = Sample("pdu_energy_kwh", k, m.EnergykWh)
  BY <1>2, SamplesAre
<1>7. \A s \in sent : \E x \in PduMetricKinds : \E v : s = Sample(x, k, v)
  BY <1>6 DEF PduMetricKinds
<1>8. \A s, t \in sent : s.metric = t.metric => s = t
  BY <1>6, SampleFields
<1>9. Distinct(PduUnitKinds, {l}, own)
  BY <1>4, <1>5, RowDistinct
<1>10. Distinct(PduMetricKinds, {k}, sent)
  BY <1>7, <1>8, RowDistinct
<1> QED BY <1>9, <1>10 DEF l, own, k, sent

-----------------------------------------------------------------------------
\* What the groups send, once

\* The rows of an array are parts, each sent from its index.
LEMMA RowsDistinct ==
  ASSUME NEW kinds, NEW list, NEW labels, NEW sent,
         \A i \in DOMAIN list : Distinct(kinds, labels[i], sent[i]),
         \A i, j \in DOMAIN list : labels[i] \cap labels[j] # {} => i = j
  PROVE  \E all : Distinct(kinds, all, Heap(DOMAIN list, sent))
BY HeapDistinct

\* Labels that have a value in common are the same.
LEMMA LabelsMeet ==
  /\ \A a, b : {<<a>>} \cap {<<b>>} # {} => a = b
  /\ \A a, b, c, d : {<<a, c>>} \cap {<<b, d>>} # {} => a = b /\ c = d
BY SMT

\* The label of a resource that is named by its identifier alone.
IdLabels(w) == [r \in DOMAIN w.doc |-> {<<w.doc[r].Id>>}]

\* It tells resources apart whose identifiers do.
LEMMA IdsDiffer ==
  ASSUME NEW w, NEW rs, rs \subseteq DOMAIN w.doc, OwnIds(w, rs)
  PROVE  \A r, s \in rs : IdLabels(w)[r] \cap IdLabels(w)[s] # {} => r = s
<1>1. ASSUME NEW r \in rs, NEW s \in rs, IdLabels(w)[r] \cap IdLabels(w)[s] # {} PROVE r = s
  <2>1. w.doc[r].Id = w.doc[s].Id
    BY <1>1, LabelsMeet DEF IdLabels
  <2> QED BY <2>1 DEF OwnIds
<1> QED BY <1>1

\* Members exist.
LEMMA MembersExist ==
  ASSUME NEW w, NEW r, NEW links
  PROVE  MembersAt(w, r) \subseteq DOMAIN w.doc /\ Existing(w, links) \subseteq DOMAIN w.doc
BY DEF MembersAt, Existing

\* The system, the manager and Dell's own resource.
LEMMA SinglesDistinct ==
  ASSUME NEW w
  PROVE  /\ \E labels : Distinct(SystemKinds, labels, RefreshSystem(w))
         /\ \E labels : Distinct(ManagerKinds, labels, RefreshManager(w))
         /\ \E labels : Distinct(DellKinds, labels, RefreshDell(w))
<1> DEFINE System(d) == SystemSeries([d EXCEPT !.IndicatorLED =
                          IF w.vendor = "Hpe" THEN FirstPresent(@, d.HpeIndicatorLED) ELSE @])
           model(d)  == IF w.vendor = "Dell" /\ DellAttributesPath \in d.DellAttributes /\ Get(w, DellAttributesPath)
                        THEN w.doc[DellAttributesPath].InfoHWModel ELSE d.Model
           manager   == w.doc[w.path.Manager]
<1>1. RefreshSystem(w) = Answer(w, w.path.System, System(w.doc[w.path.System]))
  BY Zenon DEF RefreshSystem, Fetch, Answer
<1>2. RefreshManager(w) = Answer(w, w.path.Manager, ManagerSeries(manager, model(manager)))
  BY Zenon DEF RefreshManager, Fetch, Answer
<1>3. \/ RefreshDell(w) = Answer(w, DellSystemPath, DellSystemSeries(w.doc[DellSystemPath]))
      \/ RefreshDell(w) = {}
  BY Zenon DEF RefreshDell, Fetch, Answer
<1>4. \A d : Distinct(SystemKinds, {<<>>}, System(d))
  BY SystemOnce
<1> HIDE DEF System, model, manager
<1>5. Distinct(SystemKinds, {<<>>}, RefreshSystem(w))
  BY <1>1, <1>4, AnswerDistinct
<1>6. PICK labels : Distinct(ManagerKinds, labels, ManagerSeries(manager, model(manager)))
  BY ManagerOnce
<1>7. Distinct(ManagerKinds, labels, RefreshManager(w))
  BY <1>2, <1>6, AnswerDistinct
<1>8. Distinct(DellKinds, {<<>>}, DellSystemSeries(w.doc[DellSystemPath]))
  BY ManagerOnce
<1>9. Distinct(DellKinds, {<<>>}, RefreshDell(w))
  BY <1>3, <1>8, AnswerDistinct, NothingDistinct
<1> QED BY <1>5, <1>7, <1>9

\* The processors.
LEMMA ProcessorsDistinct ==
  ASSUME NEW w, OwnIds(w, MembersAt(w, w.path.Processors))
  PROVE  \E labels : Distinct(ProcessorKinds, labels, RefreshProcessors(w))
<1> DEFINE Cpu(d) ==
             LET state == IF w.vendor = "Hpe" /\ w.ilo4 /\ d.State = "" /\ d.Health # "none"
                          THEN "Enabled" ELSE d.State
             IN  IF d.ProcessorType = "CPU" /\ state = "Enabled" THEN CpuSeries(d) ELSE {}
           at == w.path.Processors
           links == Linked(w, at)
           sent == [i \in Firsts(links) |-> Answer(w, links[i], Cpu(w.doc[links[i]]))]
<1>1. RefreshProcessors(w) = Toured(w, at, sent)
  BY Zenon DEF RefreshProcessors, Collection, Fetch, Walk, With, Visits, Toured, Tour, Stops, Answer, Linked
<1>2. \A d : Distinct(ProcessorKinds, {<<d.Id>>}, Cpu(d))
  BY CpuOnce, NothingDistinct
<1> HIDE DEF Cpu
<1>3. \A i \in Firsts(links) :
        IF Get(w, links[i]) THEN Distinct(ProcessorKinds, IdLabels(w)[links[i]], sent[i]) ELSE sent[i] = Failed
  BY <1>2, GotExists DEF IdLabels, Answer
<1>4. \A r, s \in MembersAt(w, at) : IdLabels(w)[r] \cap IdLabels(w)[s] # {} => r = s
  BY IdsDiffer, MembersExist
<1> HIDE DEF sent, at
<1> QED BY <1>1, <1>3, <1>4, TouredDistinct

\* The memory.
LEMMA MemoryDistinct ==
  ASSUME NEW w, OwnIds(w, {r \in MembersAt(w, w.path.Memory) : w.doc[r].Id # ""})
  PROVE  \E labels : Distinct(MemoryKinds, labels, RefreshMemory(w))
<1> DEFINE Module(d) == IF w.vendor = "Hpe" /\ w.ilo4
                        THEN [d EXCEPT !.Health = d.DIMMStatus, !.CapacityMiB = d.SizeMB] ELSE d
           All(d)    == IF d.State = "Absent" \/ d.Id = "" THEN {} ELSE MemorySeries(Module(d))
           at        == w.path.Memory
           links     == Linked(w, at)
           sent      == [i \in Firsts(links) |-> Answer(w, links[i], All(w.doc[links[i]]))]
           labels    == [r \in DOMAIN w.doc |-> IF w.doc[r].Id = "" THEN {} ELSE {<<w.doc[r].Id>>}]
<1>1. RefreshMemory(w) = Toured(w, at, sent)
  BY Zenon DEF RefreshMemory, Collection, Fetch, Walk, With, Visits, Toured, Tour, Stops, Answer, Linked
<1>2. ASSUME NEW d, d.Id # "" => Has(d, "Id") PROVE Distinct(MemoryKinds, IF d.Id = "" THEN {} ELSE {<<d.Id>>}, All(d))
  <2>1. d.Id # "" => [d EXCEPT !.Health = d.DIMMStatus, !.CapacityMiB = d.SizeMB].Id = d.Id
    BY <1>2 DEF Has
  <2>2. d.Id # "" => Module(d).Id = d.Id
    BY <2>1
  <2> HIDE DEF Module
  <2>3. d.Id # "" => Distinct(MemoryKinds, {<<d.Id>>}, MemorySeries(Module(d)))
    BY <2>2, MemoryOnce
  <2> QED BY <2>3, NothingDistinct
<1> HIDE DEF All
<1>3. ASSUME Get(w, at), NEW i \in Firsts(links)
      PROVE  IF Get(w, links[i]) THEN Distinct(MemoryKinds, labels[links[i]], sent[i]) ELSE sent[i] = Failed
  <2>1. Get(w, links[i]) => links[i] \in MembersAt(w, at)
    BY <1>3, GotExists, FirstsDiffer DEF MembersAt, Existing, Linked
  <2>2. Get(w, links[i]) /\ w.doc[links[i]].Id # "" => Has(w.doc[links[i]], "Id")
    BY <2>1 DEF OwnIds
  <2> QED BY <1>2, <2>2, GotExists DEF Answer
<1>4. ASSUME NEW r \in MembersAt(w, at), NEW s \in MembersAt(w, at), labels[r] \cap labels[s] # {}
      PROVE  r = s
  <2>1. w.doc[r].Id # "" /\ w.doc[s].Id # "" /\ w.doc[r].Id = w.doc[s].Id
    BY <1>4, MembersExist, LabelsMeet
  <2> QED BY <2>1 DEF OwnIds
<1> HIDE DEF sent, at, labels
<1> QED BY <1>1, <1>3, <1>4, TouredDistinct

\* The power distribution units: what has no metrics has labels of its own all the same.
LEMMA PDUsDistinct ==
  ASSUME NEW w, OwnIds(w, Existing(w, w.path.RackPDUs))
  PROVE  \E labels : Distinct(PduKinds, labels, RefreshPDUs(w))
<1> DEFINE metrics(d) == Answer(w, d.Metrics, PduMetrics(d.Id, w.doc[d.Metrics]))
           Unit(d) == Then(PduSeries(d), metrics(d))
           links   == w.path.RackPDUs
           sent    == [i \in Firsts(links) |-> Answer(w, links[i], Unit(w.doc[links[i]]))]
<1>1. RefreshPDUs(w) = Gathered(Stops(links, sent))
  BY Zenon DEF RefreshPDUs, Fetch, Visits, Stops, Answer
<1>2. ASSUME NEW d PROVE Distinct(PduKinds, {<<d.Id>>}, Unit(d))
  <2>1. Distinct(PduUnitKinds, {<<d.Id>>}, PduSeries(d))
    BY PduOnce
  <2>2. Distinct(PduMetricKinds, {<<d.Id>>}, metrics(d))
    BY PduOnce, AnswerDistinct
  <2>3. PduUnitKinds \cap PduMetricKinds = {} /\ PduUnitKinds \cup PduMetricKinds = PduKinds
        /\ {<<d.Id>>} \cup {<<d.Id>>} = {<<d.Id>>}
    BY DEF PduUnitKinds, PduMetricKinds, PduKinds
  <2> HIDE DEF metrics
  <2>4. Distinct(PduUnitKinds \cup PduMetricKinds, {<<d.Id>>} \cup {<<d.Id>>}, Then(PduSeries(d), metrics(d)))
    BY <2>1, <2>2, <2>3, PartsDistinct
  <2> QED BY <2>3, <2>4
<1> HIDE DEF Unit
<1>3. \A i \in Firsts(links) :
        IF Get(w, links[i]) THEN Distinct(PduKinds, IdLabels(w)[links[i]], sent[i]) ELSE sent[i] = Failed
  BY <1>2, GotExists DEF IdLabels, Answer
<1>4. \A r, s \in Existing(w, links) : IdLabels(w)[r] \cap IdLabels(w)[s] # {} => r = s
  BY IdsDiffer, MembersExist
<1> HIDE DEF sent, links
<1>5. Distinct(PduKinds, Joined(Existing(w, links), IdLabels(w)), Gathered(Stops(links, sent)))
  BY <1>3, <1>4, VisitsDistinct
<1> QED BY <1>1, <1>5

\* The event log.
LEMMA EventsDistinct ==
  ASSUME NEW w, EventsIdentified(w)
  PROVE  \E labels : Distinct(EventKinds, labels, RefreshEventLog(w))
<1> DEFINE at      == EventPath(w)
           entries == w.doc[at].Entries
           sent    == [i \in DOMAIN entries |-> EventRow(w, entries[i])]
           labels  == [i \in DOMAIN entries |-> {<<entries[i].Id>>}]
           heap    == Heap(DOMAIN entries, sent)
<1>1. RefreshEventLog(w) = {} \/ RefreshEventLog(w) = Answer(w, at, heap)
  BY Zenon DEF RefreshEventLog, Fetch, Answer, Rows, Heap
<1>2. ASSUME NEW e PROVE Distinct(EventKinds, {<<e.Id>>}, EventRow(w, e))
  BY SamplesAre, SampleOnce, NothingDistinct DEF EventRow, EventLogEntry, EventKinds
<1>3. \A i \in DOMAIN entries : Distinct(EventKinds, labels[i], sent[i])
  BY <1>2
<1>4. ASSUME Get(w, at), NEW i \in DOMAIN entries, NEW j \in DOMAIN entries, labels[i] \cap labels[j] # {}
      PROVE  i = j
  <2>1. entries[i].Id = entries[j].Id
    BY <1>4, LabelsMeet
  <2> QED BY <1>4, <2>1, GotExists DEF EventsIdentified
<1> HIDE DEF entries, sent, labels, heap, at
<1>5. ASSUME Get(w, at) PROVE \E all : Distinct(EventKinds, all, heap)
  <2>1. \E all : Distinct(EventKinds, all, Heap(DOMAIN entries, sent))
    BY <1>3, <1>4, <1>5, RowsDistinct
  <2> QED BY <2>1 DEF heap
<1>6. \E all : Get(w, at) => Distinct(EventKinds, all, heap)
  BY <1>5
<1> QED BY <1>1, <1>6, AnswerDistinct, NothingDistinct

\* The voltages of a power resource.
LEMMA VoltagesDistinct ==
  ASSUME NEW d, Numbered(d.Voltages)
  PROVE  \E labels : Distinct(VoltageKinds, labels, emitVoltages(d))
<1> DEFINE list   == d.Voltages
           sent   == [i \in DOMAIN list |-> VoltageRow(i, list[i])]
           labels == [i \in DOMAIN list |-> {<<Itoa(i), list[i].Name>>}]
<1>1. emitVoltages(d) = Heap(DOMAIN list, sent)
  BY Zenon DEF emitVoltages, Rows, Heap
<1>2. ASSUME NEW n, NEW v PROVE Distinct(VoltageKinds, {<<Itoa(n), v.Name>>}, VoltageRow(n, v))
  BY SamplesAre, SampleOnce, NothingDistinct DEF VoltageRow, Voltage, VoltageKinds
<1>3. \A i \in DOMAIN list : Distinct(VoltageKinds, labels[i], sent[i])
  BY <1>2
<1>4. ASSUME NEW i \in DOMAIN list, NEW j \in DOMAIN list, labels[i] \cap labels[j] # {} PROVE i = j
  <2>1. Itoa(i) = Itoa(j)
    BY <1>4, LabelsMeet
  <2> QED BY <2>1, ItoaDiffers
<1> HIDE DEF sent, labels, list
<1> QED BY <1>1, <1>3, <1>4, RowsDistinct

\* The sensors as older machines report them: what is not enabled is not sent.
LEMMA SensorsOldDistinct ==
  ASSUME NEW w, SensorsIdentified(w)
  PROVE  \E labels : Distinct(SensorKinds, labels, RefreshSensorsOld(w))
<1> DEFINE at           == w.path.Thermal
           temperatures == w.doc[at].Temperatures
           fans         == w.doc[at].Fans
           warm   == [i \in DOMAIN temperatures |-> OldTemperature(i, temperatures[i])]
           blown  == [i \in DOMAIN fans |-> OldFan(i, fans[i])]
           places == [i \in DOMAIN temperatures |->
                        IF temperatures[i].State = "Enabled"
                        THEN {<<TemperatureId(i, temperatures[i]), temperatures[i].Name>>} ELSE {}]
           vents  == [i \in DOMAIN fans |->
                        IF fans[i].State = "Enabled" THEN {<<FanId(i, fans[i]), FanName(fans[i])>>} ELSE {}]
<1>1. RefreshSensorsOld(w) = Answer(w, at, Heap(DOMAIN temperatures, warm) \cup Heap(DOMAIN fans, blown))
  BY Zenon DEF RefreshSensorsOld, Fetch, Answer, Rows, Heap
<1>2. ASSUME NEW n, NEW t
      PROVE  Distinct({"temperature"}, IF t.State = "Enabled" THEN {<<TemperatureId(n, t), t.Name>>} ELSE {},
                      OldTemperature(n, t))
  BY SensorOnce, NothingDistinct DEF OldTemperature
<1>3. ASSUME NEW n, NEW f
      PROVE  Distinct(FanKinds, IF f.State = "Enabled" THEN {<<FanId(n, f), FanName(f)>>} ELSE {}, OldFan(n, f))
  BY SensorOnce, NothingDistinct DEF OldFan
<1>4. \A i \in DOMAIN temperatures : Distinct({"temperature"}, places[i], warm[i])
  BY <1>2
<1>5. \A i \in DOMAIN fans : Distinct(FanKinds, vents[i], blown[i])
  BY <1>3
<1>6. ASSUME Get(w, at), NEW i \in DOMAIN temperatures, NEW j \in DOMAIN temperatures, places[i] \cap places[j] # {}
      PROVE  i = j
  <2>1. /\ temperatures[i].State = "Enabled" /\ temperatures[j].State = "Enabled"
        /\ <<TemperatureId(i, temperatures[i]), temperatures[i].Name>>
             = <<TemperatureId(j, temperatures[j]), temperatures[j].Name>>
    BY <1>6, LabelsMeet
  <2> QED BY <1>6, <2>1, GotExists DEF SensorsIdentified, OwnLabels
<1>7. ASSUME Get(w, at), NEW i \in DOMAIN fans, NEW j \in DOMAIN fans, vents[i] \cap vents[j] # {}
      PROVE  i = j
  <2>1. /\ fans[i].State = "Enabled" /\ fans[j].State = "Enabled"
        /\ <<FanId(i, fans[i]), FanName(fans[i])>> = <<FanId(j, fans[j]), FanName(fans[j])>>
    BY <1>7, LabelsMeet
  <2> QED BY <1>7, <2>1, GotExists DEF SensorsIdentified, OwnLabels
<1>8. {"temperature"} \cap FanKinds = {} /\ {"temperature"} \cup FanKinds = SensorKinds
  BY DEF FanKinds, SensorKinds
<1> HIDE DEF at, temperatures, fans, warm, blown, places, vents
<1>9. ASSUME Get(w, at)
      PROVE  \E all : Distinct(SensorKinds, all, Heap(DOMAIN temperatures, warm) \cup Heap(DOMAIN fans, blown))
  <2>1. PICK l1 : Distinct({"temperature"}, l1, Heap(DOMAIN temperatures, warm))
    BY <1>4, <1>6, <1>9, RowsDistinct
  <2>2. PICK l2 : Distinct(FanKinds, l2, Heap(DOMAIN fans, blown))
    BY <1>5, <1>7, <1>9, RowsDistinct
  <2>3. Distinct({"temperature"} \cup FanKinds, l1 \cup l2,
                 Heap(DOMAIN temperatures, warm) \cup Heap(DOMAIN fans, blown))
    BY <1>8, <2>1, <2>2, PartsDistinct
  <2> QED BY <1>8, <2>3
<1>10. \E all : Get(w, at) =>
                  Distinct(SensorKinds, all, Heap(DOMAIN temperatures, warm) \cup Heap(DOMAIN fans, blown))
  BY <1>9
<1> QED BY <1>1, <1>10, AnswerDistinct

\* And as newer ones do: the readings are numbered, the fans are resources.
LEMMA SensorsNewDistinct ==
  ASSUME NEW w, SensorsIdentified(w)
  PROVE  \E labels : Distinct(SensorKinds, labels, RefreshSensorsNew(w))
<1> DEFINE at      == w.path.ThermalSubsystem
           d       == w.doc[at]
           links   == Linked(w, d.Fans)
           sent    == [i \in Firsts(links) |-> Answer(w, links[i], ThermalFan(w.doc[links[i]]))]
           fans    == IF d.Fans = "" THEN {} ELSE Toured(w, d.Fans, sent)
           vents   == [r \in DOMAIN w.doc |-> {<<w.doc[r].Id, w.doc[r].Name>>}]
           list    == w.doc[d.ThermalMetrics].TemperatureReadings
           warm    == [i \in DOMAIN list |-> ThermalReading(w, i, list[i])]
           places  == [i \in DOMAIN list |-> {<<Itoa(i), ReadingName(w, list[i])>>}]
           metrics == IF d.ThermalMetrics = "" THEN {} ELSE Answer(w, d.ThermalMetrics, Heap(DOMAIN list, warm))
<1>1. RefreshSensorsNew(w) = Answer(w, at, Then(fans, metrics))
  BY Zenon DEF RefreshSensorsNew, Collection, Fetch, Walk, With, Visits, Toured, Tour, Stops, Answer, Linked,
               Rows, Heap
<1>2. \A f : Distinct(FanKinds, {<<f.Id, f.Name>>}, ThermalFan(f))
  BY SensorOnce, NothingDistinct DEF ThermalFan
<1>3. \A n, t : Distinct({"temperature"}, {<<Itoa(n), ReadingName(w, t)>>}, ThermalReading(w, n, t))
  BY SensorOnce, NothingDistinct DEF ThermalReading
<1>4. \A i \in Firsts(links) :
        IF Get(w, links[i]) THEN Distinct(FanKinds, vents[links[i]], sent[i]) ELSE sent[i] = Failed
  BY <1>2, GotExists DEF Answer
<1>5. \A i \in DOMAIN list : Distinct({"temperature"}, places[i], warm[i])
  BY <1>3
<1>6. ASSUME Get(w, at), NEW r \in MembersAt(w, d.Fans), NEW s \in MembersAt(w, d.Fans), vents[r] \cap vents[s] # {}
      PROVE  r = s
  <2>1. w.doc[r].Id = w.doc[s].Id
    BY <1>6, LabelsMeet, MembersExist
  <2> QED BY <1>6, <2>1, GotExists DEF SensorsIdentified, OwnIds
<1>7. ASSUME Get(w, at), Get(w, d.ThermalMetrics),
             NEW i \in DOMAIN list, NEW j \in DOMAIN list, places[i] \cap places[j] # {}
      PROVE  i = j
  <2>1. Itoa(i) = Itoa(j)
    BY <1>7, LabelsMeet
  <2>2. Numbered(list)
    BY <1>7, GotExists DEF SensorsIdentified
  <2> QED BY <2>1, <2>2, ItoaDiffers
<1>8. FanKinds \cap {"temperature"} = {} /\ FanKinds \cup {"temperature"} = SensorKinds
  BY DEF FanKinds, SensorKinds
<1> HIDE DEF sent, vents, list, warm, places
<1>9. ASSUME Get(w, at) PROVE \E l1 : Distinct(FanKinds, l1, fans)
  BY <1>4, <1>6, <1>9, TouredDistinct, NothingDistinct
<1>10. ASSUME Get(w, at) PROVE \E l2 : Distinct({"temperature"}, l2, metrics)
  <2>1. ASSUME Get(w, d.ThermalMetrics)
        PROVE  \E l2 : Distinct({"temperature"}, l2, Heap(DOMAIN list, warm))
    BY <1>5, <1>7, <1>10, <2>1, RowsDistinct
  <2>2. \E l2 : Get(w, d.ThermalMetrics) => Distinct({"temperature"}, l2, Heap(DOMAIN list, warm))
    BY <2>1
  <2> QED BY <2>2, AnswerDistinct, NothingDistinct
<1> HIDE DEF fans, metrics, at
<1>11. ASSUME Get(w, at) PROVE \E all : Distinct(SensorKinds, all, Then(fans, metrics))
  <2>1. PICK l1 : Distinct(FanKinds, l1, fans)
    BY <1>9, <1>11
  <2>2. PICK l2 : Distinct({"temperature"}, l2, metrics)
    BY <1>10, <1>11
  <2>3. Distinct(FanKinds \cup {"temperature"}, l1 \cup l2, Then(fans, metrics))
    BY <1>8, <2>1, <2>2, PartsDistinct
  <2> QED BY <1>8, <2>3
<1>12. \E all : Get(w, at) => Distinct(SensorKinds, all, Then(fans, metrics))
  BY <1>11
<1> QED BY <1>1, <1>12, AnswerDistinct

\* The power supplies of newer machines.
LEMMA PowerNewDistinct ==
  ASSUME NEW w, PowerIdentified(w)
  PROVE  \E labels : Distinct(SupplyKinds, labels, RefreshPowerNew(w))
<1> DEFINE own(p)     == PowerSupplyHealth(p.Id, p.Health) \cup PowerSupplyCapacity(p.Id, p.PowerCapacityWatts)
           metrics(p) == IF p.Metrics = "" THEN {}
                         ELSE Answer(w, p.Metrics, SupplyMetrics(p.Id, w.doc[p.Metrics]))
           supply(p)  == Then(own(p), metrics(p))
           at         == w.path.PowerSubsystem
           d          == w.doc[at]
           links      == Linked(w, d.PowerSupplies)
           sent       == [i \in Firsts(links) |-> Answer(w, links[i], supply(w.doc[links[i]]))]
           all        == IF d.PowerSupplies = "" THEN {} ELSE Toured(w, d.PowerSupplies, sent)
           Ownly      == {"power_supply_health", "power_supply_capacity_watts"}
           Measured   == {"power_supply_input_watts", "power_supply_input_voltage", "power_supply_output_watts"}
<1>1. RefreshPowerNew(w) = Answer(w, at, all)
  BY Zenon DEF RefreshPowerNew, Collection, Fetch, Walk, With, Visits, Toured, Tour, Stops, Answer, Linked
<1>2. ASSUME NEW p PROVE Distinct(SupplyKinds, {<<p.Id>>}, supply(p))
  <2> DEFINE l == <<p.Id>>
             m == w.doc[p.Metrics]
  <2>1. own(p) = Health("power_supply_health", l, p.Health)
                   \cup Nonzero("power_supply_capacity_watts", l, p.PowerCapacityWatts)
    BY DEF PowerSupplyHealth, PowerSupplyCapacity
  <2>2. SupplyMetrics(p.Id, m) = Nonzero("power_supply_input_voltage", l, m.InputVoltage)
                                   \cup Nonzero("power_supply_input_watts", l, m.InputPowerWatts)
                                   \cup Nonzero("power_supply_output_watts", l, m.OutputPowerWatts)
    BY DEF SupplyMetrics, PowerSupplyVoltage, PowerSupplyInput, PowerSupplyOutput
  <2>3. metrics(p) \in {{}, SupplyMetrics(p.Id, m), Failed}
    BY DEF Answer
  <2> HIDE DEF l, m, own, metrics
  <2>4. ASSUME NEW s \in own(p)
        PROVE  \/ s = Sample("power_supply_health", l, p.Health)
               \/ s = Sample("power_supply_capacity_watts", l, p.PowerCapacityWatts)
    BY <2>1, SamplesAre
  <2>5. ASSUME NEW s \in SupplyMetrics(p.Id, m)
        PROVE  \/ s = Sample("power_supply_input_voltage", l, m.InputVoltage)
               \/ s = Sample("power_supply_input_watts", l, m.InputPowerWatts)
               \/ s = Sample("power_supply_output_watts", l, m.OutputPowerWatts)
    BY <2>2, SamplesAre
  <2>6. Distinct(Ownly, {l}, own(p))
    <3>1. \A s \in own(p) : \E k \in Ownly : \E v : s = Sample(k, l, v)
      BY <2>4
    <3>2. \A s, t \in own(p) : s.metric = t.metric => s = t
      BY <2>4, SampleFields
    <3> QED BY <3>1, <3>2, RowDistinct
  <2>7. Distinct(Measured, {l}, SupplyMetrics(p.Id, m))
    <3>1. \A s \in SupplyMetrics(p.Id, m) : \E k \in Measured : \E v : s = Sample(k, l, v)
      BY <2>5
    <3>2. \A s, t \in SupplyMetrics(p.Id, m) : s.metric = t.metric => s = t
      BY <2>5, SampleFields
    <3> QED BY <3>1, <3>2, RowDistinct
  <2>8. Distinct(Measured, {l}, metrics(p))
    BY <2>3, <2>7, NothingDistinct
  <2>9. Ownly \cap Measured = {} /\ Ownly \cup Measured \subseteq SupplyKinds /\ {l} \cup {l} = {l}
    BY DEF SupplyKinds
  <2> HIDE DEF Ownly, Measured
  <2>10. Distinct(Ownly \cup Measured, {l} \cup {l}, Then(own(p), metrics(p)))
    BY <2>6, <2>8, <2>9, PartsDistinct
  <2>11. Distinct(SupplyKinds, {l}, Then(own(p), metrics(p)))
    BY <2>9, <2>10, DistinctMore
  <2> QED BY <2>11 DEF l
<1> HIDE DEF supply
<1>3. \A i \in Firsts(links) :
        IF Get(w, links[i]) THEN Distinct(SupplyKinds, IdLabels(w)[links[i]], sent[i]) ELSE sent[i] = Failed
  BY <1>2, GotExists DEF IdLabels, Answer
<1>4. ASSUME Get(w, at)
      PROVE  \A r, s \in MembersAt(w, d.PowerSupplies) : IdLabels(w)[r] \cap IdLabels(w)[s] # {} => r = s
  BY <1>4, IdsDiffer, MembersExist, GotExists DEF PowerIdentified
<1> HIDE DEF sent
<1>5. ASSUME Get(w, at) PROVE \E labels : Distinct(SupplyKinds, labels, all)
  BY <1>3, <1>4, <1>5, TouredDistinct, NothingDistinct
<1> HIDE DEF all, at
<1>6. \E labels : Get(w, at) => Distinct(SupplyKinds, labels, all)
  BY <1>5
<1> QED BY <1>1, <1>6, AnswerDistinct

\* The power as older machines report it, with the consumption of the chassis only where
\* there are no controls.
LEMMA PowerOldDistinct ==
  ASSUME NEW w, PowerIdentified(w)
  PROVE  \E kinds, labels : Distinct(kinds, labels, RefreshPowerOld(w))
<1> DEFINE at       == w.path.Power
           d        == w.doc[at]
           supplies == d.PowerSupplies
           controls == d.PowerControl
           fed    == [i \in DOMAIN supplies |-> PowerSupplyRow(w, d, i, supplies[i])]
           drawn  == [i \in DOMAIN controls |-> PowerControlRow(w, d, i)]
           feeds  == [i \in DOMAIN supplies |-> {<<Itoa(i)>>}]
           draws  == [i \in DOMAIN controls |-> {<<Itoa(i), ControlOf(w, d, i).Name>>}]
           rows   == Heap(DOMAIN supplies, fed)
           lines  == Heap(DOMAIN controls, drawn)
           volts  == IF "sensors" \in w.cfg THEN emitVoltages(d) ELSE {}
           all    == rows \cup ChassisPower(w, d) \cup lines \cup volts
<1>1. RefreshPowerOld(w) = Answer(w, at, all)
  BY Zenon DEF RefreshPowerOld, Fetch, Answer, Rows, Heap
<1>2. ASSUME NEW n, NEW p PROVE Distinct(SupplyKinds, {<<Itoa(n)>>}, PowerSupplyRow(w, d, n, p))
  BY SupplyOnce, NothingDistinct DEF PowerSupplyRow
<1>3. ASSUME NEW n PROVE Distinct(ControlKinds, {<<Itoa(n), ControlOf(w, d, n).Name>>}, PowerControlRow(w, d, n))
  <2> DEFINE pc == ControlOf(w, d, n)
             more == PowerConsumed(Itoa(n), pc.Name, pc.PowerConsumedWatts)
                       \cup PowerCapacity(Itoa(n), pc.Name, pc.PowerCapacityWatts)
                       \cup PowerMetrics(Itoa(n), pc.Name, pc.PowerMetrics)
  <2>1. PowerControlRow(w, d, n) \subseteq more
    BY DEF PowerControlRow
  <2>2. Distinct(ControlKinds, {<<Itoa(n), pc.Name>>}, more)
    BY ControlOnce
  <2> HIDE DEF more
  <2> QED BY <2>1, <2>2, DistinctMore
<1>4. Distinct(ControlKinds, {<<"0", "Chassis Power">>}, ChassisPower(w, d))
  <2>1. Distinct({"power_control_consumed"}, {<<"0", "Chassis Power">>}, ChassisPower(w, d))
    BY SamplesAre, SampleOnce, NothingDistinct DEF ChassisPower, PowerConsumed
  <2>2. {"power_control_consumed"} \subseteq ControlKinds
    BY DEF ControlKinds
  <2> DEFINE l == {<<"0", "Chassis Power">>}
             sent == ChassisPower(w, d)
  <2> HIDE DEF l, sent
  <2>3. Distinct({"power_control_consumed"}, l, sent)
    BY <2>1 DEF l, sent
  <2>4. Distinct(ControlKinds, l, sent)
    BY <2>2, <2>3, DistinctMore
  <2> QED BY <2>4 DEF l, sent
<1>5. ChassisPower(w, d) = {} \/ DOMAIN controls = {}
  <2>1. ChassisPower(w, d) = {} \/ d.PowerControl = <<>>
    BY Zenon DEF ChassisPower
  <2>2. DOMAIN <<>> = {}
    OBVIOUS
  <2> QED BY <2>1, <2>2
<1>6. \A i \in DOMAIN supplies : Distinct(SupplyKinds, feeds[i], fed[i])
  BY <1>2
<1>7. \A i \in DOMAIN controls : Distinct(ControlKinds, draws[i], drawn[i])
  BY <1>3
<1>8. ASSUME Get(w, at)
      PROVE  Numbered(supplies) /\ Numbered(controls) /\ ("sensors" \in w.cfg => Numbered(d.Voltages))
  BY <1>8, GotExists DEF PowerIdentified, VoltagesIdentified
<1>9. ASSUME Get(w, at), NEW i \in DOMAIN supplies, NEW j \in DOMAIN supplies, feeds[i] \cap feeds[j] # {}
      PROVE  i = j
  <2>1. Itoa(i) = Itoa(j)
    BY <1>9, LabelsMeet
  <2> QED BY <1>8, <1>9, <2>1, ItoaDiffers
<1>10. ASSUME Get(w, at), NEW i \in DOMAIN controls, NEW j \in DOMAIN controls, draws[i] \cap draws[j] # {}
       PROVE  i = j
  <2>1. Itoa(i) = Itoa(j)
    BY <1>10, LabelsMeet
  <2> QED BY <1>8, <1>10, <2>1, ItoaDiffers
<1>11. ASSUME Get(w, at) PROVE \E l : Distinct(VoltageKinds, l, volts)
  BY <1>8, <1>11, VoltagesDistinct, NothingDistinct
<1>12. /\ SupplyKinds \cap ControlKinds = {} /\ (SupplyKinds \cup ControlKinds) \cap VoltageKinds = {}
  BY DEF SupplyKinds, ControlKinds, VoltageKinds
<1> DEFINE chassis == ChassisPower(w, d)
<1> HIDE DEF fed, drawn, feeds, draws, volts, supplies, controls
<1>13. ASSUME Get(w, at) PROVE \E l : Distinct(ControlKinds, l, chassis \cup lines)
  <2>1. PICK l : Distinct(ControlKinds, l, lines)
    BY <1>7, <1>10, <1>13, RowsDistinct
  <2>2. DOMAIN controls = {} => lines = {}
    BY DEF Heap
  <2>3. \/ chassis \cup lines = lines \/ chassis \cup lines = chassis
    BY <1>5, <2>2
  <2> QED BY <1>4, <2>1, <2>3
<1>14. ASSUME Get(w, at) PROVE \E l : Distinct(SupplyKinds, l, rows)
  BY <1>6, <1>9, <1>14, RowsDistinct
<1> HIDE DEF chassis, rows, lines
<1>15. ASSUME Get(w, at) PROVE \E k, l : Distinct(k, l, all)
  <2>1. PICK l1 : Distinct(SupplyKinds, l1, rows)
    BY <1>14, <1>15
  <2>2. PICK l2 : Distinct(ControlKinds, l2, chassis \cup lines)
    BY <1>13, <1>15
  <2>3. PICK l3 : Distinct(VoltageKinds, l3, volts)
    BY <1>11, <1>15
  <2>4. Distinct(SupplyKinds \cup ControlKinds, l1 \cup l2, rows \cup (chassis \cup lines))
    BY <1>12, <2>1, <2>2, PartsDistinct
  <2>5. Distinct((SupplyKinds \cup ControlKinds) \cup VoltageKinds, (l1 \cup l2) \cup l3,
                 (rows \cup (chassis \cup lines)) \cup volts)
    BY <1>12, <2>3, <2>4, PartsDistinct
  <2>6. all = (rows \cup (chassis \cup lines)) \cup volts
    BY DEF chassis
  <2> QED BY <2>5, <2>6
<1> HIDE DEF all, at
<1>16. \E k, l : Get(w, at) => Distinct(k, l, all)
  BY <1>15
<1> QED BY <1>1, <1>16, AnswerDistinct

\* The ports of an adapter, which carry its identifier with their own: an identifier that
\* is the adapter's gives way to the link.
LEMMA PortsDistinct ==
  ASSUME NEW w, NEW ni, PortsIdentified(w, ni)
  PROVE  \E labels : /\ Distinct(PortKinds, labels, Ports(w, ni))
                     /\ \A l \in labels : \E id : l = <<id, ni.Id>>
<1> DEFINE at    == IF ni.Ports # "" THEN ni.Ports ELSE ni.NetworkPorts
           links == Linked(w, at)
           id(r) == PortId(w, ni, r, w.doc[r])
           sent  == [i \in Firsts(links) |->
                       Answer(w, links[i], PortSeries(ni.Id, id(links[i]), w.doc[links[i]]))]
           own   == [r \in DOMAIN w.doc |-> {<<id(r), ni.Id>>}]
           ports == MembersAt(w, at)
<1>1. Ports(w, ni) = Toured(w, at, sent)
  BY Zenon DEF Ports, Collection, Fetch, Walk, With, Visits, Toured, Tour, Stops, Answer, Linked
<1>2. \A i \in Firsts(links) :
        IF Get(w, links[i]) THEN Distinct(PortKinds, own[links[i]], sent[i]) ELSE sent[i] = Failed
  BY PortOnce, GotExists DEF Answer
<1>3. ASSUME NEW r \in ports, NEW s \in ports, own[r] \cap own[s] # {} PROVE r = s
  <2>1. id(r) = id(s)
    BY <1>3, LabelsMeet, MembersExist
  <2>2. /\ w.doc[r].Id = w.doc[s].Id => r = s \/ (w.vendor = "Dell" /\ w.doc[r].Id = ni.Id)
        /\ w.vendor = "Dell" /\ w.doc[r].Id = s => r = s
        /\ w.vendor = "Dell" /\ w.doc[s].Id = r => r = s
    BY DEF PortsIdentified
  <2> QED BY <2>1, <2>2 DEF PortId
<1>4. \A l \in Joined(ports, own) : \E x : l = <<x, ni.Id>>
  BY MembersExist DEF Joined
<1> HIDE DEF sent, own, at
<1>5. Distinct(PortKinds, Joined(ports, own), Ports(w, ni))
  BY <1>1, <1>2, <1>3, TouredDistinct
<1> QED BY <1>4, <1>5

\* A label that names a resource or a part of it.
Bears(label, id) == label = <<id>> \/ \E part : label = <<part, id>>

\* No label names two.
LEMMA BearsOne ==
  ASSUME NEW label, NEW a, NEW b, Bears(label, a), Bears(label, b)
  PROVE  a = b
<1>1. \A x, y, z : <<x>> # <<y, z>>
  <2>1. \A x, y, z : Len(<<x>>) = 1 /\ Len(<<y, z>>) = 2
    OBVIOUS
  <2> QED BY <2>1
<1>2. \A x, y : <<x>> = <<y>> => x = y
  OBVIOUS
<1>3. \A x, y, u, v : <<x, y>> = <<u, v>> => y = v
  OBVIOUS
<1> QED BY <1>1, <1>2, <1>3, Zenon DEF Bears

\* A collection whose members are told apart by their identifiers, each of which all the
\* labels of the member bear.
LEMMA BearersDistinct ==
  ASSUME NEW w, NEW kinds, NEW at, NEW sent,
         Get(w, at) => OwnIds(w, MembersAt(w, at)),
         Get(w, at) =>
           \A i \in Firsts(Linked(w, at)) :
             IF Get(w, Linked(w, at)[i])
             THEN \E labels : /\ Distinct(kinds, labels, sent[i])
                              /\ \A l \in labels : Bears(l, w.doc[Linked(w, at)[i]].Id)
             ELSE sent[i] = Failed
  PROVE  \E labels : Distinct(kinds, labels, Toured(w, at, sent))
<1> DEFINE links  == Linked(w, at)
           borne(r) == {l \in UNION {{s.labels : s \in sent[i]} : i \in Firsts(links)} : Bears(l, w.doc[r].Id)}
           labels == [r \in DOMAIN w.doc |-> borne(r)]
<1>1. ASSUME Get(w, at), NEW i \in Firsts(links)
      PROVE  IF Get(w, links[i]) THEN Distinct(kinds, labels[links[i]], sent[i]) ELSE sent[i] = Failed
  <2>1. ASSUME Get(w, links[i]) PROVE Distinct(kinds, labels[links[i]], sent[i])
    <3>1. PICK some : /\ Distinct(kinds, some, sent[i])
                      /\ \A l \in some : Bears(l, w.doc[links[i]].Id)
      BY <1>1, <2>1
    <3>2. labels[links[i]] = borne(links[i])
      BY <2>1, GotExists
    <3>3. ASSUME NEW s \in sent[i], s.labels \in some PROVE s.labels \in borne(links[i])
      BY <3>1, <3>3
    <3> HIDE DEF labels, borne
    <3> QED BY <3>1, <3>2, <3>3 DEF Distinct
  <2> QED BY <1>1, <2>1
<1>2. ASSUME NEW r \in MembersAt(w, at), NEW s \in MembersAt(w, at), labels[r] \cap labels[s] # {}, Get(w, at)
      PROVE  r = s
  <2>1. PICK l : l \in labels[r] /\ l \in labels[s]
    BY <1>2
  <2>2. Bears(l, w.doc[r].Id) /\ Bears(l, w.doc[s].Id)
    BY <2>1, MembersExist
  <2>3. w.doc[r].Id = w.doc[s].Id
    BY <2>2, BearsOne
  <2> QED BY <1>2, <2>3 DEF OwnIds
<1>3. CASE Get(w, at)
  <2> HIDE DEF labels
  <2> QED BY <1>1, <1>2, <1>3, TouredDistinct
<1>4. CASE ~Get(w, at)
  BY <1>4, NothingDistinct DEF Toured, Answer
<1> QED BY <1>3, <1>4

\* An adapter with its ports: with iLO 4, the speed of each.
LEMMA AdapterDistinct ==
  ASSUME NEW w, NEW ni,
         IF w.vendor = "Hpe" /\ w.ilo4 THEN Numbered(ni.PhysicalPorts) ELSE PortsIdentified(w, ni)
  PROVE  \E labels : Distinct(NetworkKinds, labels, Adapter(w, ni)) /\ \A l \in labels : Bears(l, ni.Id)
<1> DEFINE list     == ni.PhysicalPorts
           speed    == [i \in DOMAIN list |-> PortSpeed(ni.Id, Itoa(i), list[i], "none", "none")]
           places   == [i \in DOMAIN list |-> {<<Itoa(i), ni.Id>>}]
           physical == Heap(DOMAIN list, speed)
           own      == AdapterInfo(ni) \cup AdapterHealth(ni)
           self     == {<<ni.Id>>}
<1>1. Adapter(w, ni) = IF w.vendor = "Hpe" /\ w.ilo4 THEN AdapterInfo(ni) \cup physical
                       ELSE Then(own, Ports(w, ni))
  BY Zenon DEF Adapter, Rows, Heap
<1>2. Distinct(AdapterKinds, self, own)
  BY AdapterOnce
<1>3. AdapterKinds \cap PortKinds = {} /\ AdapterKinds \cup PortKinds = NetworkKinds
  BY DEF AdapterKinds, PortKinds, NetworkKinds
<1>4. \A l \in self : Bears(l, ni.Id)
  BY DEF Bears
<1>5. CASE w.vendor = "Hpe" /\ w.ilo4
  <2>1. \A i \in DOMAIN list : Distinct(PortKinds, places[i], speed[i])
    <3>1. ASSUME NEW i \in DOMAIN list PROVE Distinct(PortKinds, {<<Itoa(i), ni.Id>>}, speed[i])
      <4> DEFINE v == FirstNonzero(list[i], FirstNonzero("none", "none"))
                 l == <<Itoa(i), ni.Id>>
      <4>1. speed[i] = Nonzero("port_current_speed", l, v)
        BY DEF PortSpeed
      <4> HIDE DEF v, l, speed
      <4>2. Distinct({"port_current_speed"}, {l}, speed[i])
        BY <4>1, SamplesAre, SampleOnce
      <4>3. {"port_current_speed"} \subseteq PortKinds
        BY DEF PortKinds
      <4>4. Distinct(PortKinds, {l}, speed[i])
        BY <4>2, <4>3, DistinctMore
      <4> QED BY <4>4 DEF l
    <3> QED BY <3>1
  <2>2. ASSUME NEW i \in DOMAIN list, NEW j \in DOMAIN list, places[i] \cap places[j] # {} PROVE i = j
    <3>1. Itoa(i) = Itoa(j)
      BY <2>2, LabelsMeet
    <3> QED BY <1>5, <3>1, ItoaDiffers
  <2>3. \A l \in Joined(DOMAIN list, places) : Bears(l, ni.Id)
    BY DEF Joined, Bears
  <2> HIDE DEF places, speed, list
  <2>4. Distinct(PortKinds, Joined(DOMAIN list, places), physical)
    BY <2>1, <2>2, HeapDistinct
  <2>5. Distinct(AdapterKinds, self, AdapterInfo(ni))
    BY <1>2, DistinctMore
  <2> HIDE DEF physical, self, own
  <2>6. Distinct(AdapterKinds \cup PortKinds, self \cup Joined(DOMAIN list, places), AdapterInfo(ni) \cup physical)
    BY <1>3, <2>4, <2>5, PartsDistinct
  <2> QED BY <1>1, <1>3, <1>4, <1>5, <2>3, <2>6
<1>6. CASE ~(w.vendor = "Hpe" /\ w.ilo4)
  <2>1. PICK some : Distinct(PortKinds, some, Ports(w, ni)) /\ \A l \in some : \E id : l = <<id, ni.Id>>
    BY <1>6, PortsDistinct
  <2>2. \A l \in some : Bears(l, ni.Id)
    BY <2>1 DEF Bears
  <2> HIDE DEF physical, self, own
  <2>3. Distinct(AdapterKinds \cup PortKinds, self \cup some, Then(own, Ports(w, ni)))
    BY <1>2, <1>3, <2>1, PartsDistinct
  <2> QED BY <1>1, <1>3, <1>4, <1>6, <2>2, <2>3
<1> QED BY <1>5, <1>6

\* All adapters.
LEMMA NetworkDistinct ==
  ASSUME NEW w, NetworkIdentified(w)
  PROVE  \E labels : Distinct(NetworkKinds, labels, RefreshNetwork(w))
<1> DEFINE at    == w.path.Network
           links == Linked(w, at)
           sent  == [i \in Firsts(links) |-> Answer(w, links[i], Adapter(w, w.doc[links[i]]))]
<1>1. RefreshNetwork(w) = Toured(w, at, sent)
  BY Zenon DEF RefreshNetwork, Collection, Fetch, Walk, With, Visits, Toured, Tour, Stops, Answer, Linked
<1>2. ASSUME Get(w, at), NEW i \in Firsts(links)
      PROVE  IF Get(w, links[i])
             THEN \E labels : /\ Distinct(NetworkKinds, labels, sent[i])
                              /\ \A l \in labels : Bears(l, w.doc[links[i]].Id)
             ELSE sent[i] = Failed
  <2>1. Get(w, links[i]) => links[i] \in MembersAt(w, at)
    BY <1>2, GotExists, FirstsDiffer DEF MembersAt, Existing, Linked
  <2> QED BY <2>1, AdapterDistinct DEF NetworkIdentified, Answer
<1>3. OwnIds(w, MembersAt(w, at))
  BY DEF NetworkIdentified
<1> HIDE DEF sent, at
<1> QED BY <1>1, <1>2, <1>3, BearersDistinct

\* The labels of parts of a resource, all of them together.
LEMMA JoinedBears ==
  ASSUME NEW S, NEW labels, NEW id, \A i \in S : \E part : labels[i] = {<<part, id>>}
  PROVE  \A l \in Joined(S, labels) : Bears(l, id)
<1>1. ASSUME NEW i \in S, NEW l \in labels[i] PROVE Bears(l, id)
  BY <1>1 DEF Bears
<1> QED BY <1>1 DEF Joined

\* The drives of a storage unit.
LEMMA DrivesDistinct ==
  ASSUME NEW w, NEW parent, NEW links, DrivesIdentified(w, Existing(w, links))
  PROVE  \E labels : Distinct(DriveKinds, labels, Drives(w, parent, links)) /\ \A l \in labels : Bears(l, parent)
<1> DEFINE sent == [i \in Firsts(links) |-> Answer(w, links[i], Drive(w, parent, w.doc[links[i]]))]
           own  == [r \in DOMAIN w.doc |-> {<<DriveId(w, w.doc[r]), parent>>}]
           all  == Joined(Existing(w, links), own)
<1>1. Drives(w, parent, links) = Tour(links, sent)
  BY Zenon DEF Drives, Fetch, Walk, With, Visits, Tour, Stops, Answer
<1>2. \A x : Distinct(DriveKinds, {<<DriveId(w, x), parent>>}, Drive(w, parent, x))
  BY DriveOnce, NothingDistinct DEF Drive
<1>3. \A i \in Firsts(links) :
        IF Get(w, links[i]) THEN Distinct(DriveKinds, own[links[i]], sent[i]) ELSE sent[i] = Failed
  BY <1>2, GotExists DEF Answer
<1>4. ASSUME NEW r \in Existing(w, links), NEW s \in Existing(w, links), own[r] \cap own[s] # {} PROVE r = s
  <2>1. DriveId(w, w.doc[r]) = DriveId(w, w.doc[s])
    BY <1>4, LabelsMeet, MembersExist
  <2> QED BY <2>1 DEF DrivesIdentified
<1>5. \A l \in all : Bears(l, parent)
  <2>1. \A r \in Existing(w, links) : own[r] = {<<DriveId(w, w.doc[r]), parent>>}
    BY MembersExist
  <2> HIDE DEF own
  <2> QED BY <2>1, JoinedBears
<1> HIDE DEF sent, own
<1>6. Distinct(DriveKinds, all, Tour(links, sent))
  BY <1>3, <1>4, VisitsDistinct
<1> QED BY <1>1, <1>5, <1>6

\* Its controllers, in a collection or in the unit itself.
LEMMA ControllersDistinct ==
  ASSUME NEW w, NEW d, UnitIdentified(w, d)
  PROVE  \E labels : Distinct(ControllerKinds, labels, Controllers(w, d)) /\ \A l \in labels : Bears(l, d.Id)
<1> DEFINE at    == d.Controllers
           links == Linked(w, at)
           sent  == [i \in Firsts(links) |->
                       Answer(w, links[i], ControllerSeries(d.Id, w.doc[links[i]].Id, w.doc[links[i]]))]
           own   == [r \in DOMAIN w.doc |-> {<<w.doc[r].Id, d.Id>>}]
           list  == d.StorageControllers
           rows  == [i \in DOMAIN list |-> ControllerSeries(d.Id, InlineId(list[i]), list[i])]
           names == [i \in DOMAIN list |-> {<<InlineId(list[i]), d.Id>>}]
<1>1. Controllers(w, d) = IF at # "" THEN Toured(w, at, sent) ELSE Heap(DOMAIN list, rows)
  BY Zenon DEF Controllers, Collection, Fetch, Walk, With, Visits, Toured, Tour, Stops, Answer, Linked, Rows, Heap
<1>2. CASE at # ""
  <2>1. \A i \in Firsts(links) :
          IF Get(w, links[i]) THEN Distinct(ControllerKinds, own[links[i]], sent[i]) ELSE sent[i] = Failed
    BY ControllerOnce, GotExists DEF Answer
  <2>2. ASSUME NEW r \in MembersAt(w, at), NEW s \in MembersAt(w, at), own[r] \cap own[s] # {} PROVE r = s
    <3>1. w.doc[r].Id = w.doc[s].Id
      BY <2>2, LabelsMeet, MembersExist
    <3> QED BY <3>1 DEF UnitIdentified, OwnIds
  <2>3. \A l \in Joined(MembersAt(w, at), own) : Bears(l, d.Id)
    <3>1. \A r \in MembersAt(w, at) : own[r] = {<<w.doc[r].Id, d.Id>>}
      BY MembersExist
    <3> HIDE DEF own
    <3> QED BY <3>1, JoinedBears
  <2> HIDE DEF sent, own, at
  <2>4. Distinct(ControllerKinds, Joined(MembersAt(w, at), own), Toured(w, at, sent))
    BY <2>1, <2>2, TouredDistinct
  <2> QED BY <1>1, <1>2, <2>3, <2>4
<1>3. CASE at = ""
  <2>1. \A i \in DOMAIN list : Distinct(ControllerKinds, names[i], rows[i])
    BY ControllerOnce
  <2>2. ASSUME NEW i \in DOMAIN list, NEW j \in DOMAIN list, names[i] \cap names[j] # {} PROVE i = j
    <3>1. InlineId(list[i]) = InlineId(list[j])
      BY <2>2, LabelsMeet
    <3> QED BY <1>3, <3>1 DEF UnitIdentified
  <2>3. \A l \in Joined(DOMAIN list, names) : Bears(l, d.Id)
    <3>1. \A i \in DOMAIN list : names[i] = {<<InlineId(list[i]), d.Id>>}
      OBVIOUS
    <3> HIDE DEF names
    <3> QED BY <3>1, JoinedBears
  <2> HIDE DEF rows, names, list, at
  <2>4. Distinct(ControllerKinds, Joined(DOMAIN list, names), Heap(DOMAIN list, rows))
    BY <2>1, <2>2, HeapDistinct
  <2>5. Controllers(w, d) = Heap(DOMAIN list, rows)
    BY <1>1, <1>3, Zenon
  <2> QED BY <2>3, <2>4, <2>5
<1> QED BY <1>2, <1>3

\* Its volumes.
LEMMA VolumesDistinct ==
  ASSUME NEW w, NEW d, UnitIdentified(w, d)
  PROVE  \E labels : Distinct(VolumeKinds, labels, Volumes(w, d)) /\ \A l \in labels : Bears(l, d.Id)
<1> DEFINE at    == d.Volumes
           links == Linked(w, at)
           sent  == [i \in Firsts(links) |-> Answer(w, links[i], VolumeSeries(d.Id, w.doc[links[i]]))]
           own   == [r \in DOMAIN w.doc |-> {<<w.doc[r].Id, d.Id>>}]
<1>1. Volumes(w, d) = {} \/ Volumes(w, d) = Toured(w, at, sent)
  BY Zenon DEF Volumes, Collection, Fetch, Walk, With, Visits, Toured, Tour, Stops, Answer, Linked
<1>2. \A i \in Firsts(links) :
        IF Get(w, links[i]) THEN Distinct(VolumeKinds, own[links[i]], sent[i]) ELSE sent[i] = Failed
  BY VolumeOnce, GotExists DEF Answer
<1>3. ASSUME NEW r \in MembersAt(w, at), NEW s \in MembersAt(w, at), own[r] \cap own[s] # {} PROVE r = s
  <2>1. w.doc[r].Id = w.doc[s].Id
    BY <1>3, LabelsMeet, MembersExist
  <2> QED BY <2>1 DEF UnitIdentified, OwnIds
<1>4. \A l \in Joined(MembersAt(w, at), own) : Bears(l, d.Id)
  <2>1. \A r \in MembersAt(w, at) : own[r] = {<<w.doc[r].Id, d.Id>>}
    BY MembersExist
  <2> HIDE DEF own
  <2> QED BY <2>1, JoinedBears
<1> HIDE DEF sent, own, at
<1>5. Distinct(VolumeKinds, Joined(MembersAt(w, at), own), Toured(w, at, sent))
  BY <1>2, <1>3, TouredDistinct
<1>6. Distinct(VolumeKinds, Joined(MembersAt(w, at), own), {})
  BY NothingDistinct
<1> QED BY <1>1, <1>4, <1>5, <1>6

\* A storage unit with all that is in it.
LEMMA UnitDistinct ==
  ASSUME NEW w, NEW d, UnitIdentified(w, d)
  PROVE  \E labels : Distinct(StorageKinds, labels, StorageUnit(w, d)) /\ \A l \in labels : Bears(l, d.Id)
<1>1. Distinct(UnitKinds, {<<d.Id>>}, Own(d)) /\ \A l \in {<<d.Id>>} : Bears(l, d.Id)
  BY UnitOnce DEF Bears
<1>2. PICK l1 : Distinct(DriveKinds, l1, Drives(w, d.Id, d.Drives)) /\ \A l \in l1 : Bears(l, d.Id)
  BY DrivesDistinct DEF UnitIdentified
<1>3. PICK l2 : Distinct(ControllerKinds, l2, Controllers(w, d)) /\ \A l \in l2 : Bears(l, d.Id)
  BY ControllersDistinct
<1>4. PICK l3 : Distinct(VolumeKinds, l3, Volumes(w, d)) /\ \A l \in l3 : Bears(l, d.Id)
  BY VolumesDistinct
<1> DEFINE tail == Then(Controllers(w, d), Volumes(w, d))
           rest == Then(Drives(w, d.Id, d.Drives), tail)
           l0 == {<<d.Id>>}
<1>5. /\ ControllerKinds \cap VolumeKinds = {} /\ DriveKinds \cap (ControllerKinds \cup VolumeKinds) = {}
      /\ UnitKinds \cap (DriveKinds \cup (ControllerKinds \cup VolumeKinds)) = {}
      /\ UnitKinds \cup (DriveKinds \cup (ControllerKinds \cup VolumeKinds)) = StorageKinds
  BY DEF UnitKinds, DriveKinds, ControllerKinds, VolumeKinds, StorageKinds
<1>6. Distinct(ControllerKinds \cup VolumeKinds, l2 \cup l3, tail)
  BY <1>3, <1>4, <1>5, PartsDistinct
<1> HIDE DEF tail
<1>7. Distinct(DriveKinds \cup (ControllerKinds \cup VolumeKinds), l1 \cup (l2 \cup l3), rest)
  BY <1>2, <1>5, <1>6, PartsDistinct
<1> HIDE DEF rest, l0
<1>8. Distinct(UnitKinds, l0, Own(d)) /\ \A l \in l0 : Bears(l, d.Id)
  BY <1>1 DEF l0
<1>9. Distinct(UnitKinds \cup (DriveKinds \cup (ControllerKinds \cup VolumeKinds)), l0 \cup (l1 \cup (l2 \cup l3)),
               Then(Own(d), rest))
  BY <1>5, <1>7, <1>8, PartsDistinct
<1>10. \A l \in l0 \cup (l1 \cup (l2 \cup l3)) : Bears(l, d.Id)
  BY <1>2, <1>3, <1>4, <1>8
<1>11. StorageUnit(w, d) = Then(Own(d), rest)
  BY DEF StorageUnit, rest, tail
<1> QED BY <1>5, <1>9, <1>10, <1>11

\* A storage unit of iLO 4.
LEMMA Ilo4UnitDistinct ==
  ASSUME NEW w, NEW r, NEW d, DrivesIdentified(w, MembersAt(w, r \o "DiskDrives/"))
  PROVE  \E labels : Distinct(StorageKinds, labels, Ilo4Storage(w, r, d)) /\ \A l \in labels : Bears(l, d.Id)
<1> DEFINE at    == r \o "DiskDrives/"
           links == Members(<<>>, w.doc[at])
           l0    == {<<d.Id>>}
<1>1. Ilo4Storage(w, r, d) = Answer(w, at, Then(Own(d), Drives(w, d.Id, links)))
  BY Zenon DEF Ilo4Storage, Fetch, Answer
<1>2. Distinct(UnitKinds, l0, Own(d)) /\ \A l \in l0 : Bears(l, d.Id)
  BY UnitOnce DEF Bears
<1>3. /\ UnitKinds \cap DriveKinds = {} /\ UnitKinds \cup DriveKinds \subseteq StorageKinds
  BY DEF UnitKinds, DriveKinds, StorageKinds
<1>4. CASE Get(w, at)
  <2>1. DrivesIdentified(w, Existing(w, links))
    BY <1>4, GotExists DEF MembersAt
  <2>2. PICK l1 : Distinct(DriveKinds, l1, Drives(w, d.Id, links)) /\ \A l \in l1 : Bears(l, d.Id)
    BY <2>1, DrivesDistinct
  <2> HIDE DEF l0, links, at
  <2>3. Distinct(UnitKinds \cup DriveKinds, l0 \cup l1, Then(Own(d), Drives(w, d.Id, links)))
    BY <1>2, <1>3, <2>2, PartsDistinct
  <2>4. Distinct(StorageKinds, l0 \cup l1, Then(Own(d), Drives(w, d.Id, links)))
    BY <1>3, <2>3, DistinctMore
  <2>5. \A l \in l0 \cup l1 : Bears(l, d.Id)
    BY <1>2, <2>2
  <2> QED BY <1>1, <1>4, <2>4, <2>5 DEF Answer
<1>5. CASE ~Get(w, at)
  <2>1. Distinct(StorageKinds, {}, Ilo4Storage(w, r, d))
    BY <1>1, <1>5, NothingDistinct DEF Answer
  <2> QED BY <2>1
<1> QED BY <1>4, <1>5

\* All storage units.
LEMMA StorageDistinct ==
  ASSUME NEW w, StorageIdentified(w)
  PROVE  \E labels : Distinct(StorageKinds, labels, RefreshStorage(w))
<1> DEFINE All(r, d) == IF w.vendor = "Hpe" /\ w.ilo4 THEN Ilo4Storage(w, r, d) ELSE StorageUnit(w, d)
           at        == w.path.Storage
           links     == Linked(w, at)
           sent      == [i \in Firsts(links) |-> Answer(w, links[i], All(links[i], w.doc[links[i]]))]
<1>1. RefreshStorage(w) = Toured(w, at, sent)
  BY Zenon DEF RefreshStorage, Collection, Fetch, Walk, With, Visits, Toured, Tour, Stops, Answer, Linked
<1>2. ASSUME NEW r \in MembersAt(w, at)
      PROVE  \E labels : /\ Distinct(StorageKinds, labels, All(r, w.doc[r]))
                         /\ \A l \in labels : Bears(l, w.doc[r].Id)
  BY UnitDistinct, Ilo4UnitDistinct DEF StorageIdentified
<1> HIDE DEF All
<1>3. ASSUME Get(w, at), NEW i \in Firsts(links)
      PROVE  IF Get(w, links[i])
             THEN \E labels : /\ Distinct(StorageKinds, labels, sent[i])
                              /\ \A l \in labels : Bears(l, w.doc[links[i]].Id)
             ELSE sent[i] = Failed
  <2>1. Get(w, links[i]) => links[i] \in MembersAt(w, at)
    BY <1>3, GotExists, FirstsDiffer DEF MembersAt, Existing, Linked
  <2> QED BY <1>2, <2>1 DEF Answer
<1>4. OwnIds(w, MembersAt(w, at))
  BY DEF StorageIdentified
<1> HIDE DEF sent, at
<1> QED BY <1>1, <1>3, <1>4, BearersDistinct

\* No metric group sends a series twice if the BMC tells apart what the group reads: the
\* labels are taken from there as they come.
THEOREM GroupsDistinct ==
  ASSUME NEW w, NEW group \in GroupNames, Identified(w, group)
  PROVE  \E kinds, labels : Distinct(kinds, labels, Refresh(w, group))
<1>1. CASE group = "voltages"
  <2>1. Get(w, w.path.Power) => \E l : Distinct(VoltageKinds, l, emitVoltages(w.doc[w.path.Power]))
    BY <1>1, VoltagesDistinct, GotExists DEF Identified, VoltagesIdentified
  <2>2. \/ RefreshVoltages(w) = {} \/ RefreshVoltages(w) = Failed
        \/ RefreshVoltages(w) = emitVoltages(w.doc[w.path.Power]) /\ Get(w, w.path.Power)
    BY Zenon DEF RefreshVoltages, Fetch
  <2>3. \E l : Distinct(VoltageKinds, l, RefreshVoltages(w))
    BY <2>1, <2>2, NothingDistinct
  <2> QED BY <1>1, <2>3, RefreshIs
<1>2. CASE group = "power"
  <2>1. /\ \E k, l : Distinct(k, l, RefreshPowerOld(w))
        /\ \E k, l : Distinct(k, l, RefreshPowerNew(w))
        /\ \E k, l : Distinct(k, l, {})
    BY <1>2, PowerOldDistinct, PowerNewDistinct, NothingDistinct DEF Identified
  <2>2. RefreshPower(w) \in {RefreshPowerOld(w), RefreshPowerNew(w), {}}
    BY DEF RefreshPower
  <2>3. \E k, l : Distinct(k, l, RefreshPower(w))
    BY <2>1, <2>2
  <2> QED BY <1>2, <2>3, RefreshIs
<1>3. CASE group = "sensors"
  <2>1. /\ \E l : Distinct(SensorKinds, l, RefreshSensorsOld(w))
        /\ \E l : Distinct(SensorKinds, l, RefreshSensorsNew(w))
        /\ \E l : Distinct(SensorKinds, l, {})
    BY <1>3, SensorsOldDistinct, SensorsNewDistinct, NothingDistinct DEF Identified
  <2>2. RefreshSensors(w) \in {RefreshSensorsOld(w), RefreshSensorsNew(w), {}}
    BY DEF RefreshSensors
  <2>3. \E l : Distinct(SensorKinds, l, RefreshSensors(w))
    BY <2>1, <2>2
  <2> QED BY <1>3, <2>3, RefreshIs
<1>4. CASE group \in {"network", "events", "storage", "memory"}
  <2>1. /\ group = "network" => NetworkIdentified(w)
        /\ group = "events" => EventsIdentified(w)
        /\ group = "storage" => StorageIdentified(w)
        /\ group = "memory" => OwnIds(w, {r \in MembersAt(w, w.path.Memory) : w.doc[r].Id # ""})
    BY DEF Identified
  <2> QED BY <1>4, <2>1, NetworkDistinct, EventsDistinct, StorageDistinct, MemoryDistinct, RefreshIs
<1>5. CASE group \in {"processors", "pdus", "system", "manager", "extra"}
  <2>1. /\ group = "processors" => OwnIds(w, MembersAt(w, w.path.Processors))
        /\ group = "pdus" => OwnIds(w, Existing(w, w.path.RackPDUs))
    BY DEF Identified
  <2> QED BY <1>5, <2>1, ProcessorsDistinct, PDUsDistinct, SinglesDistinct, RefreshIs
<1> QED BY <1>1, <1>2, <1>3, <1>4, <1>5 DEF GroupNames
=============================================================================
