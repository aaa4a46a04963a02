------------------------------- MODULE Groups -------------------------------
(***************************************************************************)
(* The metric groups of internal/collector/client.go: what one RefreshXxx  *)
(* call makes of the BMC's resources.  A call is an operator of the world  *)
(* w it runs in: w.doc, the resources of the BMC by path; w.net, what goes *)
(* wrong at some of them; w.path, w.vendor, w.ilo4, the fields of the      *)
(* Client; w.cfg, w.level, its configuration snapshot.  The result is the  *)
(* set of series the call sent, and with them a failure if it returned     *)
(* false.                                                                  *)
(*                                                                         *)
(* A pointer field that may be nil is a field the record may lack.         *)
(***************************************************************************)
EXTENDS Emitters, Naturals, Sequences

CONSTANT Numerals  \* the decimal numerals of 0, 1, 2, ...: those of the elements of an array

ASSUME NumeralsAssumption ==
  \A i, j \in DOMAIN Numerals : Numerals[i] = Numerals[j] => i = j

Has(d, f) == f \in DOMAIN d

\* strconv.Itoa of the index of element i.
Itoa(i) == Numerals[i]

-----------------------------------------------------------------------------
\* Requests (redfish.go)

\* What can go wrong at a resource: "flaky", two answers of 5xx or none at all,
\* then the right one; "busy", 5xx every time; "lost", never an answer;
\* "denied", 4xx; "garbled", 200 with a body that does not decode.
Troubles == {"flaky", "busy", "lost", "denied", "garbled"}

\* What the last of a request's attempts meets.
Outcome(w, r) ==
  IF r \notin DOMAIN w.doc THEN "denied"
  ELSE IF r \in DOMAIN w.net THEN w.net[r] ELSE "fine"

\* GET and HEAD are idempotent: two retries after a 5xx or no answer.
Retried(outcome) == IF outcome = "flaky" THEN "fine" ELSE outcome

\* Paths that do not start with /redfish/v1, the empty one first, are no resources.
Get(w, r) == Retried(Outcome(w, r)) = "fine"

\* Only no answer and 4xx say that a path does not exist.
Exists(w, r) == Retried(Outcome(w, r)) \notin {"lost", "denied"}

\* The Members of a collection decoded into a GroupResponse that held old.
Members(old, d) == IF Has(d, "Members") THEN d.Members ELSE old

-----------------------------------------------------------------------------
\* Results of calls and how they are put together

Failed == Info("failure", <<>>)

Ok(sent) == \A s \in sent : s.metric # "failure"

\* Use(value), with value computed once.
With(value, Use(_)) == UNION {Use(v) : v \in {value}}

Then(first, second) == With(first, LAMBDA sent : sent \cup IF Ok(sent) THEN second ELSE {})

Fetch(w, r, Use(_)) == IF Get(w, r) THEN Use(w.doc[r]) ELSE Failed

Placed(i, sent) == {[s EXCEPT !.at = <<i>> \o @] : s \in sent}

\* GetLinks: a link that is listed twice is followed once.
Firsts(links) == {i \in 1..Len(links) : \A j \in 1..(i - 1) : links[j] # links[i]}

Visits(links, Visit(_)) == {[at |-> i, sent |-> Visit(links[i])] : i \in Firsts(links)}

Gathered(visits) == UNION {Placed(v.at, v.sent) : v \in visits}

\* Mutant of Reached: a member that fails is skipped.
ReachedFine(visits) == {v \in visits : Ok(v.sent)}

\* Members are visited in order, until the first that fails.
Reached(visits) == {v \in visits : \A u \in visits : u.at < v.at => Ok(u.sent)}

Walk(links, Visit(_)) == With(Visits(links, Visit), LAMBDA visits : Gathered(Reached(visits)))

\* The entries of an array inside a resource.
Rows(list, Row(_, _)) == UNION {Placed(i, Row(i, list[i])) : i \in DOMAIN list}

Collection(w, r, Visit(_)) ==
  LET Use(group) == Walk(Members(<<>>, group), Visit)
  IN  Fetch(w, r, Use)

-----------------------------------------------------------------------------
\* Sensors

ThermalFan(f) ==
  IF f.SpeedRPM = "none" /\ f.Reading = "none" THEN {}
  ELSE FanSeries(f.Id, f.Name, f.Health, FirstPresent(f.SpeedRPM, f.Reading))

\* Dell's device names are left aside: the data source's last element is the name.
ReadingName(w, t) == IF w.vendor # "Dell" /\ t.DeviceName # "" THEN t.DeviceName ELSE t.DataSource

ThermalReading(w, n, t) ==
  IF t.Reading = "none" THEN {} ELSE Temperature(Itoa(n), ReadingName(w, t), t.Reading)

RefreshSensorsNew(w) ==
  LET Visit(r)       == Fetch(w, r, ThermalFan)
      Fans(d)        == IF d.Fans = "" THEN {} ELSE Collection(w, d.Fans, Visit)
      Readings(m)    == Rows(m.TemperatureReadings, LAMBDA n, t : ThermalReading(w, n, t))
      Metrics(d)     == IF d.ThermalMetrics = "" THEN {} ELSE Fetch(w, d.ThermalMetrics, Readings)
  IN  Fetch(w, w.path.ThermalSubsystem, LAMBDA d : Then(Fans(d), Metrics(d)))

\* Temperature.GetId
TemperatureId(n, t) ==
  IF t.MemberId # "" THEN t.MemberId
  ELSE IF t.SensorNumber # "" THEN t.SensorNumber ELSE Itoa(n)

OldTemperature(n, t) ==
  IF t.State # "Enabled" \/ t.ReadingCelsius = "negative" THEN {}
  ELSE Temperature(TemperatureId(n, t), t.Name, t.ReadingCelsius)

\* Fan.GetName and GetId
FanName(f) == IF f.FanName # "" THEN f.FanName ELSE f.Name

FanId(n, f) == IF f.MemberId # "" THEN f.MemberId ELSE Itoa(n)

\* Fan.GetUnits, GetReading
OldFan(n, f) ==
  LET units == IF f.ReadingUnits # "" THEN f.ReadingUnits ELSE f.Units
  IN  IF f.State # "Enabled" \/ FanName(f) = "" \/ units = "" THEN {}
      ELSE FanSeries(FanId(n, f), FanName(f), f.Health, FirstNonzero(f.Reading, f.CurrentReading))

RefreshSensorsOld(w) ==
  Fetch(w, w.path.Thermal, LAMBDA d :
    Rows(d.Temperatures, OldTemperature) \cup Rows(d.Fans, OldFan))

RefreshSensors(w) ==
  IF w.path.Thermal # "" THEN RefreshSensorsOld(w)
  ELSE IF w.path.ThermalSubsystem # "" THEN RefreshSensorsNew(w) ELSE {}

-----------------------------------------------------------------------------
\* Power and voltages

\* asFloat64: a number, or a string that is one.
VoltageRow(n, v) ==
  IF v.Name = "" \/ v.ReadingVolts \notin Given THEN {} ELSE Voltage(Itoa(n), v.Name, v.ReadingVolts)

emitVoltages(d) == Rows(d.Voltages, VoltageRow)

RefreshVoltages(w) ==
  IF w.path.Power = "" THEN {}
  ELSE Fetch(w, w.path.Power, emitVoltages)

\* Fujitsu reports the input of a supply with the sensors of its chassis, found by
\* the supply's name ...
InputWatts(w, d, p) ==
  IF w.vendor = "Fujitsu" /\ Has(d, "TsFujitsu") /\ p.Name \in DOMAIN d.TsFujitsu.Sensors
  THEN d.TsFujitsu.Sensors[p.Name] ELSE p.PowerInputWatts

\* ... and the consumption of the whole chassis, which becomes the first control's.
ControlOf(w, d, n) ==
  LET pc == d.PowerControl[n]
  IN  IF w.vendor = "Fujitsu" /\ Has(d, "TsFujitsu") /\ Has(d.TsFujitsu, "Consumption") /\ n = 1
      THEN LET cp == d.TsFujitsu.Consumption
           IN  [Name |-> pc.Name,
                PowerConsumedWatts |-> FirstNonzero(cp.Current, pc.PowerConsumedWatts),
                PowerCapacityWatts |-> FirstNonzero(cp.Maximum, pc.PowerCapacityWatts),
                PowerMetrics |-> IF Has(pc, "PowerMetrics") THEN pc.PowerMetrics ELSE cp.PowerMetrics]
      ELSE pc

PowerSupplyRow(w, d, n, p) ==
  LET skipped == \/ w.vendor = "Hpe" /\ w.ilo4 /\ p.FirmwareVersion = "0.00"
                 \/ w.vendor # "Inventec" /\ p.State # "Enabled"
      oem(v)  == IF w.vendor = "Huawei" /\ Has(p, "Huawei") THEN p.Huawei[v] ELSE "none"
      id      == Itoa(n)
  IN  IF skipped THEN {}
      ELSE PowerSupplyHealth(id, p.Health)
             \cup PowerSupplyInput(id, FirstNonzero(oem("PowerInputWatts"), InputWatts(w, d, p)))
             \cup PowerSupplyOutput(id, FirstNonzero(oem("PowerOutputWatts"),
                    FirstNonzero(p.PowerOutputWatts, p.LastPowerOutputWatts)))
             \cup PowerSupplyVoltage(id, p.LineInputVoltage)
             \cup PowerSupplyCapacity(id, p.PowerCapacityWatts)
             \cup PowerSupplyEfficiency(id, p.EfficiencyPercent)

PowerControlRow(w, d, n) ==
  LET pc == ControlOf(w, d, n)
  IN  PowerConsumed(Itoa(n), pc.Name, pc.PowerConsumedWatts)
        \cup PowerCapacity(Itoa(n), pc.Name, pc.PowerCapacityWatts)
        \cup IF Has(pc, "PowerMetrics") THEN PowerMetrics(Itoa(n), pc.Name, pc.PowerMetrics) ELSE {}

ChassisPower(w, d) ==
  IF w.vendor = "Inspur" /\ d.PowerControl = <<>> /\ Has(d, "Public")
  THEN PowerConsumed("0", "Chassis Power", d.Public.TotalPower) ELSE {}

RefreshPowerOld(w) ==
  Fetch(w, w.path.Power, LAMBDA d :
    Rows(d.PowerSupplies, LAMBDA n, p : PowerSupplyRow(w, d, n, p))
      \cup ChassisPower(w, d)
      \cup Rows(d.PowerControl, LAMBDA n, pc : PowerControlRow(w, d, n))
      \cup IF "sensors" \in w.cfg THEN emitVoltages(d) ELSE {})

SupplyMetrics(id, m) ==
  PowerSupplyVoltage(id, m.InputVoltage) \cup PowerSupplyInput(id, m.InputPowerWatts)
    \cup PowerSupplyOutput(id, m.OutputPowerWatts)

RefreshPowerNew(w) ==
  LET Supply(p) ==
        Then(PowerSupplyHealth(p.Id, p.Health) \cup PowerSupplyCapacity(p.Id, p.PowerCapacityWatts),
             IF p.Metrics = "" THEN {}
             ELSE Fetch(w, p.Metrics, LAMBDA m : SupplyMetrics(p.Id, m)))
      Visit(r) == Fetch(w, r, Supply)
  IN  Fetch(w, w.path.PowerSubsystem, LAMBDA d :
        IF d.PowerSupplies = "" THEN {} ELSE Collection(w, d.PowerSupplies, Visit))

RefreshPower(w) ==
  IF w.path.Power # "" THEN RefreshPowerOld(w)
  ELSE IF w.path.PowerSubsystem # "" THEN RefreshPowerNew(w) ELSE {}

-----------------------------------------------------------------------------
\* System, manager, processors, memory, network

RefreshSystem(w) ==
  Fetch(w, w.path.System, LAMBDA d :
    SystemSeries([d EXCEPT !.IndicatorLED =
                    IF w.vendor = "Hpe" THEN FirstPresent(@, d.HpeIndicatorLED) ELSE @]))

DellAttributesPath == "DellAttributes"

\* A Dell manager's model is that of its attributes, if they can be read.
RefreshManager(w) ==
  Fetch(w, w.path.Manager, LAMBDA d :
    ManagerSeries(d,
      IF w.vendor = "Dell" /\ DellAttributesPath \in d.DellAttributes /\ Get(w, DellAttributesPath)
      THEN w.doc[DellAttributesPath].InfoHWModel ELSE d.Model))

RefreshProcessors(w) ==
  LET State(d) == IF w.vendor = "Hpe" /\ w.ilo4 /\ d.State = "" /\ d.Health # "none"
                  THEN "Enabled" ELSE d.State
      Cpu(d)   == IF d.ProcessorType = "CPU" /\ State(d) = "Enabled" THEN CpuSeries(d) ELSE {}
      Visit(r) == Fetch(w, r, Cpu)
  IN  Collection(w, w.path.Processors, Visit)

\* iLO 4 has names of its own for the fields.
RefreshMemory(w) ==
  LET Module(d) == IF w.vendor = "Hpe" /\ w.ilo4
                   THEN [d EXCEPT !.Health = d.DIMMStatus, !.CapacityMiB = d.SizeMB] ELSE d
      Visit(r)  == Fetch(w, r, LAMBDA d :
                     IF d.State = "Absent" \/ d.Id = "" THEN {} ELSE MemorySeries(Module(d)))
  IN  Collection(w, w.path.Memory, Visit)

\* Mutant of PortId: the identifier is taken as it comes.
PortIdRaw(w, ni, r, port) == port.Id

\* A Dell port may be named like its adapter: then the link's last element names it.
PortId(w, ni, r, port) == IF w.vendor = "Dell" /\ ni.Id = port.Id THEN r ELSE port.Id

PortSeries(parent, id, p) ==
  PortHealth(parent, id, p) \cup PortMaxSpeed(parent, id, p) \cup PortLinkUp(parent, id, p)
    \cup PortSpeed(parent, id, p.CurrentLinkSpeedMbps, p.CurrentSpeedGbps, p.LinkSpeedMbps)

Ports(w, ni) ==
  LET Port(r) == Fetch(w, r, LAMBDA p : PortSeries(ni.Id, PortId(w, ni, r, p), p))
  IN  Collection(w, IF ni.Ports # "" THEN ni.Ports ELSE ni.NetworkPorts, Port)

\* iLO 4 lists the ports inside the adapter.
Adapter(w, ni) ==
  LET Physical == Rows(ni.PhysicalPorts, LAMBDA n, mbps : PortSpeed(ni.Id, Itoa(n), mbps, "none", "none"))
  IN  IF w.vendor = "Hpe" /\ w.ilo4 THEN AdapterInfo(ni) \cup Physical
      ELSE Then(AdapterInfo(ni) \cup AdapterHealth(ni), Ports(w, ni))

RefreshNetwork(w) ==
  LET Visit(r) == Fetch(w, r, LAMBDA ni : Adapter(w, ni))
  IN  Collection(w, w.path.Network, Visit)

-----------------------------------------------------------------------------
\* Events

LogServicesSel == "Managers/iDRAC.Embedded.1/LogServices/Sel/Entries"
LogsSel        == "Managers/iDRAC.Embedded.1/Logs/Sel"

\* An iDRAC 8 answers for the newer path with something else (issue 143).
EventPath(w) ==
  IF /\ w.vendor = "Dell" /\ w.path.Event = LogServicesSel /\ Get(w, LogServicesSel)
     /\ w.doc[LogServicesSel].Id = "SEL"
  THEN LogsSel ELSE w.path.Event

health2value(severity) ==
  CASE severity = "" -> 0 - 1 [] severity = "OK" -> 0 [] severity = "Warning" -> 1
    [] severity = "Critical" -> 2 [] OTHER -> 10

EventRow(w, e) ==
  IF e.Created = "recent" /\ health2value(e.Severity) >= w.level THEN EventLogEntry(e) ELSE {}

RefreshEventLog(w) ==
  IF w.path.Event = "" THEN {}
  ELSE Fetch(w, EventPath(w), LAMBDA d : Rows(d.Entries, LAMBDA n, e : EventRow(w, e)))

-----------------------------------------------------------------------------
\* Storage

\* A Supermicro drive's identifier is unique within its chassis only.
DriveId(w, d) == IF w.vendor = "Supermicro" /\ Has(d, "Chassis") THEN d.Chassis \o ":" \o d.Id ELSE d.Id

\* What iLO 4 and Inspur report under other names, as a pointer to a copy that is
\* never nil.
LifeLeft(w, d) ==
  LET Copy(v) == IF v = "none" THEN "default" ELSE v
  IN  IF w.vendor = "Hpe" /\ w.ilo4 THEN Copy(d.SSDEndurance)
      ELSE IF w.vendor = "Inspur" THEN FirstPresent(d.PredictedLifeLeft, Copy(d.TimeLeft))
      ELSE d.PredictedLifeLeft

Drive(w, parent, d) ==
  IF d.State = "Absent" THEN {}
  ELSE DriveSeries(parent, DriveId(w, d),
         [d EXCEPT !.PredictedLifeLeft = LifeLeft(w, d),
                   !.CapacityBytes = IF w.vendor = "Hpe" /\ w.ilo4 THEN d.CapacityMiB ELSE @])

Drives(w, parent, links) ==
  LET Visit(c) == Fetch(w, c, LAMBDA x : Drive(w, parent, x))
  IN  Walk(links, Visit)

\* A controller listed in the unit itself.
InlineId(x) == IF x.MemberId # "" THEN x.MemberId ELSE x.Id

Controllers(w, d) ==
  LET Visit(c)     == Fetch(w, c, LAMBDA x : ControllerSeries(d.Id, x.Id, x))
      Inline(n, x) == ControllerSeries(d.Id, InlineId(x), x)
  IN  IF d.Controllers # "" THEN Collection(w, d.Controllers, Visit)
      ELSE Rows(d.StorageControllers, Inline)

Volumes(w, d) ==
  LET Visit(c) == Fetch(w, c, LAMBDA x : VolumeSeries(d.Id, x))
  IN  IF d.Volumes # "" THEN Collection(w, d.Volumes, Visit) ELSE {}

Own(d) == StorageSeries(d) \cup ControllerBattery(d)

StorageUnit(w, d) == Then(Own(d), Then(Drives(w, d.Id, d.Drives), Then(Controllers(w, d), Volumes(w, d))))

\* iLO 4 has its drives in a collection below the controller.
Ilo4Storage(w, r, d) ==
  Fetch(w, r \o "DiskDrives/", LAMBDA group :
    Then(Own(d), Drives(w, d.Id, Members(<<>>, group))))

RefreshStorage(w) ==
  LET Visit(r) == Fetch(w, r, LAMBDA d :
                    IF w.vendor = "Hpe" /\ w.ilo4 THEN Ilo4Storage(w, r, d) ELSE StorageUnit(w, d))
  IN  Collection(w, w.path.Storage, Visit)

-----------------------------------------------------------------------------
\* Dell's own resource and power distribution units

DellSystemPath == "DellSystem"

RefreshDell(w) ==
  IF w.vendor = "Dell" /\ DellSystemPath \in w.path.Extra
  THEN Fetch(w, DellSystemPath, DellSystemSeries) ELSE {}

\* A unit that fails does not keep the others from being read.
RefreshPDUs(w) ==
  LET Unit(d) == Then(PduSeries(d), Fetch(w, d.Metrics, LAMBDA m : PduMetrics(d.Id, m)))
      Visit(r) == Fetch(w, r, Unit)
  IN  Gathered(Visits(w.path.RackPDUs, Visit))

-----------------------------------------------------------------------------
Refresh(w, group) ==
  CASE group = "system"     -> RefreshSystem(w)
    [] group = "sensors"    -> RefreshSensors(w)
    [] group = "voltages"   -> RefreshVoltages(w)
    [] group = "power"      -> RefreshPower(w)
    [] group = "network"    -> RefreshNetwork(w)
    [] group = "events"     -> RefreshEventLog(w)
    [] group = "storage"    -> RefreshStorage(w)
    [] group = "memory"     -> RefreshMemory(w)
    [] group = "processors" -> RefreshProcessors(w)
    [] group = "manager"    -> RefreshManager(w)
    [] group = "extra"      -> RefreshDell(w)
    [] group = "pdus"       -> RefreshPDUs(w)

-----------------------------------------------------------------------------
\* What tells the resources of a BMC apart.  None of it is in the code, which takes the
\* identifiers as they come: Redfish gives the members of a collection, and the entries
\* of an array, identifiers of their own.

Existing(w, links) == {links[i] : i \in 1..Len(links)} \cap DOMAIN w.doc

\* The members of the collection at r.
MembersAt(w, r) == IF r \in DOMAIN w.doc THEN Existing(w, Members(<<>>, w.doc[r])) ELSE {}

OwnIds(w, rs) ==
  /\ \A r \in rs : Has(w.doc[r], "Id")
  /\ \A r, s \in rs : w.doc[r].Id = w.doc[s].Id => r = s

\* There is a numeral for each element, however many there are.
Numbered(list) == DOMAIN list \subseteq DOMAIN Numerals

\* The enabled sensors of an array differ in identifier or name.
OwnLabels(list, Label(_, _)) ==
  \A i, j \in DOMAIN list :
    list[i].State = "Enabled" /\ list[j].State = "Enabled" /\ Label(i, list[i]) = Label(j, list[j])
      => i = j

SensorsIdentified(w) ==
  /\ w.path.Thermal \in DOMAIN w.doc =>
       /\ OwnLabels(w.doc[w.path.Thermal].Temperatures, LAMBDA n, t : <<TemperatureId(n, t), t.Name>>)
       /\ OwnLabels(w.doc[w.path.Thermal].Fans, LAMBDA n, f : <<FanId(n, f), FanName(f)>>)
  /\ w.path.ThermalSubsystem \in DOMAIN w.doc =>
       LET d == w.doc[w.path.ThermalSubsystem]
       IN  /\ OwnIds(w, MembersAt(w, d.Fans))
           /\ d.ThermalMetrics \in DOMAIN w.doc => Numbered(w.doc[d.ThermalMetrics].TemperatureReadings)

VoltagesIdentified(w) ==
  w.path.Power \in DOMAIN w.doc => Numbered(w.doc[w.path.Power].Voltages)

PowerIdentified(w) ==
  /\ w.path.Power \in DOMAIN w.doc =>
       Numbered(w.doc[w.path.Power].PowerSupplies) /\ Numbered(w.doc[w.path.Power].PowerControl)
  /\ "sensors" \in w.cfg => VoltagesIdentified(w)
  /\ w.path.PowerSubsystem \in DOMAIN w.doc =>
       OwnIds(w, MembersAt(w, w.doc[w.path.PowerSubsystem].PowerSupplies))

\* The ports of a Dell adapter may all be named like it; nothing is named like the link
\* of another port.
PortsIdentified(w, ni) ==
  LET ports == MembersAt(w, IF ni.Ports # "" THEN ni.Ports ELSE ni.NetworkPorts)
  IN  \A r, s \in ports :
        /\ w.doc[r].Id = w.doc[s].Id => r = s \/ (w.vendor = "Dell" /\ w.doc[r].Id = ni.Id)
        /\ w.vendor = "Dell" /\ w.doc[r].Id = s => r = s

NetworkIdentified(w) ==
  LET adapters == MembersAt(w, w.path.Network)
  IN  /\ OwnIds(w, adapters)
      /\ \A r \in adapters :
           IF w.vendor = "Hpe" /\ w.ilo4 THEN Numbered(w.doc[r].PhysicalPorts)
           ELSE PortsIdentified(w, w.doc[r])

\* The entries of the log that is read.
EventsIdentified(w) ==
  EventPath(w) \in DOMAIN w.doc =>
    LET entries == w.doc[EventPath(w)].Entries
    IN  \A i, j \in DOMAIN entries : entries[i].Id = entries[j].Id => i = j

\* The numbers of drives are those of their chassis with a Supermicro.
DrivesIdentified(w, rs) ==
  \A r, s \in rs : DriveId(w, w.doc[r]) = DriveId(w, w.doc[s]) => r = s

UnitIdentified(w, d) ==
  /\ DrivesIdentified(w, Existing(w, d.Drives))
  /\ OwnIds(w, MembersAt(w, d.Controllers))
  /\ d.Controllers = "" =>
       \A i, j \in DOMAIN d.StorageControllers :
         InlineId(d.StorageControllers[i]) = InlineId(d.StorageControllers[j]) => i = j
  /\ OwnIds(w, MembersAt(w, d.Volumes))

StorageIdentified(w) ==
  LET units == MembersAt(w, w.path.Storage)
  IN  /\ OwnIds(w, units)
      /\ \A r \in units :
           IF w.vendor = "Hpe" /\ w.ilo4 THEN DrivesIdentified(w, MembersAt(w, r \o "DiskDrives/"))
           ELSE UnitIdentified(w, w.doc[r])

\* What the labels of a group rest on.
Identified(w, group) ==
  /\ group = "sensors" => SensorsIdentified(w)
  /\ group = "voltages" => VoltagesIdentified(w)
  /\ group = "power" => PowerIdentified(w)
  /\ group = "network" => NetworkIdentified(w)
  /\ group = "events" => EventsIdentified(w)
  /\ group = "storage" => StorageIdentified(w)
  /\ group = "memory" => OwnIds(w, {r \in MembersAt(w, w.path.Memory) : w.doc[r].Id # ""})
  /\ group = "processors" => OwnIds(w, MembersAt(w, w.path.Processors))
  /\ group = "pdus" => OwnIds(w, Existing(w, w.path.RackPDUs))
=============================================================================
