------------------------------ MODULE MCClient ------------------------------
(***************************************************************************)
(* Instances of Client for TLC: one machine per family of BMC that the     *)
(* code treats in a way of its own.  Each is small, but has what the       *)
(* special cases are for: links that are listed twice, ports named like    *)
(* their adapter, drives of two chassis with the same number, a board with *)
(* unusable voltages.  The numbers, flags and strings that are not given   *)
(* here are all v; the bare machines have next to none of them.            *)
(***************************************************************************)
EXTENDS Client, TLC

Scalars ==
  {"PowerState", "Health", "IndicatorLED", "HpeIndicatorLED", "LocationIndicatorActive", "MemorySummary",
   "TotalSystemMemoryGiB", "ProcessorSummary", "ProcessorCount", "ReadingCelsius", "Reading", "CurrentReading", "SpeedRPM", "PowerInputWatts",
   "PowerOutputWatts", "LastPowerOutputWatts", "LineInputVoltage", "PowerCapacityWatts",
   "EfficiencyPercent", "PowerConsumedWatts", "MinConsumedWatts", "MaxConsumedWatts",
   "AvgConsumedWatts", "IntervalInMinutes", "InputVoltage", "InputPowerWatts", "OutputPowerWatts",
   "CapacityBytes", "PredictedLifeLeft", "TimeLeft", "SSDEndurance", "CapacityMiB", "SizeMB",
   "DIMMStatus", "CacheSummary", "TotalCacheSizeMiB", "CacheHealth", "SpeedGbps", "MediaSpanCount",
   "DrivesCount", "OperatingSpeedMhz", "CurrentLinkSpeedMbps", "CurrentSpeedGbps", "LinkSpeedMbps",
   "MaxSpeedGbps", "LinkStatus", "Volts", "OperatingSpeedMHz", "CurrentClockSpeedMHz", "MaxSpeedMHz",
   "TotalCores", "TotalThreads", "BatteryRollupStatus", "EstimatedSystemAirflowCFM", "BatteryStatus",
   "PowerWatts", "ApparentVA", "PowerFactor", "EnergykWh", "TotalPower"}

Doc(v, d) == d @@ [f \in Scalars |-> v]

Links(members) == [Members |-> members]

\* What most machines have: a service root, one system, one chassis, one manager.
Base(v, manufacturer, chassis) ==
  (Root :> [Name |-> "Root Service", Systems |-> "Systems", Chassis |-> "ChassisList", Managers |-> "Managers"])
    @@ ("Systems" :> Links(<<"System">>)) @@ ("ChassisList" :> Links(<<"Chassis">>))
    @@ ("Managers" :> Links(<<"Manager">>))
    @@ ("Chassis" :> (chassis @@ [Thermal |-> "", ThermalSubsystem |-> "", Power |-> "", PowerSubsystem |-> "",
                                  NetworkAdapters |-> "Adapters"]))
    @@ ("System" :> Doc(v, [Manufacturer |-> manufacturer, OemDell |-> FALSE, Storage |-> "Storages",
                            Memory |-> "MemoryList", Processors |-> "CpuList"]))
    @@ ("Manager" :> Doc(v, [Id |-> "m", Model |-> "own", DellAttributes |-> {DellAttributesPath}]))

Thermal(v) ==
  "Thermal" :>
    [Temperatures |-> <<Doc(v, [Name |-> "inlet", MemberId |-> "1", SensorNumber |-> "", State |-> "Enabled"]),
                        Doc(v, [Name |-> "cpu", MemberId |-> "", SensorNumber |-> "", State |-> "Enabled"]),
                        Doc(v, [Name |-> "gpu", MemberId |-> "", SensorNumber |-> "7", State |-> "Absent"])>>,
     Fans |-> <<Doc(v, [Name |-> "a", FanName |-> "", MemberId |-> "", Units |-> "RPM", ReadingUnits |-> "",
                        State |-> "Enabled"]),
                Doc(v, [Name |-> "b", FanName |-> "", MemberId |-> "", Units |-> "", ReadingUnits |-> "",
                        State |-> "Enabled"])>>]

Psu(v, state) == Doc(v, [Name |-> "PSU1", FirmwareVersion |-> "0.00", State |-> state])

Volt(name, v) == [Name |-> name, ReadingVolts |-> v]

Board == <<Volt("12V", "some"), Volt("", "some"), Volt("VBAT", "zero"), Volt("VTT", "none")>>

Power(v, more) ==
  "Power" :> (more @@ [PowerSupplies |-> <<Psu(v, "Enabled"), Psu(v, "Absent")>>,
                       PowerControl |-> <<Doc(v, [Name |-> "all", PowerMetrics |-> Doc(v, <<>>)])>>,
                       Voltages |-> Board])

Memory(v) ==
  ("MemoryList" :> Links(<<"dimm1", "dimm2", "dimm1">>))
    @@ ("dimm1" :> Doc(v, [Id |-> "1", State |-> "Enabled"]))
    @@ ("dimm2" :> Doc(v, [Id |-> "2", State |-> "Absent"]))

Cpus(v, oem) ==
  ("CpuList" :> Links(<<"cpu1", "gpu1">>))
    @@ ("cpu1" :> Doc(v, [Id |-> "1", ProcessorType |-> "CPU", State |-> "Enabled", Oem |-> oem]))
    @@ ("gpu1" :> Doc(v, [Id |-> "2", ProcessorType |-> "GPU", State |-> "Enabled", Oem |-> oem]))

Network(v, portId1, portId2) ==
  ("Adapters" :> Links(<<"nic">>))
    @@ ("nic" :> Doc(v, [Id |-> "N", Ports |-> "", NetworkPorts |-> "PortList", PhysicalPorts |-> <<v, v>>]))
    @@ ("PortList" :> Links(<<"port1", "port2">>))
    @@ ("port1" :> Doc(v, [Id |-> portId1])) @@ ("port2" :> Doc(v, [Id |-> portId2]))

Entry(id, created, severity) == [Id |-> id, Created |-> created, Severity |-> severity]

Log(path, id) ==
  path :> [Id |-> id, Entries |-> <<Entry("1", "recent", "Critical"), Entry("2", "recent", "OK"),
                                    Entry("3", "old", "Critical"), Entry("4", "garbled", "Warning")>>]

Storage(v, list, drives, controllers, volumes) ==
  (list :> Links(<<"raid">>))
    @@ ("raid" :> Doc(v, [Id |-> "R", Drives |-> drives, Controllers |-> controllers, Volumes |-> volumes,
                          StorageControllers |-> <<Doc(v, [Id |-> "", MemberId |-> "0"])>>, DellOem |-> TRUE]))
    @@ ("drive1" :> Doc(v, [Id |-> "1", State |-> "Enabled", Chassis |-> "front"]))
    @@ ("drive2" :> Doc(v, [Id |-> "1", State |-> "Enabled", Chassis |-> "rear"]))

\* An iDRAC 8: the event log is at the older path and answers at the newer one too.
Dell(v) ==
  Base(v, "dell", [Thermal |-> "Thermal", Power |-> "Power"]) @@ Thermal(v) @@ Power(v, <<>>)
    @@ Memory(v) @@ Cpus(v, "Dell") @@ Network(v, "N", "N")
    @@ Log(LogServicesSel, "SEL") @@ Log(LogsSel, "Logs")
    @@ Storage(v, "Storages", <<"drive1">>, "", "")
    @@ (DellSystemPath :> Doc(v, <<>>)) @@ (DellAttributesPath :> [InfoHWModel |-> "attributes"])

\* An iLO 4, whose paths are not those it links to.
Ilo4(v) ==
  (Root :> [Name |-> "HP RESTful Root Service", Systems |-> "Systems", Chassis |-> "ChassisList",
            Managers |-> "Managers"])
    @@ Base(v, "hpe", [Thermal |-> "Thermal", Power |-> "Power"]) @@ Thermal(v) @@ Power(v, <<>>)
    @@ ("Memory" :> Links(<<"dimm1">>)) @@ ("dimm1" :> Doc(v, [Id |-> "1", State |-> ""]))
    @@ ("Processors" :> Links(<<"cpu1">>))
    @@ ("cpu1" :> Doc(v, [Id |-> "1", ProcessorType |-> "CPU", State |-> "", Oem |-> "Hpe"]))
    @@ ("NetworkAdapters" :> Links(<<"nic">>))
    @@ ("nic" :> Doc(v, [Id |-> "N", PhysicalPorts |-> <<v, v>>]))
    @@ Storage(v, "ArrayControllers", <<>>, "", "") @@ ("raidDiskDrives/" :> Links(<<"drive1">>))

\* The newer schema: thermal and power subsystems, collections of controllers and volumes.
Supermicro(v) ==
  Base(v, "supermicro", [ThermalSubsystem |-> "ThermalSubsystem", PowerSubsystem |-> "PowerSubsystem"])
    @@ ("ThermalSubsystem" :> [Fans |-> "FanList", ThermalMetrics |-> "ThermalMetrics"])
    @@ ("FanList" :> Links(<<"fan1", "fan2">>))
    @@ ("fan1" :> Doc(v, [Id |-> "1", Name |-> "a"])) @@ ("fan2" :> Doc(v, [Id |-> "2", Name |-> "a"]))
    @@ ("ThermalMetrics" :> [TemperatureReadings |->
          <<Doc(v, [DeviceName |-> "cpu", DataSource |-> "s1"]), Doc(v, [DeviceName |-> "", DataSource |-> "s2"])>>])
    @@ ("PowerSubsystem" :> [PowerSupplies |-> "PsuList"]) @@ ("PsuList" :> Links(<<"psu1", "psu2">>))
    @@ ("psu1" :> Doc(v, [Id |-> "1", Metrics |-> "psu1m"])) @@ ("psu1m" :> Doc(v, <<>>))
    @@ ("psu2" :> Doc(v, [Id |-> "2", Metrics |-> ""]))
    @@ Memory(v) @@ Cpus(v, "none") @@ Network(v, "1", "2") @@ Log("Log1", "Log1")
    @@ Storage(v, "Storages", <<"drive1", "drive2">>, "CtlrList", "VolumeList")
    @@ ("CtlrList" :> Links(<<"ctlr1">>)) @@ ("ctlr1" :> Doc(v, [Id |-> "1"]))
    @@ ("VolumeList" :> Links(<<"vol1", "vol1">>)) @@ ("vol1" :> Doc(v, [Id |-> "1"]))

\* Machines of which only the parts that are special are given.
Fujitsu(v) ==
  Base(v, "fsas", [Power |-> "Power"]) @@ Log("SystemEventLog", "Log")
    @@ Power("none", [PowerControl |-> <<Doc("none", [Name |-> "all"])>>,
                      TsFujitsu |-> [Sensors |-> [PSU1 |-> v],
                                     Consumption |-> [Current |-> v, Maximum |-> v, PowerMetrics |->
                                                        Doc(v, [IntervalInMinutes |-> "none"])]]])

Inspur(v) ==
  Base(v, "ieit", [Power |-> "Power"])
    @@ Power(v, [PowerControl |-> <<>>, Public |-> [TotalPower |-> v]])
    @@ Storage(v, "Storage", <<"drive1">>, "", "")

Huawei(v) ==
  Base(v, "kunlun", [Power |-> "Power"])
    @@ ("Power" :> [PowerControl |-> <<>>, Voltages |-> <<>>,
                    PowerSupplies |-> <<[Huawei |-> Doc(v, <<>>)] @@ Psu("none", "Enabled")>>])

Inventec(v) ==
  Base(v, "inventec", [Power |-> "Power"])
    @@ ("Power" :> [PowerControl |-> <<>>, Voltages |-> <<>>, PowerSupplies |-> <<Psu(v, "")>>])

Lenovo(v) ==
  Base(v, "lenovo", [Thermal |-> "Thermal"]) @@ Thermal(v) @@ Cpus(v, "Lenovo") @@ Log("StandardLog", "Log")

\* A chassis with a PDU controller, and one that lists no PDU.
Pdus(v) ==
  (Root :> [Name |-> "Root Service", PowerEquipment |-> "PowerEquipment"])
    @@ ("PowerEquipment" :> [RackPDUs |-> "PduList"]) @@ ("PduList" :> Links(<<"pdu1", "pdu1", "pdu2">>))
    @@ ("pdu1" :> Doc(v, [Id |-> "1", Metrics |-> "pdu1m"])) @@ ("pdu1m" :> Doc(v, <<>>))
    @@ ("pdu2" :> Doc(v, [Id |-> "2", Metrics |-> "pdu2m"])) @@ ("pdu2m" :> Doc(v, <<>>))

NoPdus(v) ==
  (Root :> [Name |-> "Root Service", PowerDistribution |-> "PduList"]) @@ ("PduList" :> Links(<<>>))

\* Parts that are there, without the numbers they are there for: the summaries of memory and
\* processors, a processor that works, the clock of a Lenovo's.
Hollow(docs) == [docs EXCEPT !["System"].MemorySummary = "some", !["System"].ProcessorSummary = "some"]

Working(docs) == [docs EXCEPT !["cpu1"].Health = "some"]

Clockless(docs) == [docs EXCEPT !["cpu1"].OperatingSpeedMHz = "none", !["cpu1"].CurrentClockSpeedMHz = "none"]

MCNumerals == <<"0", "1", "2", "3", "4">>

MCDocs ==
  [Dell |-> Dell("some"), Ilo4 |-> Ilo4("some"), Supermicro |-> Supermicro("some"),
   Fujitsu |-> Fujitsu("some"), Inspur |-> Inspur("some"), Huawei |-> Huawei("some"),
   Inventec |-> Inventec("some"), Lenovo |-> Clockless(Lenovo("zero")),
   Pdus |-> Pdus("some"), NoPdus |-> NoPdus("some"),
   BareDell |-> Hollow(Dell("none")), BareIlo4 |-> Working(Ilo4("none")), BarePdus |-> Pdus("none")]

Everything == {Tasks[i] : i \in DOMAIN Tasks}

MCOffers ==
  [m \in DOMAIN MCDocs |->
     CASE m = "Dell" -> Everything
       [] m = "Ilo4" -> Everything \ {"events", "extra"}
       [] m = "Supermicro" -> Everything \ {"extra"}
       [] m = "Fujitsu" -> {"system", "power", "events", "manager"}
       [] m = "Inspur" -> {"system", "power", "storage", "manager"}
       [] m \in {"Huawei", "Inventec"} -> {"system", "power", "manager"}
       [] m = "Lenovo" -> {"system", "sensors", "processors", "events", "manager"}
       [] m = "Pdus" -> {"pdus"}
       [] OTHER -> {}]

\* The sensors with the power group and without it, and the groups whose paths
\* discovery looks for only when they are enabled.
MCConfigs ==
  {{"system", "sensors", "power"}, {"sensors", "network", "memory"}, {"storage", "processors"},
   {"manager", "events", "extra"}}

\* What the machines report tells its series apart, so that what rests on it is not said
\* of nothing.
ASSUME MachinesIdentified ==
  \A m \in DOMAIN MCDocs, groups \in MCConfigs :
    LET w == CalmWorld(m, groups)
    IN  Found(m, groups) # NoClient => \A call \in Calls : Identified(w, call)

\* Every metric of Zeroed is there for a reason: some machine makes the code send it
\* for a field that is missing.
ASSUME ZeroedAreSent ==
  \A metric \in Zeroed : \E m \in DOMAIN MCDocs, groups \in MCConfigs :
    /\ Found(m, groups) # NoClient
    /\ \E call \in Calls : \E s \in Refresh(CalmWorld(m, groups), call) :
         s.metric = metric /\ s.from \in {"none", "default"}
=============================================================================
