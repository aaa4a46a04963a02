------------------------------ MODULE Emitters ------------------------------
(***************************************************************************)
(* The NewXxx functions of internal/collector/metrics.go: which series a   *)
(* decoded Redfish resource becomes.  A number, flag or string of the      *)
(* resource is abstracted to what the emitters tell apart: "none", missing *)
(* or empty; "zero", present with Go's zero value; "some", anything else;  *)
(* "default", a value that was put in place of a missing one.              *)
(* A series is its metric, its labels, as far as they can tell two series  *)
(* of a scrape apart, the field its value was computed from, and the place *)
(* in the walk over the resources where it was emitted.                    *)
(***************************************************************************)

\* "info": the constant 1 of a series that is all labels.
Always(metric, labels, v) ==
  {[metric |-> metric, labels |-> labels, from |-> v, at |-> <<>>]}

Info(metric, labels) == Always(metric, labels, "info")

\* What the BMC did report.
Given == {"zero", "some"}

\* A pointer that is not nil, a string that is not empty.
Present(metric, labels, v) == {s \in Always(metric, labels, v) : v \in Given}

\* A pointer that is not nil, maybe to a copy of a value that is missing.
NotNil(metric, labels, v) == {s \in Always(metric, labels, v) : v # "none"}

\* Mutant of Nonzero: zero is a value like any other.
NonzeroAlways(metric, labels, v) == Always(metric, labels, v)

\* A number that decodes to something other than zero.
Nonzero(metric, labels, v) == {s \in Always(metric, labels, v) : v = "some"}

\* health2value is negative for the empty string and no other.
Health(metric, labels, v) == Present(metric, labels, v)

FirstPresent(v, w) == IF v # "none" THEN v ELSE w
FirstNonzero(v, w) == IF v = "some" THEN v ELSE w

-----------------------------------------------------------------------------
\* The summaries are pointers that may be nil; the numbers in them are not.
MemorySize(d) ==
  IF d.MemorySummary = "none" THEN {} ELSE Always("memory_size", <<>>, d.TotalSystemMemoryGiB)

CpuCount(d) ==
  IF d.ProcessorSummary = "none" THEN {} ELSE Always("cpu_count", <<>>, d.ProcessorCount)

SystemSeries(d) ==
  Always("power_on", <<>>, d.PowerState)
    \cup Health("system_health", <<>>, d.Health)
    \cup Always("indicator_led_on", <<>>, d.IndicatorLED)
    \cup Present("indicator_active", <<>>, d.LocationIndicatorActive)
    \cup MemorySize(d)
    \cup CpuCount(d)
    \cup Info("bios_info", <<>>)
    \cup Info("machine_info", <<>>)

Temperature(id, name, v) == Always("temperature", <<id, name>>, v)

FanSeries(id, name, health, v) ==
  Health("fan_health", <<id, name>>, health) \cup Always("fan_speed", <<id, name>>, v)

Voltage(id, name, v) == Always("voltage", <<id, name>>, v)

PowerSupplyHealth(id, v)     == Health("power_supply_health", <<id>>, v)
PowerSupplyInput(id, v)      == Nonzero("power_supply_input_watts", <<id>>, v)
PowerSupplyVoltage(id, v)    == Nonzero("power_supply_input_voltage", <<id>>, v)
PowerSupplyOutput(id, v)     == Nonzero("power_supply_output_watts", <<id>>, v)
PowerSupplyCapacity(id, v)   == Nonzero("power_supply_capacity_watts", <<id>>, v)
PowerSupplyEfficiency(id, v) == Nonzero("power_supply_efficiency", <<id>>, v)

PowerConsumed(id, name, v) == Nonzero("power_control_consumed", <<id, name>>, v)

PowerCapacity(id, name, v) == Nonzero("power_control_capacity", <<id, name>>, v)

PowerMetrics(id, name, d) ==
  Nonzero("power_control_min", <<id, name>>, d.MinConsumedWatts)
    \cup Nonzero("power_control_max", <<id, name>>, d.MaxConsumedWatts)
    \cup Nonzero("power_control_avg", <<id, name>>, d.AvgConsumedWatts)
    \cup Nonzero("power_control_interval", <<id, name>>, d.IntervalInMinutes)

EventLogEntry(e) == Info("event_log_entry", <<e.Id>>)

StorageSeries(d) ==
  Info("storage_info", <<d.Id>>) \cup Health("storage_health", <<d.Id>>, d.Health)

DriveSeries(parent, id, d) ==
  Info("drive_info", <<id, parent>>)
    \cup Health("drive_health", <<id, parent>>, d.Health)
    \cup Nonzero("drive_capacity", <<id, parent>>, d.CapacityBytes)
    \cup NotNil("drive_life_left", <<id, parent>>, d.PredictedLifeLeft)
    \cup Present("drive_indicator_active", <<id, parent>>,
                 FirstPresent(d.LocationIndicatorActive, d.IndicatorLED))

CacheSeries(parent, id, d) ==
  Nonzero("controller_cache_size", <<id, parent>>, d.TotalCacheSizeMiB)
    \cup Health("controller_cache_health", <<id, parent>>, d.CacheHealth)

ControllerSeries(parent, id, d) ==
  Info("controller_info", <<id, parent>>)
    \cup Nonzero("controller_speed", <<id, parent>>, d.SpeedGbps)
    \cup Health("controller_health", <<id, parent>>, d.Health)
    \cup IF d.CacheSummary = "none" THEN {} ELSE CacheSeries(parent, id, d)

VolumeSeries(parent, d) ==
  Info("volume_info", <<d.Id, parent>>)
    \cup Health("volume_health", <<d.Id, parent>>, d.Health)
    \cup Nonzero("volume_capacity", <<d.Id, parent>>, d.CapacityBytes)
    \cup Nonzero("volume_media_span", <<d.Id, parent>>,
                 FirstNonzero(d.MediaSpanCount, d.DrivesCount))

MemorySeries(d) ==
  Info("memory_info", <<d.Id>>)
    \cup Health("memory_health", <<d.Id>>, d.Health)
    \cup Nonzero("memory_capacity", <<d.Id>>, d.CapacityMiB)
    \cup Nonzero("memory_speed", <<d.Id>>, d.OperatingSpeedMhz)

AdapterInfo(d)   == Info("adapter_info", <<d.Id>>)

AdapterHealth(d) == Health("adapter_health", <<d.Id>>, d.Health)

PortSpeed(parent, id, mbps, gbps, link) ==
  Nonzero("port_current_speed", <<id, parent>>, FirstNonzero(mbps, FirstNonzero(gbps, link)))

PortHealth(parent, id, d) == Health("port_health", <<id, parent>>, d.Health)

PortMaxSpeed(parent, id, d) == Nonzero("port_max_speed", <<id, parent>>, d.MaxSpeedGbps)

PortLinkUp(parent, id, d) == Always("port_link_up", <<id, parent>>, d.LinkStatus)

\* Dell's voltage is a string that has to parse, HPE's a number, others have none.
CpuVoltage(d) ==
  CASE d.Oem = "Dell" -> Present("cpu_voltage", <<d.Id>>, d.Volts)
    [] d.Oem = "Hpe"  -> Always("cpu_voltage", <<d.Id>>, d.Volts)
    [] OTHER          -> {}

CpuCurrentSpeed(d) ==
  IF d.OperatingSpeedMHz # "none"
  THEN Always("cpu_current_speed", <<d.Id>>, d.OperatingSpeedMHz)
  ELSE {s \in Always("cpu_current_speed", <<d.Id>>, d.CurrentClockSpeedMHz) : d.Oem = "Lenovo"}

CpuSeries(d) ==
  Info("cpu_info", <<d.Id>>)
    \cup Health("cpu_health", <<d.Id>>, d.Health)
    \cup CpuVoltage(d)
    \cup Present("cpu_max_speed", <<d.Id>>, d.MaxSpeedMHz)
    \cup CpuCurrentSpeed(d)
    \cup Always("cpu_total_cores", <<d.Id>>, d.TotalCores)
    \cup Always("cpu_total_threads", <<d.Id>>, d.TotalThreads)

DellSystemSeries(d) ==
  Health("dell_battery_rollup_health", <<>>, d.BatteryRollupStatus)
    \cup Nonzero("dell_airflow", <<>>, d.EstimatedSystemAirflowCFM)

ControllerBattery(d) ==
  {s \in Health("dell_battery_health", <<d.Id>>, d.BatteryStatus) : d.DellOem}

ManagerSeries(d, model) ==
  Info("manager_info", <<d.Id, model>>) \cup Health("manager_health", <<d.Id>>, d.Health)

PduSeries(d) == Info("pdu_info", <<d.Id>>) \cup Health("pdu_health", <<d.Id>>, d.Health)

PduMetrics(id, d) ==
  Always("pdu_power_watts", <<id>>, d.PowerWatts)
    \cup Always("pdu_power_apparent", <<id>>, d.ApparentVA)
    \cup Always("pdu_power_factor", <<id>>, d.PowerFactor)
    \cup Always("pdu_energy_kwh", <<id>>, d.EnergykWh)

-----------------------------------------------------------------------------
\* The metrics that take Go's zero value for an answer of the BMC when a field is missing.
Zeroed ==
  {"power_on", "indicator_led_on", "memory_size", "cpu_count", "temperature", "fan_speed",
   "port_link_up", "cpu_voltage", "cpu_total_cores", "cpu_total_threads", "cpu_current_speed",
   "drive_life_left", "pdu_power_watts", "pdu_power_apparent", "pdu_power_factor",
   "pdu_energy_kwh"}
=============================================================================
