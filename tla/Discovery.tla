------------------------------ MODULE Discovery ------------------------------
(***************************************************************************)
(* Client.findAllEndpoints of internal/collector/client.go: from the       *)
(* service root to the paths of the metric groups, as an operator of the   *)
(* world it runs in (see Groups), whose w.cfg is the snapshot of the       *)
(* configuration that discovery takes for itself.                          *)
(***************************************************************************)
EXTENDS Groups

Root == "/redfish/v1"

\* The client that NewClient discards when discovery fails.
NoClient == [vendor |-> "none"]

NoPath ==
  [System |-> "", Thermal |-> "", ThermalSubsystem |-> "", Power |-> "", PowerSubsystem |-> "",
   Storage |-> "", Memory |-> "", Network |-> "", Event |-> "", Processors |-> "", Manager |-> "",
   Extra |-> {}, RackPDUs |-> <<>>]

\* What the lower-cased Manufacturer contains, tested in this order.
Manufacturers ==
  [dell |-> "Dell", hpe |-> "Hpe", lenovo |-> "Lenovo", inspur |-> "Inspur", ieit |-> "Inspur",
   h3c |-> "H3C", inventec |-> "Inventec", fujitsu |-> "Fujitsu", fsas |-> "Fujitsu",
   supermicro |-> "Supermicro", advantech |-> "Advantech", huawei |-> "Huawei", kunlun |-> "Huawei"]

Vendor(system) ==
  IF Has(Manufacturers, system.Manufacturer) THEN Manufacturers[system.Manufacturer]
  ELSE IF system.OemDell THEN "Dell" ELSE "unknown"

FirstMember(members) == IF members = <<>> THEN "" ELSE members[1]

FirstExisting(w, first, second) ==
  IF Exists(w, first) THEN first ELSE IF Exists(w, second) THEN second ELSE ""

EventPathOf(w, vendor) ==
  IF "events" \notin w.cfg THEN ""
  ELSE CASE vendor = "Dell"        -> FirstExisting(w, LogServicesSel, LogsSel)
         [] vendor = "Lenovo"      -> FirstExisting(w, "PlatformLog", "StandardLog")
         [] vendor = "Hpe"         -> "IML"
         [] vendor = "Fujitsu"     -> "SystemEventLog"
         [] vendor = "Supermicro"  -> "Log1"
         [] vendor = "Advantech"   -> "Log"
         [] OTHER                  -> ""

\* The answer is decoded into the variable that held the chassis.
ManagerPath(w, root, old) ==
  IF "manager" \in w.cfg /\ Get(w, root.Managers)
  THEN FirstMember(Members(old, w.doc[root.Managers])) ELSE ""

ExtraPath(w, vendor) ==
  IF "extra" \in w.cfg /\ vendor = "Dell" /\ Exists(w, DellSystemPath) THEN {DellSystemPath} ELSE {}

Server(w, root, systemPath, chassis, system, members) ==
  LET vendor == Vendor(system)
      path   == [System |-> systemPath,
                 Thermal |-> chassis.Thermal, ThermalSubsystem |-> chassis.ThermalSubsystem,
                 Power |-> chassis.Power, PowerSubsystem |-> chassis.PowerSubsystem,
                 Network |-> chassis.NetworkAdapters, Memory |-> system.Memory,
                 Processors |-> system.Processors,
                 Storage |-> IF vendor = "Inspur" /\ system.Storage = "Storages" THEN "Storage"
                             ELSE system.Storage,
                 Manager |-> ManagerPath(w, root, members),
                 Event |-> EventPathOf(w, vendor), Extra |-> ExtraPath(w, vendor),
                 RackPDUs |-> <<>>]
  IN  IF vendor = "Hpe" /\ root.Name = "HP RESTful Root Service"
      THEN [vendor |-> vendor, ilo4 |-> TRUE,
            path |-> [path EXCEPT !.Memory = "Memory", !.Storage = "ArrayControllers",
                                  !.Network = "NetworkAdapters", !.Processors = "Processors",
                                  !.Event = ""]]
      ELSE [vendor |-> vendor, ilo4 |-> FALSE, path |-> path]

\* The first system and the first chassis stand for the machine.
FindServer(w, root) ==
  LET systems == Members(<<>>, w.doc[root.Systems])
      chassis == Members(systems, w.doc[root.Chassis])
  IN  IF /\ Get(w, root.Systems) /\ Get(w, root.Chassis)
         /\ chassis # <<>> /\ Get(w, chassis[1]) /\ Get(w, FirstMember(systems))
      THEN Server(w, root, FirstMember(systems), w.doc[chassis[1]], w.doc[FirstMember(systems)], chassis)
      ELSE NoClient

\* Repeated links are dropped where the list is walked.
FindPDUs(w, path) ==
  IF Get(w, path)
  THEN [vendor |-> "unknown", ilo4 |-> FALSE,
        path |-> [NoPath EXCEPT !.RackPDUs = Members(<<>>, w.doc[path])]]
  ELSE NoClient

\* A root with power equipment or distribution is a PDU's, unless it lists none.
findAllEndpoints(w) ==
  IF ~Get(w, Root) THEN NoClient
  ELSE LET root == w.doc[Root]
       IN  CASE Has(root, "PowerEquipment") /\ ~Get(w, root.PowerEquipment) -> NoClient
             [] /\ Has(root, "PowerEquipment") /\ Get(w, root.PowerEquipment)
                /\ w.doc[root.PowerEquipment].RackPDUs # "" ->
                  FindPDUs(w, w.doc[root.PowerEquipment].RackPDUs)
             [] /\ ~Has(root, "PowerEquipment") /\ Has(root, "PowerDistribution")
                /\ root.PowerDistribution # "" -> FindPDUs(w, root.PowerDistribution)
             [] OTHER -> FindServer(w, root)
=============================================================================
