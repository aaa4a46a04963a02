SPECIFICATION SafetySpec
CONSTANTS
  Requests = {r1, r2}
  Objects = {o1, o2, o3}
  Targets = {t1}
  Groups = {g1}
  Logins = {l1, l2}
  Options = {p1}
  Default = Default
  Files <- SmallFiles
  NoObject = NoObject
  NoRequest = NoRequest
  NoCreds = NoCreds
  NoClient = NoClient
  NoGroup = NoGroup
  NoKey = NoKey
  NoReload = NoReload
  NoCall = NoCall
SYMMETRY Symmetry
INVARIANTS
  TypeOK
  HostLoginCurrent
  Provenance
