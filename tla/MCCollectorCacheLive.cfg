SPECIFICATION Spec
CONSTANTS
  Requests = {r1, r2}
  Objects = {o1, o2, o3}
  Targets = {t1}
  Groups = {}
  Logins = {l1, l2}
  Options = {p1}
  Default = Default
  Files <- LoginFiles
  NoObject = NoObject
  NoRequest = NoRequest
  NoCreds = NoCreds
  NoClient = NoClient
  NoGroup = NoGroup
  NoKey = NoKey
  NoReload = NoReload
  NoCall = NoCall
PROPERTIES
  RequestsReturn
  ReloadsEnd
