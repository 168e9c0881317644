SPECIFICATION Spec
CONSTANTS
  NoUser = NoUser
  NoParty = NoParty
  NoDevice = NoDevice
  NoTask = NoTask
  NoRequest = NoRequest
  Requests = {r1}
  Operators = {o1, o2}
  Clients = {c1, c2}
  Candidates = {k1}
  Devices = {d1, d2}
  Tasks = {t1}
  Problems = {p1}
  RequestTypes = {"emergency_maintenance", "agent_license"}
  DeviceSources = {"company_device", "external_device"}
  MaxReopens = 3
  MaxInFlight = 1
SYMMETRY Symmetry
INVARIANTS
  HandedOverToMatchingTask
  LifecycleIsSound
PROPERTIES
  HandedOverIsFinal
  FrozenIsLeftAlone
