SPECIFICATION Spec
CONSTANTS
  NoUser = NoUser
  NoParty = NoParty
  NoDevice = NoDevice
  NoTask = NoTask
  NoRequest = NoRequest
  Requests = {r1, r2}
  Operators = {o1}
  Clients = {c1}
  Candidates = {}
  Devices = {d1}
  Tasks = {t1, t2}
  Problems = {p1, p2}
  RequestTypes = {"emergency_maintenance"}
  DeviceSources = {"company_device"}
  MaxReopens = 0
  MaxInFlight = 1
SYMMETRY Symmetry
INVARIANTS
  OneActiveEmergencyPerDevice
  ProblemFollowsItsRequest
PROPERTIES
  ImplementsDesk
