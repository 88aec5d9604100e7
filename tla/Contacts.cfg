SPECIFICATION MCSpec
CONSTANTS
  Jobs = {j1, j2}
  Adverts = {a1}
  Contacts = {c1, c2}
  NoJob = NoJob
  NoContact = NoContact
  MaxMod = 2
  MaxFailures = 1
  Book <- TiedBook
  MaxList = 3
  Now = 7
  NoDistance = 99
  PathMetas = {0, 1, 3, 63, 64, 65, 96, 97, 128, 129, 149, 150, 191, 192, 193, 208, 209, 254, 255}
  Hints = {0, 1, 3, 4, 9}
  HexHops = {1, 2, 8, 9, 33, 65}
  HexDigits = {1, 2, 4, 6, 8, 16}
  MaxTraces = 3
  TracesCap = 2
  N = 2
  RadioSlots = 3
  Keys = {1}
  MaxMisreads = 1
  MaxFaults = 1
  MaxOps = 3
INVARIANTS
  HolderOnly
  WatermarkCovers
  OrderFree
  PlanFollowsRoute
  TraceIsOwn
  SlotsAgree
PROPERTIES
  RefreshBringsAll
  JobEnds
  OnlyAsked
CHECK_DEADLOCK FALSE
