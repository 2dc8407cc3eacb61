\* Clients of one process, and how the process came to be.
CONSTANTS
  Callers = {u1, u2}
  Scrapers = {s1}
  k1 = k1
  k2 = k2
  ClientIds = {k1, k2}
  Target <- MCTarget
  Procedures <- MCProcedures
  Uses <- MCUses
  Descriptor <- MCDescriptor
  Service = Service
  MaxBreakers = 6
  None = None
  Starts <- MCStarts
  OwnClients <- MCOwnClients
  Repair <- MCRepair
  Unset = Unset
  Junk = Junk
  NaN = NaN
SPECIFICATION Spec
INVARIANTS
  TypeOK OneBreakerEach FailsClosed StartedIsUsable
PROPERTIES
  GroupImplementsMemo LookupsEnd NeverToldTwice FixingConverges
CHECK_DEADLOCK FALSE
