SPECIFICATION PartsSpec
CONSTANTS
  d1 = d1  d2 = d2  d3 = d3
  Daemons = {d1, d2, d3}
  Nobody = Nobody
  MaxStarts = 5
  None = None  Off = Off
  c1 = c1  c2 = c2
  Clients = {c1, c2}
  Backlog = 2  Buffer = 1
  MaxOutputs = 3  MaxEvents = 4  MaxAsks = 3
  Parts = {"binding"}
CHECK_DEADLOCK FALSE
INVARIANTS SoleDaemon
