\* Both loop modes, two servers (a majority is both of them), two clients
\* on different proxies, two batches each.
CONSTANTS
  NS = 2
  NC = 2
  NReq = 2
  LoopModes = {TRUE, FALSE}
  Window = 1
  Attach <- RoundRobin
SPECIFICATION LiveSpec
INVARIANTS
  TypeOK
  ServersOutliveClients
  ClientsStartAfterMesh
PROPERTIES
  EveryProcessEnds
  OpenLoopFinishes
\* every process of a run ends, so its last state has no successor
CHECK_DEADLOCK FALSE
