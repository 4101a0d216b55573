\* Closed-loop clients: a client whose ticker fires before its second reply
\* panics in writeToLog, and the controller panics on the closed connection.
CONSTANTS
  NS = 2
  NC = 2
  NReq = 2
  LoopModes = {TRUE}
  Window = 1
  Attach <- RoundRobin
SPECIFICATION Spec
INVARIANT
  NoPanic
\* every process of a run ends, so its last state has no successor
CHECK_DEADLOCK FALSE
