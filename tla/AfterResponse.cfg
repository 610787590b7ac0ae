\* The continuation of a RUN may run while its answer still waits in the queue.
\* No deadlock check: the last connection may be lost for good.
SPECIFICATION Spec
CONSTANTS
  rpc = rpc
  topic = topic
  Plain <- Plain1
  Events <- Events1
  Kind <- KindOf
  Ids = {i1, i2}
  None = None
  MaxConnections = 2
  MaxQueue = 1
CHECK_DEADLOCK FALSE
PROPERTIES
  AfterResponseSent
