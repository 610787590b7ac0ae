\* Two resources and a subscription, two ids, one reconnection.
\* No deadlock check: the last connection may be lost for good.
SPECIFICATION FairSpec
CONSTANTS
  rpc = rpc
  topic = topic
  Plain <- Plain1
  Events <- Events1
  Kind <- KindOf
  Ids = {i1, i2}
  None = None
  MaxConnections = 2
  MaxQueue = 1
INVARIANTS
  AnsweredOnce
  NoStrayData
  EnabledIsOpen
CHECK_DEADLOCK FALSE
PROPERTIES
  RequestIsAnswered
  IntervalFlows
