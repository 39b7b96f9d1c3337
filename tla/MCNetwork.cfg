SPECIFICATION FairSpec
CONSTANTS
  n1 = n1
  n2 = n2
  c1 = c1
  c2 = c2
  group = group
  txn = txn
  Sync = Sync
  Nodes = {n1, n2}
  Callers = {c1, c2}
  Topics = {"a", "b"}
  Purposes = {group, txn}
  IdBound = 3
  MaxLinks = 8
  Modes <- NetworkModes
INVARIANTS
  AnswersMatch
  WaitsOnLive
  NoneLeaks
PROPERTIES
  TopicsFound
CHECK_DEADLOCK FALSE
