SPECIFICATION FairSpec
CONSTANTS
    p1 = p1 p2 = p2 n1 = n1 n2 = n2 g1 = g1 g2 = g2
    Partitions = {p1, p2}
    Nodes = {n1}
    Leader <- OneLeader
    Groups = {g1}
    NoGroup = NoGroup
    MaxTxn = 2
    MaxBatches = 2
    MaxOffsets = 1
    MaxFaults = 1
    Unauthorized = {p2, g1}
    AnswerErrors = {"batch", "fatal"}
PROPERTY EndReturns
CHECK_DEADLOCK FALSE
