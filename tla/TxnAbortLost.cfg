SPECIFICATION Spec
CONSTANTS
    p1 = p1 p2 = p2 n1 = n1 n2 = n2 g1 = g1 g2 = g2
    Partitions = {p1, p2}
    Nodes = {n1, n2}
    Leader <- TwoLeaders
    Groups = {g1}
    NoGroup = NoGroup
    MaxTxn = 2
    MaxBatches = 3
    MaxOffsets = 0
    MaxFaults = 0
    Unauthorized = {p2}
    AnswerErrors = {}
INVARIANT OnlyCommittedVisible
CHECK_DEADLOCK FALSE
