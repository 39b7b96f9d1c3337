SPECIFICATION Spec
CONSTANTS
    p1 = p1 p2 = p2 n1 = n1 n2 = n2 c1 = c1 c2 = c2 c3 = c3
    Partitions = {p1, p2}
    Nodes = {n1, n2}
    NoLeader = NoLeader
    Calls = {c1, c2, c3}
    NoPartition = NoPartition
    SeqMax = 1
    Modes <- SafetyModes
INVARIANT OneBatchPerPartition
INVARIANT QueueOrder
INVARIANT NeverLost
INVARIANT AckedOnce
INVARIANT LogIsPrefix
 
PROPERTY DrainedIsFrozen
SYMMETRY Symmetric
CHECK_DEADLOCK FALSE
