CONSTANTS
    t1 = t1
    t2 = t2
    Topics <- TwoTopics
    Modes <- LiveModes
SPECIFICATION FairSpec
PROPERTY EventuallyAssigned
PROPERTY CommittedServed
 
CHECK_DEADLOCK FALSE
