CONSTANTS
    t1 = t1
    t2 = t2
    Topics <- TwoTopics
    Modes <- SafetyModes
SPECIFICATION Spec
INVARIANT AssignmentIsTheGroups
INVARIANT OnlySubscribedTopics
INVARIANT TasksServeTheAssignment
INVARIANT LeaderSeesMetadata
INVARIANT CommitsItsOwn
INVARIANT AssignsTheKnown
PROPERTY CallbacksAlternate
CHECK_DEADLOCK FALSE
