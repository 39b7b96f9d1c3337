SPECIFICATION Spec
CONSTANTS
    Inputs <- EdgeRecords
    Modes <- Configurations
    StoreTime = 4096
    MaxRecords = 3
    CutPoints <- NearHeads
INVARIANTS
    ReadBack
    NextOffsetAdvances
    SizesHold
CHECK_DEADLOCK FALSE
