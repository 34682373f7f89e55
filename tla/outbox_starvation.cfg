\* A refused key and a batch that its failing events fill.
CONSTANTS
    Versions = {v1}
    Workers = {w1}
    BatchSize = 1
    MaxPublishes = 2
    MaxOthers = 0
    MaxEdits = 0
    MaxEditors = 1
    MaxFaults = 0
    None = None
SPECIFICATION FairSpec
PROPERTY PublicationsProcessed
CHECK_DEADLOCK FALSE
