\* Two workers on one outbox.
CONSTANTS
    Versions = {v1, v2}
    Workers = {w1, w2}
    BatchSize = 2
    MaxPublishes = 2
    MaxOthers = 1
    MaxEdits = 0
    MaxEditors = 2
    MaxFaults = 1
    None = None
SPECIFICATION Spec
SYMMETRY Symmetry
INVARIANTS TypeOK SoleHandler ProcessedIsIndexed EmbeddingPending
CHECK_DEADLOCK FALSE
