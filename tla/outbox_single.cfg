\* One worker, crashes included, under fairness; a batch holds more events than
\* can fail, and edits are loaded before a publication and committed after it.
CONSTANTS
    Versions = {v1, v2}
    Workers = {w1}
    BatchSize = 4
    MaxPublishes = 2
    MaxOthers = 0
    MaxEdits = 1
    MaxEditors = 1
    MaxFaults = 1
    None = None
SPECIFICATION FairSpec
INVARIANT FreshWhenSettled
PROPERTIES PublicationsProcessed RetriedOnceFixed
CHECK_DEADLOCK FALSE
