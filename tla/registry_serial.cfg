\* One request at a time: long sequences of legal calls.
CONSTANTS
    Objects = {o1}
    SafetyObjects = {o1}
    Versions = {v1, v2}
    Cases = {c1}
    Sessions = {s1}
    Bodies = {b1, b2}
    UnsafeBodies = {b2}
    SentOutcomes = {"approved", "verified", "deprecated", "disputed", "rejected"}
    SentMarks = {"verified", "disputed", "deprecated"}
    EditValidity = {"deprecated"}
    MaxPublishes = 3
    None = None
SPECIFICATION Spec
SYMMETRY Symmetry
INVARIANTS TypeOK PublishedIsLive PriorSuperseded
PROPERTIES GateAtPublication CurrentIsImmutable
