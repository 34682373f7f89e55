\* Two requests at a time.
CONSTANTS
    Objects = {o1}
    SafetyObjects = {}
    Versions = {v1, v2}
    Cases = {}
    Sessions = {s1, s2}
    Bodies = {b1}
    UnsafeBodies = {}
    SentOutcomes = {"approved"}
    SentMarks = {"deprecated"}
    EditValidity = {}
    MaxPublishes = 2
    None = None
SPECIFICATION Spec
SYMMETRY Symmetry
INVARIANTS VersionNumbersGapless PublishedWasAnnounced ApprovalOutlivesGate
PROPERTIES ImplementsCatalog
