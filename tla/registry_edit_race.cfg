\* An edit races a publication.
CONSTANTS
    Objects = {o1}
    SafetyObjects = {}
    Versions = {v1, v2}
    Cases = {}
    Sessions = {s1, s2}
    Bodies = {b1, b2}
    UnsafeBodies = {}
    SentOutcomes = {"approved"}
    SentMarks = {"deprecated"}
    EditValidity = {}
    MaxPublishes = 2
    None = None
SPECIFICATION Spec
PROPERTY CurrentIsImmutable
