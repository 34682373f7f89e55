\* One request at a time: a draft of a published object is approved.
CONSTANTS
    Objects = {o1}
    SafetyObjects = {}
    Versions = {v1, v2}
    Cases = {}
    Sessions = {s1}
    Bodies = {b1}
    UnsafeBodies = {}
    SentOutcomes = {"approved"}
    SentMarks = {}
    EditValidity = {}
    MaxPublishes = 2
    None = None
SPECIFICATION Spec
PROPERTY PublishedStaysPublic
