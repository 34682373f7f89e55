\* One request at a time: edit after approval.
CONSTANTS
    Objects = {o1}
    SafetyObjects = {}
    Versions = {v1, v2}
    Cases = {}
    Sessions = {s1}
    Bodies = {b1, b2}
    UnsafeBodies = {}
    SentOutcomes = {"approved"}
    SentMarks = {}
    EditValidity = {}
    MaxPublishes = 2
    None = None
SPECIFICATION Spec
PROPERTY ReReviewOnEdit
