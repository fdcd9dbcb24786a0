SPECIFICATION Spec
CONSTANTS
    Requests = {r1, r2}
    NoRequest = NoRequest
    Indices = {1, 2, 3}
    Threshold = 2
    Splits = {s1, s2, s3}
    NoSplit = NoSplit
    Faults = {"delete error"}
PROPERTIES
    UnsealNeedsThreshold
