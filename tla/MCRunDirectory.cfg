SPECIFICATION Spec
CONSTANTS
    d1 = d1
    d2 = d2
    p1 = p1
    p2 = p2
    p3 = p3
    Procs = {p1, p2, p3}
    Dirs <- MCDirs
    Jobs <- MCJobs
    Absent = Absent
    Partial = Partial
    None = None
    Versions = {v1, v2}
    Overlap = FALSE
    MaxEdits = 1
    MaxStops = 1
INVARIANTS OutputIsOfItsInputs IdenticalMeansSameInputs
PROPERTIES AppendOnly
