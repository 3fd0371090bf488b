SPECIFICATION Spec
CONSTANTS
    d1 = d1
    d2 = d2
    p1 = p1
    p2 = p2
    p3 = p3
    Procs = {p1, p2}
    Dirs <- MCDirs
    Jobs <- MCSharedJobs
    Absent = Absent
    Partial = Partial
    None = None
    Versions = {v1, v2}
    Overlap = TRUE
    MaxEdits = 1
    MaxStops = 0
PROPERTIES AppendOnly
