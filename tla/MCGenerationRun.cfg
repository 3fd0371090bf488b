SPECIFICATION Spec
CONSTANTS
    d1 = d1
    d2 = d2
    m1 = m1
    m2 = m2
    e1 = e1
    e2 = e2
    s1 = s1
    Procs = {p1, p2, p3}
    Dirs = {d1, d2}
    Jobs <- MCJobs
    Models = {m1, m2}
    Designs = {e1, e2}
    Seeds = {s1}
    Absent = Absent
    Partial = Partial
    None = None
    MaxStops = 1
INVARIANTS LoadedIsWhatWasPublished UncontestedRunIsWhole
PROPERTIES PublishedOnce RunsAreAtomic
