CONSTANTS
    None = None
    c1 = c1  c2 = c2  c3 = c3
    d1 = d1  d2 = d2  d3 = d3
    o1 = o1  o2 = o2  o3 = o3
    Callers = {c1, c2, c3}
    Descs = {d1, d2}
    Objects = {o1, o2, o3}
SPECIFICATION Spec
SYMMETRY Symm
CHECK_DEADLOCK FALSE
INVARIANTS
    ExclusionUnlessOrphaned
    GrantsTrue
    NoLostWakeup
