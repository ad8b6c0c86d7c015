\* A visit to two stories of two authors; the other kinds of reads are kept to
\* nothing, since only the visits are asked about.
CONSTANTS
    v = v
    o = o
    s1 = s1
    s2 = s2
    None = None
    Owners = {v, o}
    Viewer = v
    Limits = {1}
    MaxRows = 0
    MaxOthers = 0
    MaxChanges = 0
    t1 = t1
    t2 = t2
    Authors = {v, o}
    Reader = v
    Tales = {t1, t2}
    MaxFlips = 1
    Creators = {s1, s2}
    Amounts = {1}
    Zones <- MCZones
    TicksPerDay = 2
    Moments <- MCMoments
    MaxFacts = 0
    Top = 1
SPECIFICATION Spec
SYMMETRY Symmetry
INVARIANTS
    CloseFriendsRespected
CHECK_DEADLOCK FALSE
