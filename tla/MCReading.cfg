\* A walk through up to three rows while one thing changes, a visit to two stories
\* while one of them or one author changes, and figures of two rows.  Walks and
\* visits end.
CONSTANTS
    v = v
    o = o
    s1 = s1
    s2 = s2
    None = None
    Owners = {v, o}
    Viewer = v
    Limits = {1, 2}
    MaxRows = 3
    MaxOthers = 1
    MaxChanges = 1
    t1 = t1
    t2 = t2
    Authors = {v, o}
    Reader = v
    Tales = {t1, t2}
    MaxFlips = 1
    Creators = {s1, s2}
    Amounts = {1}
    Zones <- MCZones
    TicksPerDay = 2
    Moments <- MCMoments
    MaxFacts = 2
    Top = 1
SPECIFICATION Spec
SYMMETRY Symmetry
INVARIANTS
    TypeOK
    WalkShowsRows
    WhatIsListedOpens
    StoriesShownFairly
    ChartsComplete
    FiguresConsistent
CHECK_DEADLOCK FALSE
