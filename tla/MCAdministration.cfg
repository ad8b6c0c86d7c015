\* Two administrators make two requests about each other, a post and a
\* comment on it.  Decisions about reports are columns like isActive and have none.
CONSTANTS
    a1 = a1
    a2 = a2
    p1 = p1
    m1 = m1
    r1 = r1
    r2 = r2
    None = None
    Users = {a1, a2}
    Admins = {a1, a2}
    Posts = {p1}
    Comments = {m1}
    Reports = {}
    Holders <- MCHolders
    Requests = {r1, r2}
SPECIFICATION Spec
SYMMETRY Symmetry
INVARIANTS
    LogTellsState
    ActorsAreLogged
CHECK_DEADLOCK FALSE
