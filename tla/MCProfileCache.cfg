\* Two profiles and two usernames, one of which falls free when an account is
\* deleted and is taken by the other; two calls in flight.
CONSTANTS
    c1 = c1
    c2 = c2
    n1 = n1
    n2 = n2
    u1 = u1
    u2 = u2
    None = None
    Users = {u1, u2}
    Names = {n1, n2}
    MaxVersion = 1
    Calls = {c1, c2}
SPECIFICATION CacheSpec
INVARIANTS
    CacheTypeOK
    CacheIsFresh
PROPERTIES
    StaleEntriesVanish
CHECK_DEADLOCK FALSE
