\* Two users, an authenticator that counts (it signs up to twice) and one that does
\* not; two challenges, for a registration and a sign-in of one user, two of either,
\* or one of each user; two calls in flight.
CONSTANTS
    c1 = c1
    c2 = c2
    u1 = u1
    u2 = u2
    k1 = k1
    k2 = k2
    x1 = x1
    x2 = x2
    None = None
    Users = {u1, u2}
    Credentials = {k1, k2}
    Counting = {k1}
    Challenges = {x1, x2}
    MaxCounter = 2
    Calls = {c1, c2}
SPECIFICATION Spec
SYMMETRY Symmetry
INVARIANTS
    ChallengeServesOnce
    LatestChallengeStands
PROPERTIES
    CounterGoesBackByRaceOnly
    RemovedPasskeyIsOut
CHECK_DEADLOCK FALSE
