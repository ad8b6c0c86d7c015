\* Three calls race over the sessions of one account, which may be deactivated,
\* reactivated or deleted.  The system stops when the three tokens are used up.
CONSTANTS
    c1 = c1
    c2 = c2
    c3 = c3
    p1 = p1
    t1 = t1
    t2 = t2
    t3 = t3
    u1 = u1
    None = None
    Users = {u1}
    SeededUsers = {u1}
    LegacyUsers = {u1}
    Passwords = {p1}
    ResetTokens = {}
    Tokens = {t1, t2, t3}
    Calls = {c1, c2, c3}
SPECIFICATION Spec
SYMMETRY Symmetry
PROPERTIES
    EndedSessionStaysEnded
    ImplementsRotation
CHECK_DEADLOCK FALSE
