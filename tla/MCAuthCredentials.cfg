\* Sign-ins, resets and registrations race over the hashes of a legacy account
\* and of one that may be registered.  One token: the call that takes it stops.
CONSTANTS
    c1 = c1
    c2 = c2
    p1 = p1
    p2 = p2
    r1 = r1
    r2 = r2
    t1 = t1
    u1 = u1
    u2 = u2
    None = None
    Users = {u1, u2}
    SeededUsers = {u1}
    LegacyUsers = {u1}
    Passwords = {p1, p2}
    ResetTokens = {r1, r2}
    Tokens = {t1}
    Calls = {c1, c2}
SPECIFICATION Spec
SYMMETRY Symmetry
INVARIANTS
    ModernResetIsEffective
CHECK_DEADLOCK FALSE
