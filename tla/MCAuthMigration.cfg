\* One legacy account, a sign-in and a reset.
CONSTANTS
    c1 = c1
    c2 = c2
    p1 = p1
    p2 = p2
    r1 = r1
    t1 = t1
    u1 = u1
    None = None
    Users = {u1}
    SeededUsers = {u1}
    LegacyUsers = {u1}
    Passwords = {p1, p2}
    ResetTokens = {r1}
    Tokens = {t1}
    Calls = {c1, c2}
SPECIFICATION Spec
SYMMETRY Symmetry
INVARIANTS
    ResetIsEffective
CHECK_DEADLOCK FALSE
