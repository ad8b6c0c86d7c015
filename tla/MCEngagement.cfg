\* Two requests of two users about one row of each kind.  The system stops
\* when each call has made its request.
CONSTANTS
    u1 = u1
    u2 = u2
    u3 = u3
    p1 = p1
    m1 = m1
    m2 = m2
    s1 = s1
    x1 = x1
    k1 = k1
    k2 = k2
    h1 = h1
    e1 = e1
    r1 = r1
    q1 = q1
    q2 = q2
    a1 = a1
    a2 = a2
    a3 = a3
    r2 = r2
    c1 = c1
    c2 = c2
    None = None
    Users = {u1, u2, u3}
    Actors = {u1, u2}
    Posts = {p1}
    Comments = {m1, m2}
    Stories = {s1}
    Messages = {x1}
    Collections = {k1, k2}
    Highlights = {h1}
    Promotions = {q1, q2}
    Seeds = {p1, m1, s1, x1, k1, q1}
    Maker <- MCMaker
    Within <- MCWithin
    SeedMarks <- MCSeedMarks
    Emails = {e1}
    Reactions = {r1, r2}
    Accounts = {a1, a2, a3}
    Priced = {p1, s1}
    Monetized = {u1}
    SeedAccounts <- MCSeedAccounts
    Calls = {c1, c2}
SPECIFICATION Spec
SYMMETRY Symmetry
INVARIANTS
    TypeOK
    AnswersAddUp
    FailsByRaceOnly
    NoticesMatch
    PaidOnceAndUnlocked
    LinkedAccountStands
    PromotionsAsListed
CHECK_DEADLOCK FALSE
