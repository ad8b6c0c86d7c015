\* Two users, two rows, two calls in flight.
CONSTANTS
    c1 = c1
    c2 = c2
    r1 = r1
    r2 = r2
    u1 = u1
    u2 = u2
    None = None
    Users = {u1, u2}
    Rows = {r1, r2}
    Calls = {c1, c2}
SPECIFICATION Spec
SYMMETRY Symmetry
INVARIANTS
    Consent
    AcceptanceIsTrue
PROPERTIES
    SeparationLasts
