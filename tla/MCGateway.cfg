\* Chat: three users, two conversations, one message, two calls in flight.
\* Presence: two users, three sockets: a user with two sockets and a watcher, or
\* one who reconnects.  The system stops when the sockets are used up.
CONSTANTS
    c1 = c1
    c2 = c2
    k1 = k1
    k2 = k2
    m1 = m1
    u1 = u1
    u2 = u2
    u3 = u3
    None = None
    Users = {u1, u2, u3}
    Conversations = {k1, k2}
    Messages = {m1}
    Calls = {c1, c2}
    Clients = {c1, c2}
    Sockets = {u1, u2, u3}
SPECIFICATION GatewaySpec
SYMMETRY Symmetry
INVARIANTS
    DuplicateOnlyByRace
    ReachesItsRecipientOnly
    GoneWasAnnounced
    GoneIsOffline
    ConnectedIsOnline
    WatchersAgree
CHECK_DEADLOCK FALSE
