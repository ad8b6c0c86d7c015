\* Two calls create or remove two posts whose captions name two tags, in the
\* same order or in opposite ones, and the worker has a job for each.
CONSTANTS
    c1 = c1
    c2 = c2
    p1 = p1
    p2 = p2
    t1 = t1
    t2 = t2
    u1 = u1
    u2 = u2
    None = None
    Users = {u1, u2}
    Posts = {p1, p2}
    Tags = {t1, t2}
    Drafts <- MCDrafts
    Calls = {c1, c2}
SPECIFICATION FairJobsSpec
INVARIANTS
    CountIsCreations
    EffectsFollowCommit
    DoneIsEmbedded
PROPERTIES
    TransactionsEnd
    JobsEnd
CHECK_DEADLOCK FALSE
