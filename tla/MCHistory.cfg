SPECIFICATION HistorySpec

CONSTANTS
    Requests = {q1, q2, q3}
    Ops <- AllOps
    Usernames = {alice, bob}
    AuthKeys = {k1}
    KdfParams = {p1, p2}
    Blobs = {b1}
    Faults = {"crash"}
    TokenTTL = 1
    MaxTime = 1
    SeedUsers <- OneUser
    SeedEntries <- OneEntry
    SeedTokens <- OneToken
    SeedUserSeq = 2
    SeedEntrySeq = 2
    None = None
    alice = alice
    bob = bob
    k1 = k1
    k2 = k1
    p1 = p1
    p2 = p2
    b1 = b1
    b2 = b1

\* Every request may have been made and answered.
CHECK_DEADLOCK FALSE

SYMMETRY RequestSymmetry

INVARIANTS
    KdfParamsAreTheAccounts
    CommittedIsSeen
    ExpiryIsExact
