SPECIFICATION Spec

CONSTANTS
    Requests = {q1, q2}
    Ops <- RegisterOnly
    Usernames = {alice, bob}
    AuthKeys = {k1, k2}
    KdfParams = {p1, p2}
    Blobs = {b1, b2}
    Faults = {}
    TokenTTL = 1
    MaxTime = 0
    SeedUsers <- NoRows
    SeedEntries <- NoRows
    SeedTokens <- NoRows
    SeedUserSeq = 1
    SeedEntrySeq = 1
    None = None
    alice = alice
    bob = bob
    k1 = k1
    k2 = k2
    p1 = p1
    p2 = p2
    b1 = b1
    b2 = b2

\* Every request may have been made and answered.
CHECK_DEADLOCK FALSE

INVARIANT
    DuplicatesGet409
