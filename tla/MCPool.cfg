SPECIFICATION PoolFairSpec

CONSTANTS
    PoolSize = 1
    MaxOverflow = 1
    Requests = {q1, q2, q3}
    Ops <- WithoutDelete
    Usernames = {alice}
    AuthKeys = {k1}
    KdfParams = {p1}
    Blobs = {b1}
    Faults = {"statement", "commit", "crash"}
    TokenTTL = 1
    MaxTime = 1
    SeedUsers <- NoRows
    SeedEntries <- NoRows
    SeedTokens <- NoRows
    SeedUserSeq = 1
    SeedEntrySeq = 1
    None = None
    alice = alice
    bob = bob
    k1 = k1
    k2 = k1
    p1 = p1
    p2 = p1
    b1 = b1
    b2 = b1

\* Every request may have been made and answered.
CHECK_DEADLOCK FALSE

PROPERTIES
    EveryRequestFinishes
    SomeRegistrationWins
    ImplementsApi
    RefusalsForWantOfAConnection
