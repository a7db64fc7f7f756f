SPECIFICATION Spec

CONSTANTS
    Requests = {q1}
    Ops <- VaultOps
    Usernames = {alice, bob}
    AuthKeys = {k1, k2}
    KdfParams = {p1, p2}
    Blobs = {b1, b2}
    Faults = {"commit"}
    TokenTTL = 1
    MaxTime = 0
    SeedUsers <- TwoUsers
    SeedEntries <- OneEntry
    SeedTokens <- TwoTokens
    SeedUserSeq = 3
    SeedEntrySeq = 2
    None = None
    alice = alice
    bob = bob
    k1 = k1
    k2 = k2
    p1 = p1
    p2 = p2
    b1 = b1
    b2 = b2

\* Every request may have been made and answered.
CHECK_DEADLOCK FALSE

INVARIANT
    AcknowledgedIsDurable
