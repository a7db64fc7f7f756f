SPECIFICATION Spec

CONSTANTS
    Requests = {q1, q2, q3}
    Ops <- AllOps
    Usernames = {alice, bob}
    AuthKeys = {k1, k2}
    KdfParams = {p1}
    Blobs = {b1, b2}
    Faults = {"statement", "commit", "crash"}
    TokenTTL = 1
    MaxTime = 1
    SeedUsers <- OneUser
    SeedEntries <- OneEntry
    SeedTokens <- OneToken
    SeedUserSeq = 2
    SeedEntrySeq = 2
    None = None
    alice = alice
    bob = bob
    k1 = k1
    k2 = k2
    p1 = p1
    p2 = p1
    b1 = b1
    b2 = b2

\* Every request may have been made and answered.
CHECK_DEADLOCK FALSE

SYMMETRY RequestSymmetry

INVARIANTS
    TypeOK
    UniqueAccounts
    UsersAreTheRegistered
    LoginsAreProven
    ConflictsAreFinal
    EntriesAreTheStored
    ListsAreOwnAndCommitted

PROPERTIES
    ImplementsVaultStore
    OnlyOwnersDelete
