SPECIFICATION SystemSpec

CONSTANTS
    Tabs = {1}
    Passwords <- MCPasswords
    LongPasswords <- MCPasswords
    Salts <- MCSalts
    Plaintexts = {note}
    Forms <- CarolLogsIn
    Clicks = {"set_form", "login"}
    ServerTokens <- MCTokens
    EntryIds <- Nat
    Forged = {}
    MaxPending = 1
    NetworkFaults = {}
    Requests = {1, 2, 3}
    Ops <- AllOps
    Usernames = {alice, bob, carol}
    AuthKeys <- MCAuthKeys
    KdfParams <- MCKdfParams
    Blobs <- MCBlobs
    Faults = {}
    TokenTTL = 1
    MaxTime = 0
    SeedUsers <- MCSeedUsers
    SeedEntries <- MCSeedEntries
    SeedTokens <- NoRows
    SeedUserSeq = 3
    SeedEntrySeq = 3
    None = None
    alice = alice
    bob = bob
    carol = carol
    pwa = pwa
    pwb = pwb
    s1 = s1
    s2 = s2
    s3 = s3
    note = note

\* The requests of an instance may be used up.
CHECK_DEADLOCK FALSE

INVARIANT
    StoredParamsAreUsed
