SPECIFICATION SystemSpec

CONSTANTS
    Tabs = {1}
    Passwords <- MCPasswords
    LongPasswords <- MCPasswords
    Salts <- MCSalts
    Plaintexts = {note}
    Forms <- AliceAndBob
    Clicks = {"set_form", "go_to_register", "register", "login", "set_new",
              "add_vault_entry"}
    ServerTokens <- MCTokens
    EntryIds <- Nat
    Forged = {}
    MaxPending = 1
    NetworkFaults = {"loss", "timeout"}
    Requests = {1, 2, 3, 4}
    Ops <- AllOps
    Usernames = {alice, bob, carol}
    AuthKeys <- MCAuthKeys
    KdfParams <- MCKdfParams
    Blobs <- MCBlobs
    Faults = {}
    TokenTTL = 1
    MaxTime = 0
    SeedUsers <- MCSeedUsers
    SeedEntries <- MCSeedEntries
    SeedTokens <- NoRows
    SeedUserSeq = 3
    SeedEntrySeq = 3
    None = None
    alice = alice
    bob = bob
    carol = carol
    pwa = pwa
    pwb = pwb
    s1 = s1
    s2 = s2
    s3 = s3
    note = note

\* The requests of an instance may be used up.
CHECK_DEADLOCK FALSE

SYMMETRY SaltSymmetry

INVARIANTS
    SessionIsTheAccounts
    EntriesAreReadable
    RightPasswordGetsIn

PROPERTIES
    RequestsFitTheApi
    FormKeptUntilStored
