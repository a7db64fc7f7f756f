SPECIFICATION FairStateSpec

CONSTANTS
    Tabs = {1}
    Passwords <- MCPasswords
    LongPasswords = {pw1}
    Salts <- MCSalts
    Plaintexts = {note}
    Forms <- MCForms
    Clicks <- AllClicks
    ServerTokens <- MCTokens
    EntryIds = {1}
    Forged <- MCForged
    MaxPending = 2
    Ops <- AllOps
    Usernames = {alice}
    AuthKeys <- MCAuthKeys
    KdfParams <- MCKdfParams
    Blobs <- MCBlobs
    None = None
    alice = alice
    pw1 = pw1
    short = short
    s1 = s1
    note = note

INVARIANTS
    StateTypeOK
    SessionIsWhole
    ServerCannotDecrypt
    LoadingIsEnded

PROPERTIES
    ShownIsAuthentic
    RestsWhenLeftAlone
