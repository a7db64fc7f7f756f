SPECIFICATION WireSpec

CONSTANTS
    Usernames <- AllNames
    Passwords = {"pw1", "pw2"}
    Salts <- MCSalts
    Nonces <- MCNonces
    Plaintexts <- MCPlaintexts
    KeyTexts <- MCKeyTexts
    SaltTexts <- MCSaltTexts
    NonceTexts <- MCNonceTexts
    CiphertextTexts <- MCCiphertextTexts
    MaxUsers = 2
    MaxEntries = 0

\* The table may be full.
CHECK_DEADLOCK FALSE

INVARIANT EveryAccountLogsIn
