SPECIFICATION WireSpec

CONSTANTS
    Usernames <- PlainNames
    Passwords = {"pw1", "pw2"}
    Salts <- MCSalts
    Nonces <- MCNonces
    Plaintexts <- MCPlaintexts
    KeyTexts <- MCKeyTexts
    SaltTexts <- MCSaltTexts
    NonceTexts <- MCNonceTexts
    CiphertextTexts <- MCCiphertextTexts
    MaxUsers = 1
    MaxEntries = 2

\* Both tables may be full.
CHECK_DEADLOCK FALSE

INVARIANTS
    RowsFitColumns
    PlainAccountsLogIn
    BadEntryIsAlone
    AddedIsReadable
