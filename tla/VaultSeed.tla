------------------------------ MODULE VaultSeed ------------------------------
(***************************************************************************)
(* What a run of the backend starts from: the requests it will be made and *)
(* the database the process finds.                                         *)
(***************************************************************************)
EXTENDS VaultData

CONSTANTS
    Requests,     \* identities of HTTP requests, one per request
    SeedUsers,    \* rows of the database the process starts on
    SeedEntries,
    SeedTokens,   \* tokens issued before the process started
    SeedUserSeq,  \* next value of each table's id sequence
    SeedEntrySeq

\* The database found at start-up obeys the schema (models.py): ids and user
\* names are unique, entries have an owner, the sequences are past every id
\* drawn, and tokens were issued to users.
ASSUME SeedAssumption ==
    /\ SeedUsers \subseteq User
    /\ SeedEntries \subseteq VaultEntry
    /\ SeedTokens \subseteq Token
    /\ SeedUserSeq \in Nat
    /\ SeedEntrySeq \in Nat
    /\ \A x \in SeedUsers : x.id < SeedUserSeq
    /\ \A e \in SeedEntries : e.id < SeedEntrySeq
    /\ \A x, y \in SeedUsers :
           x.id = y.id \/ x.username = y.username => x = y
    /\ \A d, e \in SeedEntries : d.id = e.id => d = e
    /\ \A e \in SeedEntries : \E x \in SeedUsers : x.id = e.user_id
    /\ \A t \in SeedTokens : \E x \in SeedUsers : x.username = t.sub

=============================================================================
