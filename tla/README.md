# ZeroVault in TLA+

ZeroVault is a password manager: a Reflex frontend derives keys from a master
password and encrypts entries, a FastAPI backend stores accounts and ciphertext
in PostgreSQL. This directory holds TLA+ modules that model both, TLC
configurations that check them on small instances, and proofs for TLAPS.

## 1. The system

| Component | State | Operations | Hard behaviour |
|---|---|---|---|
| Auth router, `backend/.../routers/auth.py` | table `users` | `register`, `get_kdf_params`, `login` | `register` looks a name up, awaits bcrypt in an executor, and only then inserts; `login` compares with a row read before bcrypt ran |
| Vault router, `routers/vault.py` | table `vault_entries` | `create_vault_entry`, `list_vault_entries`, `delete_vault_entry` | a delete is only marked, and takes place at the commit; lists run between the statements and the commits of others |
| Session dependency, `database.py` | one SQLAlchemy session per request; a pool of 10 + 20 connections | `get_db`: commit, rollback, close; pre-ping, overflow, timeout | the commit runs *after* the response was sent (FastAPI 0.135.2 leaves a dependency with `yield` then), and may fail; a connection is held over bcrypt and can be lost at any time; opening one fails while PostgreSQL is down |
| JWT check, `auth.py` | the clock | `create_access_token`, `get_current_user` | expiry is checked once, at the start of a request, before the request may have to wait for a connection |
| Tables, `models.py` | unique index on `users.username`, id sequences | | an INSERT waits for an uncommitted row of the same name; ids are drawn even by transactions that fail |
| Start-up, `main.py`, `config.py` | | `lifespan` | crash and restart on the same database |
| Schemas, `schemas.py` | | validators | they count characters, `bytes.fromhex` skips whitespace |
| Reflex state, `frontend/.../state.py` | one `ZeroVaultState` per tab: page, session (token, name, key), forms, decrypted entries, `is_loading` | `register`, `login`, `logout`, `load/add/delete`, navigation, reveal | events queue while a handler awaits; a load is chained to login, add and delete; `login` makes two calls; a call can time out after it took effect |
| UI, `components.py`, `zerovault.py` | | what each page lets a user click | buttons are disabled by `is_loading`, links and the buttons of an entry are not |
| Frontend crypto, `app/crypto/*.py` | | `derive_keys`, `encrypt_entry`, `decrypt_entry` | both keys come from one password; the Argon2 costs are compiled in |
| Backend crypto, `backend/.../crypto/*.py` | | `hash_auth_key`, `verify_auth_key`, and the frontend's functions for its tests | lengths are checked first, then the tag |

A tab talks to the backend by HTTP only, and one call at a time. Requests of
different tabs share the database; inside the process they interleave at every
`await`. Handlers of one tab never overlap: Reflex runs a handler under the lock
of the tab's state and the browser holds later events back.

What makes each part correct:

- **accounts**: one account per name whatever races; `users` is exactly the
  committed registrations; a login proves the key, KDF parameters are the
  account's, a 409 is said only of a name that is taken for good; racing
  registrations never wait for each other for ever;
- **entries**: `vault_entries` is exactly what committed creates stored less what
  committed deletes named; only the owner's delete removes an entry; lists are
  the caller's own and hold nothing uncommitted;
- **order**: who asks after a commit sees it; a token is honoured up to its expiry;
- **pool**: no request waits for ever, nobody is turned away while a connection is to
  be had, lost connections show clients nothing new;
- **wire**: what the validators accept fits its column, gives the same keys again at
  a login, and a bad row never hides the good ones;
- **frontend**: token, key and name come and go together; nothing that was sent
  opens what was sent; nothing forged is shown in clear; the buttons come back;
  a tab left alone comes to rest;
- **both**: a session belongs to the stored account, its entries decrypt, the right
  password of an account at this build's Argon2 costs is accepted, also after timeouts
  and repeated registrations (at other costs it is not: finding 4); the form of
  an entry keeps what was typed until the backend has it.

## 2. The modules

| Module | Models | Extends |
|---|---|---|
| `VaultCrypto` | bcrypt, Argon2id, HKDF and AES-GCM as free terms | |
| `VaultData` | rows, tokens, payloads, responses, sessions; the constants they are built from | `VaultCrypto` |
| `VaultSeed` | the request names, and the database a process starts on | `VaultData` |
| `VaultStore` | **abstract**: every call is decided in one step, its effect kept or broken later | `VaultSeed` |
| `ZeroVaultApi` | the backend: routers, `get_db`, the JWT check, the tables, faults, the clock | `VaultSeed` |
| `ZeroVaultApiStore` | the refinement mapping of `ZeroVaultApi` to `VaultStore` | `ZeroVaultApi` |
| `ZeroVaultApiHistory` | `ZeroVaultApi` and what was over when a request was made | `ZeroVaultApi` |
| `ZeroVaultPool` | `ZeroVaultApi` on its connection pool | `ZeroVaultApi` |
| `ZeroVaultApiProofs`, `ZeroVaultApiAnswers` | theorems about the backend: types and accounts; answers and tables | `ZeroVaultApi`, each the one before, `TLAPS` |
| `ZeroVaultApiStoreProofs`, `ZeroVaultApiHistoryProofs`, `ZeroVaultPoolProofs` | theorems about the refinement, the history and the pool | what they are named for and the backend's theorems |
| `ZeroVaultStateProofs`, `VaultWireProofs` | theorems about the frontend and the wire | what they are named for, `TLAPS` |
| `VaultCipher` | the crypto package with lengths, nonces, hex and exceptions | `VaultCrypto` (instance `Term`) |
| `VaultWire` | validators, columns, and what `login` and `load_vault_entries` make of texts that come back | `VaultCipher` |
| `ZeroVaultState` | the frontend against *any* server | `VaultData` |
| `ZeroVault` | tabs of `ZeroVaultState` against `ZeroVaultApi`, with a faulty network | `ZeroVaultApi`, `ZeroVaultState` |
| `ZeroVaultProofs` | theorems about the whole | `ZeroVault` and the theorems about its halves |
| `MC...` | small instances of the above | |

`map` in `PROJECT.json` gives the source lines of every definition.

### Backend: `ZeroVaultApi`

A request is a process with a place `pc`, the row its handler loaded (`row`), its
SQLAlchemy session (`session`: rows to insert, ids to delete) and its answer
(`resp`). A handler is cut where it awaits something that lets others run and
that matters:

    received --RegisterCheck--> hashing --RegisterFlush--> closing --Commit--> committed
    received --LoginLookup----> verifying --LoginAccept--> closing
    received --AcceptToken----> authorized --GetUserOr404--> have_user
                                have_user --Create/List/Delete--> closing
    any      --Raise----------> refused

- `Return` is a handler's return: the response is out, `get_db`'s exit code is
  still to run (`closing`). `Commit` and `CommitFails` are that exit code.
- `NameLocked` is the unique index: an INSERT waits while another session holds an
  uncommitted row of the name. Statements see committed rows (READ COMMITTED).
- `StatementFails`: a statement or the executor's job raises, `get_db` rolls back.
  `Crash`: the process dies; the database rolls open transactions back, requests
  without an answer are `lost`.
- Ids come from sequences and are never given twice, as in PostgreSQL.

Merged: an INSERT's flush and the response that follows it, with no await between
them but the statement's own; a rollback and the error response.

### Pool: `ZeroVaultPool`

The same requests, each with a connection (`conn`: none, live or dead), the idle
connections of the pool (`idle`, one at the start: `lifespan` opens it to create the
tables), and whether PostgreSQL takes new ones (`reachable`). `Checkout` gives a request
that is about to run its first statement an idle connection, one the pre-ping found dead
and opened again, or a new one; the end of `get_db` gives it back; in between the
request keeps it, over bcrypt and over the answer. Opening a connection raises while
PostgreSQL is not reachable (`ConnectFails`: 500), and requests that find the pool
`Exhausted` wait or get QueuePool's `TimeoutError` (`CheckoutTimeout`: 500). The JWT check
comes before and needs no connection (`WithoutConnection`), so a token may expire during
the wait and is honoured. A connection may be lost idle (`LoseIdle`) or in use: then the
next statement fails and the pool gets a connection to open again (`Discard`), a `closing`
request has lost its commit at that instant (`LoseConnection`), and a login that has only
bcrypt behind it still answers (`LoginOnDead`). Statements may also fail on a good
connection (`StatementRaises`: a value out of range, say). After a crash the process
starts again once it has connected. Every step is a step of `ZeroVaultApi` restricted by
the pool, which the refinement `ImplementsApi` states and `PoolImplementsApi` proves.

### Texts and bytes: `VaultCipher`, `VaultWire`

Bytes are a length and a term of `VaultCrypto`; a text is a number of characters,
whether `bytes.fromhex` takes it and how many bytes that gives, at most one per two
characters and fewer with whitespace. Rows come from the form (`Register`,
`AddVaultEntry`) or from any other client of the API (`..Elsewhere`); both pass the
same validators. `login` and `load_vault_entries` change nothing here, they are
operators that the invariants ask in every state. A name has a mark that tells
what its characters do in the URL of `/auth/kdf-params/`.

### Frontend: `ZeroVaultState`

Each tab has its State fields (`state`), the browser's queue of events (`queue`),
the HTTP call the running handler awaits (`call`) and the local that holds a key
meanwhile (`local`). A handler is one action up to its call and one per kind of
answer. `Ends` appends chained events to the browser's queue, unless the page was
reloaded while the handler ran (`attached`): then they are lost, as is what
waited in the queue. `CallFails` is every way out but the hoped-for one: other
statuses, `httpx.RequestError`, and the exception `resp.json()` raises on a plain
text 500, which the handlers do not catch but their `finally` sees.

`Offered` is what the page lets a user do, from one operator per function of
`components.py` (`login_page`, `register_page`, `vault_page`, `entry_card`, `add_entry_form`).

The server is arbitrary: any status, any salt and costs, any token, and lists made
of ciphertexts it was sent or made up. `sent` remembers what left a tab.

Left out: messages, the strength bar, looks. The setters of one form are one
event and the four fields of an entry one value.

### Both: `ZeroVault`

`ZeroVault` extends both halves and adds `conn`, the request that stands for a tab's
call. A call becomes the next request of the backend or is lost (`Forward`); the tab gets the backend's answer or, if the
network fails or runs out of patience, a `RequestError` while the request runs on
(`Outcomes`). A late arrival is a request the backend is slow to begin. A tab's
steps leave the backend alone except for `Submit`, and `RequestsFitTheApi` checks
that what is submitted is what `ZeroVaultApi` lets clients submit, so what holds
of `Spec` holds of the whole. What the two halves have to agree on is stated as
assumptions: `BackendAssumption` (the backend's tokens are among those
`ZeroVaultState` lets servers answer, and ids are natural numbers) and
`SeedKeysAssumption` (the accounts found at start-up were registered, and their entries
encrypted, by frontends that derive keys like this one, each at the costs that are stored
with the account: those of this build or others).

### Abstract: `VaultStore`

A call is granted (answered, with a promised effect), refused for a reason that is
true at that moment, and a promise is kept in one step or broken. Promises never
collide: a name that was promised is `Taken`. `ZeroVaultApiStore` maps sessions to
promises and `closing` to `promised`; bcrypt, the two reads of `register` and the
clock disappear.

## 3. The runs

| Run | Instance | Checks |
|---|---|---|
| `backend` | 3 requests of any kind, 1 account with an entry and a token, 2 names, keys and blobs, all faults, expiry | `TypeOK`, `UniqueAccounts`, `UsersAreTheRegistered`, `LoginsAreProven`, `ConflictsAreFinal`, `EntriesAreTheStored`, `ListsAreOwnAndCommitted`, `OnlyOwnersDelete`, refinement `ImplementsVaultStore` |
| `pool` | 3 register / login / list requests, pool of 1 + 1, connections lost, PostgreSQL down and up, all faults, fairness | `EveryRequestFinishes`, `SomeRegistrationWins`, `RefusalsForWantOfAConnection`, refinement `ImplementsApi` |
| `history` | 3 requests of any kind, 2 KDF parameters, crash, expiry | `KdfParamsAreTheAccounts`, `CommittedIsSeen`, `ExpiryIsExact` |
| `client` | 1 tab, every click, reload, 2 passwords (one too short), any server, 2 events pending, fairness | `StateTypeOK`, `SessionIsWhole`, `ServerCannotDecrypt`, `LoadingIsEnded`, `ShownIsAuthentic`, `RestsWhenLeftAlone` |
| `system` | 1 tab, 4 requests, 2 users (one new) next to an account at other Argon2 costs (its owner logs in in `costs`), 2 fresh salts, losses and timeouts | `RequestsFitTheApi`, `SessionIsTheAccounts`, `EntriesAreReadable`, `RightPasswordGetsIn`, `FormKeptUntilStored` |
| `wire` | 1 account from the form or elsewhere, 2 entries, texts around every limit | `RowsFitColumns`, `PlainAccountsLogIn`, `BadEntryIsAlone`, `AddedIsReadable` |
| `duplicates` | violation of `DuplicatesGet409` | finding 1 |
| `read_your_writes` | violation of `AcknowledgedIsSeen` | finding 2 |
| `durability` | violation of `AcknowledgedIsDurable` | finding 3 |
| `costs` | violation of `StoredParamsAreUsed` | finding 4 |
| `expiry` | violation of `KeyClearedOnExpiry` | finding 5 |
| `names` | violation of `EveryAccountLogsIn` | finding 6 |

Every property of a passing run has a mutant in `PROJECT.json`: a faulty variant
(`..Bug`) of one definition under which TLC finds the property violated.

### Bounds, and why they are enough

- *Three requests* (backend). A name race needs two registrations; the third sees
  one fail and the other go on, or reads between them. An entry's story is a
  create, a delete and a list; bob's registration, login and delete of alice's entry
  are three. Requests differ in name only (symmetry, in the runs without liveness).
- *Two users, two keys, two blobs*: own and foreign, right and wrong.
- *`MaxTime` 0 or 1, `TokenTTL` 1*: a token is alive, or has just expired. Where no
  property speaks of expiry the clock stands still.
- *A pool of 1 + 1* (pool): an idle connection that is kept and an overflow
  connection that is not, both in use with a third request waiting. All three carry
  one auth_key: which key it is does nothing to the pool. Deletes and
  KDF-parameter requests do nothing to the pool that lists and logins do not.
- *One account, two entries* (wire): a good entry and a bad one. Lengths are one below,
  at and one above each limit, and the bytes of a text all or one less.
- *`MaxPending` = 2* (client): an event waits while another runs, which is what a
  click during a sign-in, a logout before a chained load, and a double click need.
  The bound is on clicks; a chained event is always queued.
- *Four requests, one tab* (system): two overlapping registrations, then the two
  calls of a login; or a login, its list and an add. Because a timeout leaves a
  request running, one tab has several requests under way at once. Clicks are
  those that make requests: the `client` run has the others. The backend has no
  faults here: `backend` has them.
- *Salts*: `FreshSalts` never returns one twice until an instance has used them
  all (`os.urandom(32)` does not repeat).

`CHECK_DEADLOCK FALSE` is set where requests may be used up; the `client` instance
has no end and is checked for deadlock.

### Fairness

`pool`: weak fairness of `RequestStep(r)`. The event loop, the executor and
PostgreSQL go on with every request they have begun, an INSERT that waits for
a name is woken when the other transaction ends, and QueuePool ends a wait for a
connection after 30 s. No fairness of clients, lost connections, crashes or the clock. `client`: weak fairness of `HandleEvent` and `Answered`. Reflex processes
what the browser sent, and every call has a `timeout=` of 10 or 30 s, so it is
answered or raises. Nobody need ever click; `RestsWhenLeftAlone` speaks of tabs
whose user has stopped.

## 4. Findings

1. **A racing duplicate gets 500.** `register` checks the name, awaits bcrypt, then
   inserts; the IntegrityError of the loser is not handled (`auth.py:64-89`). Test
   and docstring promise 409.
2. **Read-your-writes is not given.** The 201 leaves before `session.commit()`
   (`database.py:46`); the list that `state.py:421` chains to an add can run before
   the commit. The end-to-end test expects the entry, and its in-process transport
   hides the order.
3. **A 201 is not durable.** The commit can fail after the answer; the rollback
   removes what the client was told is stored.
4. **The stored Argon2 costs are not used.** `login` fetches them and derives the keys at
   the costs compiled in (frontend `kdf.py:37-45`, called at `state.py:276-278`), although
   the comment there says "using server-stored params" and the backend stores them so that
   "the client can re-derive auth_key at login" (`routers/auth.py:60`, `models.py:62-64`,
   `constants.py:10-11`). An account at other costs is refused its right password.
5. **The key survives session expiry.** A 401 sets an error message only
   (`state.py:17-18` against `340-342`, `422-423`, `442-443`).
6. **Some names cannot log in.** `login` puts the name into a URL unquoted
   (`state.py:264`); `/`, `?`, `#` and escapes such as `%41` ask for another name or
   none, although `register` accepted the name.

No run shows a seventh disagreement, since it can be read off the code: the master
password is "discarded" after key derivation by `state.py:13-14`, but it stays in
`form_master_password` over both calls, and after a refused login until the user leaves
the page (`state.py:217`, `277`, `299`).

## 5. Proofs

In `ZeroVaultApiProofs`, for every number of requests, every set of users, keys, blobs,
faults and every starting database that satisfies the assumptions:

- `TypeCorrectness == Spec => []TypeOK`. `TypeOK` alone is not inductive: the answer of
  a login needs the type of the row its handler loaded. `TypeInv` adds `LocalsOK`:
  a request that is under way has a payload, and one that is verifying or serving
  a vault call has a row. Lemmas `AwaitType`, `ReturnType`, `RaiseType`, `CloseType` show
  the four ways a handler goes on keep it; `ServerStepType` has a step per action.
- `AccountsAreUnique == Spec => []UniqueAccounts`. The invariant is `AccountsInv`:
  `UniqueAccounts`; ids of accounts are below the sequence (`IdsDrawn`); no name in an
  open session has an account (`PendingIsFree`); no two open sessions hold the same
  name or id (`PendingIsReserved`). `RegisterFlush` establishes the last two from its
  guards - the lookup at the INSERT and the name lock - and `Commit` turns a pending
  row into an account; every other step is a frame (`AccountsFrame`).

In `ZeroVaultApiAnswers`, on top of these. A handler reads a row, awaits and answers,
and commits after the answer; what makes its answers worth something is that
accounts only grow and names stay unique, so a name that has a row keeps that row.

- `AnswersInv` says it of every request (`RequestInv`): the row it holds over an await is
  still the one of its name; its token was issued, to an account; a refusal by 409
  has a taken name; what was granted is as the accounts say; and its session holds
  exactly what its answer promised (`Owed`) until the commit, and nothing after it. None of the parts is inductive alone:
  the grant of a login needs the row, the row the uniqueness, the session the grant. It gives
  `LoginsProveTheirKey`, `KdfParamsAreForGood`, `ConflictsLast`, `UsersAreRegistered`.
- `EntriesInv` adds that ids of entries are drawn once, `EntriesAreTheStored`, and that a
  granted list or delete was of stored entries of its caller. It gives `EntriesAreStored`,
  `ListsAreCommitted`, `OwnersDelete`. Without unique ids a delete of one entry could take another.

In `ZeroVaultApiStoreProofs`: `BackendImplementsStore == Spec => ImplementsVaultStore`. Initial states
map to initial states; an `Await` is a stutter, the step that answers decides the call
(`GrantMaps`, `RefusalMaps`), `Commit` keeps a promise and `CommitFails` and `Crash` break it.
The guards of the store follow from `AnswersInv`: what the handler saw before
bcrypt is what the store sees when it decides.

In `ZeroVaultApiHistoryProofs`: `HistoryIsApi == HistorySpec => Spec`, which carries all of the above
over; `HistoryInv` (what a request remembers is of the past) and `LetInInTime` (who is past
the JWT check had a live token) give `ExpiryIsToTheInstant`, and with `EntriesInv`
`CommittedIsAlwaysSeen`: a refusal had its reason when it was made, and a commit before that would have
removed it.

In `ZeroVaultPoolProofs`, for every size of the pool:

- `PoolImplementsApi == PoolSpec => ImplementsApi`. No invariant is needed: each step of
  the pool is a step of `ZeroVaultApi` or leaves its variables alone
  (`RequestStepIsApi`, `LoseConnectionIsApi`, `PoolStepIsApi`). With it the theorems
  above hold on the pool.
- `NobodyIsTurnedAwayWithoutCause == PoolSpec => RefusalsForWantOfAConnection`, an action
  property. `PoolInv`: a live connection is in the hands of a request that awaits or
  closes, a dead one of a request that was struck. So a pool that is exhausted is
  exhausted by those alone, and a request that has no connection and is not struck can
  be answered 500 only by `ConnectFails` or `CheckoutTimeout`. Of a 500 that a statement
  on a good connection ends in, an `entry_id` beyond int4 for one, it says nothing.

In `ZeroVaultStateProofs`, for any number of tabs, passwords, entries and pending events and
whatever the server answers. `StateInv` judges a tab by its fields, the call its
handler awaits and the key in the handler's local together (`TabOK`): while a login waits
its form is complete, while a load waits the session stays and its key is the
handler's, while a button's handler runs the buttons are disabled. Of every request
that left a tab it says what its key material was made of (`SentOK`). It gives
`StateTypeCorrectness`, `SessionsAreWhole`, `LoadingAlwaysEnds` and `ServerNeverDecrypts` (encryption keys and
auth_keys have different HKDF labels: `KeysAreApart`). `ShownIsAlwaysAuthentic` is an action property:
only `LoadDone` changes the list to something that is not empty, with the session's key.

In `VaultWireProofs`, for all texts:

- `RowsAlwaysFit == WireSpec => []RowsFitColumns`, which is inductive: `RegisterFits` and
  `CreateFits` go from the validators to the inserted row, and `KeyTextFits` from 64
  characters to bcrypt's 72 bytes.
- `WireInv`: the tables hold hex and no name twice, every account of the form has the row
  its password and a salt give, every entry of the form has a row encrypted with its
  account's key. That an entry is added under the account's own key is what a
  login gives (`LoginGivesTheKey`): equal auth_keys come from the same password and salt
  (`KeysGoTogether`). It gives `PlainAccountsGetIn`, `BadEntriesStandAlone`, `AddedStaysReadable`.

In `ZeroVaultProofs`, for any number of tabs and requests, any faults and any database to
start on. Each half keeps its own invariant because it is to the other what that one's
module says of its surroundings; what neither can say is added in three layers.

- `SystemInv` is the backend's invariants (`ApiInv`), the tabs' (`StateInv`) and `LinkInv`: a tab's
  token was issued and the ids it shows were drawn; the request that stands for its call
  is that call; what was requested was made by a frontend (of this build, since a
  request is a tab's). An answer of
  success is then the granted answer to the very call (`AnswerIsOwn`), so it is one a
  server may give (`AnswerFits`), and a call is one a client may make (`GoingOnAsks`).
  It gives `SystemIsApi == SystemSpec => Spec`, which carries the backend's theorems over,
  `RequestsAlwaysFit` and `TabsStayWhole`.
- `KeysInv` says whose keys are where: a session's are those of the account it names; a
  login waits with keys derived from the password on the form at the account's own
  salt; an entry was sent under the key of the account its token is of; a refused
  login had another key than its account. With accounts that never change
  (`UsersAreTheRegistered`, `UniqueAccounts`) every entry that ever was is under its owner's key
  (`StoredKeys`), whatever costs it is at. It gives `SessionsAreTheAccounts`,
  `EntriesStayReadable` and `RightPasswordsGetIn`; the last one needs that the account is at the
  costs the tab derives with (`KeysOfThisBuild`), and is false of other accounts (finding 4).
- `OrderInv`, of the tabs alone (end of `ZeroVaultStateProofs`): a page offers events of one kind only,
  those that lead on (`login`, `go_to_register`) or those that lead back or fill the form, and the
  queue is first in, first out; so on the login page nothing that leads on waits
  ahead of anything that leads back, elsewhere the other way round, and behind a filled form
  on the vault page no sign-in waits. Without it a second sign-in queued before
  the first was answered might empty the form. It gives `FormsAreKept`, an action property,
  under the hypothesis that `Faults` has neither "commit" nor "crash": by finding 3 a
  backend that fails behind its answer has lost what it confirmed.

Assumptions: `DataAssumption`, `SeedAssumption` (the starting database is well formed and
its accounts are unique), `ConstantsAssumption`, `PoolAssumption`, `FrontendAssumption` (among others: what is
typed as an entry is not the text shown in place of one that does not open, which has
no password, and every form asks for one), `CipherAssumption` (a
server that makes up a ciphertext has no key of a user's: AES-GCM is authenticated),
`WireAssumption` (`os.urandom` returns as many bytes as it is asked for), and for the whole
`SystemAssumption`, `BackendAssumption` and `SeedKeysAssumption` (section 2). TLC evaluates each in
every run whose module extends the one that states it.

Only model-checked: liveness (`EveryRequestFinishes`, `SomeRegistrationWins`, `RestsWhenLeftAlone`),
for which the prover has no rule of fairness. Every invariant and every action property of a
passing run, and both refinements, are proved.


## 6. Not modelled

- Cryptography is symbolic: no collisions or guessing. Lengths and nonces are in
  `VaultWire` only; elsewhere a ciphertext is a key and a plaintext.
- The order of a list (`created_at`), `/health`, CORS, settings, logging.
- The ranges of names and Argon2 costs in `schemas.py`: the values of an instance are
  in range. That an `entry_id` is beyond int4 (500 instead of 404): the 500 is among
  those of `StatementFails`, the id is not.
- Why an entry does not open: text that is not UTF-8 or not JSON after a good tag is caught
  by the same `except` as a bad tag (`state.py:360`), and nothing a tab encrypts is either.
- The texts of names: `VaultWire` has what their characters do in a URL, the other
  modules have names that are plain.
- Rows are never updated and users never deleted: no code does.
- A crash of the Reflex process; two clicks of one tab handled at once (they are
  not).
- `src/crypto/`, an older copy that nothing imports. The backend's copies of
  `derive_keys`, `encrypt_entry` and `decrypt_entry`, which its tests alone import:
  `VaultCipher` is the frontend's, which tabs run.
- Tests and deployment files: read for what they state, no behaviour of their own.

Behaviours in the model without a property, since no doc says what they should be:

- an add that timed out and is repeated stores the entry twice (`state.py:425`);
- a `go_to_register` queued during a sign-in leaves a session behind, so that the next
  sign-in shows the previous entries until its own list arrives (`state.py:158`);
- a page reload between a sign-in and its chained list loses the list (`state.py:300`);
- a reveal queued behind a logout runs after it, so that the entry is revealed at the
  next sign-in (`state.py:447`).

## 7. Plan

Done, in this order: `VaultCrypto`/`VaultData`, `ZeroVaultApi` with its safety and
liveness properties, `VaultStore` and the refinement, the history variable, the first
theorems, `ZeroVaultState`, `ZeroVault`, `ZeroVaultPool` with its refinement proved,
`VaultCipher` and `VaultWire`, the theorems about the backend, the store, the history,
the pool, the frontend and the wire, and about the whole; then the JWT check as a step of
its own, connections that cannot be opened, and accounts at other KDF costs.

Next:

1. **Lemmas towards liveness** that are within the prover's reach: that a request under way
   always has a step that is enabled in its place, as a safety fact about guards.
