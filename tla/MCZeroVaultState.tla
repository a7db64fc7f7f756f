-------------------------- MODULE MCZeroVaultState --------------------------
(***************************************************************************)
(* Small instances of ZeroVaultState: keys and ciphertexts are built from  *)
(* a few passwords, salts and entries.                                     *)
(***************************************************************************)
EXTENDS ZeroVaultState

CONSTANTS alice, pw1, short, s1, note

KdfOf(salts) == {[salt |-> s, costs |-> ARGON2_COSTS] : s \in salts}

MCSalts     == {s1}
MCKdfParams == KdfOf(MCSalts)
MCPasswords == {pw1, short}
MCKeys      == {derive_keys(p, s) : p \in MCPasswords, s \in MCSalts}
MCAuthKeys  == {k.auth_key : k \in MCKeys}
MCForged    == {encrypt_entry(None, note)}
MCBlobs     == {encrypt_entry(k.enc_key, note) : k \in MCKeys} \cup MCForged

Form(username, password, confirm) ==
    [username |-> username, password |-> password, confirm |-> confirm]

\* What is typed on the login page, then on the register page: the last
\* of which is refused.
MCForms == {Form(alice, pw1, None), Form(alice, pw1, pw1),
            Form(alice, short, short)}

AllClicks == {"go_to_register", "go_to_login", "register", "login", "logout",
              "add_vault_entry", "set_form", "set_new", "delete_vault_entry",
              "toggle_reveal_password", "reload"}

MCTokens == {[sub |-> alice, exp |-> 1]}

=============================================================================
