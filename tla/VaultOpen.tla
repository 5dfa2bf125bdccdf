----------------------------- MODULE VaultOpen -----------------------------
(***************************************************************************)
(* open and open_with_passphrase of src/src/store.rs: which key a vault is *)
(* encrypted with, which salt file stands beside it, and how an open moves *)
(* a vault from a legacy key to a current one.                             *)
(*                                                                         *)
(* A key is the record of what it is derived from: two keys are equal only *)
(* if everything that goes into them is.  The machine id is fixed.  What   *)
(* finish_open does after its first write is module SchemaMigration.       *)
(***************************************************************************)
EXTENDS Naturals

CONSTANTS
    Passphrases, NoPassphrase,
    Salts,      \* random salts, 16 bytes
    Openers,    \* processes that open the vault
    Exclusive   \* no process begins to open while another one is opening

ASSUME PassphraseAssumption == NoPassphrase \notin Passphrases
ASSUME SaltAssumption == {"none", "short", "fixed"} \cap Salts = {}
ASSUME ExclusiveAssumption == Exclusive \in BOOLEAN

VARIABLES
    db,     \* the key engrams.db is encrypted with; Absent or Empty before
    salt,   \* the salt file: a salt, "short" (cut off) or "none"
    pc,     \* opener -> what it does next
    cred,   \* opener -> the passphrase it was given, or NoPassphrase
    key,    \* opener -> the key derived last
    held,   \* opener -> the key its connection was opened with, or NoKey
    owners  \* history: who has opened this vault successfully

local == <<pc, cred, key, held>>
vars == <<db, salt, local, owners>>

Credentials == Passphrases \cup {NoPassphrase}

Plain(kind) == [kind |-> kind, pass |-> NoPassphrase, salt |-> "none"]
Absent == Plain("absent")
Empty == Plain("empty")
NoKey == Plain("no key")
Machine == Plain("machine")
Siphash == Plain("siphash")
Sha256(p) == [kind |-> "sha256", pass |-> p, salt |-> "none"]
Argon2id(p, s) == [kind |-> "argon2id", pass |-> p, salt |-> s]

Current == {Machine} \cup {Argon2id(p, s) : p \in Passphrases, s \in Salts \cup {"fixed"}}
Legacy == {Siphash} \cup {Sha256(p) : p \in Passphrases}
Keys == Current \cup Legacy

\* The vault and its openers hold values of their kinds.
TypeOK ==
    /\ db \in Keys \cup {Absent, Empty}
    /\ salt \in Salts \cup {"none", "short"}
    /\ pc \in [Openers -> {"closed", "salt", "write", "fill", "derive", "create", "argon2id",
                           "try", "rekey", "finish", "setup", "open"}]
    /\ cred \in [Openers -> Credentials]
    /\ key \in [Openers -> Keys \cup {NoKey}]
    /\ held \in [Openers -> Keys \cup {NoKey}]
    /\ owners \subseteq Credentials

\* The salt derive_passphrase_key uses: a file of 16 bytes, or the fixed one.
SaltOf(file) == IF file \in Salts THEN file ELSE "fixed"

\* The keys open_internal tries for c, with the salt file as it is.
Tried(c) ==
    {Machine, Siphash} \cup
    IF c = NoPassphrase THEN {} ELSE {Argon2id(c, SaltOf(salt)), Sha256(c)}

-----------------------------------------------------------------------------
\* A directory without a vault, and the vaults of the earlier versions.
Init ==
    /\ \/ db = Absent /\ salt = "none" /\ owners = {}
       \/ db \in {Machine, Siphash} /\ salt = "none" /\ owners = {NoPassphrase}
       \/ \E p \in Passphrases :
            /\ db \in {Sha256(p), Argon2id(p, "fixed")}
            /\ salt = "none" /\ owners = {p}
       \/ \E p \in Passphrases, s \in Salts :
            db = Argon2id(p, s) /\ salt = s /\ owners = {p}
    /\ pc = [o \in Openers |-> "closed"]
    /\ cred = [o \in Openers |-> NoPassphrase]
    /\ key = [o \in Openers |-> NoKey]
    /\ held = [o \in Openers |-> NoKey]

Goto(o, step) == pc' = [pc EXCEPT ![o] = step]
Derived(o, k) == key' = [key EXCEPT ![o] = k]
Holds(o, k) == held' = [held EXCEPT ![o] = k]

\* Mutant: no passphrase is taken for one like any other.
BeginAlike(o, c) ==
    /\ pc[o] = "closed"
    /\ Exclusive => \A p \in Openers : pc[p] \in {"closed", "open"}
    /\ cred' = [cred EXCEPT ![o] = c]
    /\ Holds(o, NoKey)
    /\ Derived(o, NoKey)
    /\ Goto(o, IF db = Absent THEN "salt" ELSE "argon2id")
    /\ UNCHANGED <<db, salt, owners>>

\* db_path.exists() decides between a new vault and the list of keys.
Begin(o, c) ==
    /\ pc[o] = "closed"
    /\ Exclusive => \A p \in Openers : pc[p] \in {"closed", "open"}
    /\ cred' = [cred EXCEPT ![o] = c]
    /\ Holds(o, NoKey)
    /\ IF c = NoPassphrase
       THEN /\ Derived(o, Machine)
            /\ Goto(o, IF db = Absent THEN "create" ELSE "try")
       ELSE /\ Derived(o, NoKey)
            /\ Goto(o, IF db = Absent THEN "salt" ELSE "argon2id")
    /\ UNCHANGED <<db, salt, owners>>

\* create_per_vault_salt: a file that exists stays.  The write first creates
\* the file; when it fails, the open goes on with what there is.
FindSalt(o) ==
    /\ pc[o] = "salt"
    /\ Goto(o, IF salt = "none" THEN "write" ELSE "derive")
    /\ UNCHANGED <<db, salt, cred, key, held, owners>>

WriteSalt(o) ==
    /\ pc[o] = "write"
    /\ \/ salt' = "short" /\ Goto(o, "fill")
       \/ UNCHANGED salt /\ Goto(o, "derive")
    /\ UNCHANGED <<db, cred, key, held, owners>>

FillSalt(o) ==
    /\ pc[o] = "fill"
    /\ salt' \in Salts \cup {salt}
    /\ Goto(o, "derive")
    /\ UNCHANGED <<db, cred, key, held, owners>>

\* Mutant: a rekey derives with the fixed salt, as before there was a file.
DeriveFixed(o) ==
    /\ pc[o] \in {"argon2id", "derive"}
    /\ Derived(o, Argon2id(cred[o], IF held[o] = NoKey THEN SaltOf(salt) ELSE "fixed"))
    /\ Goto(o, IF pc[o] = "argon2id" THEN "try"
               ELSE IF held[o] = NoKey THEN "create" ELSE "rekey")
    /\ UNCHANGED <<db, salt, cred, held, owners>>

\* The Argon2id key: the first to try, a new vault's, or the one to rekey to.
Derive(o) ==
    /\ pc[o] \in {"argon2id", "derive"}
    /\ Derived(o, Argon2id(cred[o], SaltOf(salt)))
    /\ Goto(o, IF pc[o] = "argon2id" THEN "try"
               ELSE IF held[o] = NoKey THEN "create" ELSE "rekey")
    /\ UNCHANGED <<db, salt, cred, held, owners>>

\* Connection::open makes an empty file, which any key opens.
Create(o) ==
    /\ pc[o] = "create"
    /\ db' = IF db = Absent THEN Empty ELSE db
    /\ Holds(o, key[o])
    /\ Goto(o, "finish")
    /\ UNCHANGED <<salt, cred, key, owners>>

Fits(k) == db \in {Empty, k}

\* Mutants: a legacy vault is used as it is; a machine-keyed vault is moved to
\* the passphrase.
TryWithoutRekey(o) ==
    /\ pc[o] = "try" /\ Fits(key[o])
    /\ Holds(o, key[o])
    /\ Goto(o, "finish")
    /\ UNCHANGED <<db, salt, cred, key, owners>>

TryAdopting(o) ==
    /\ pc[o] = "try" /\ Fits(key[o])
    /\ Holds(o, key[o])
    /\ Goto(o, IF key[o].kind = "sha256" \/ (key[o] = Machine /\ cred[o] # NoPassphrase)
               THEN "salt" ELSE IF key[o] = Siphash THEN "rekey" ELSE "finish")
    /\ Derived(o, IF key[o] = Siphash THEN Machine ELSE key[o])
    /\ UNCHANGED <<db, salt, cred, owners>>

\* The key opens the vault: a current one is used, a legacy one replaced.
TryFits(o) ==
    /\ pc[o] = "try" /\ Fits(key[o])
    /\ Holds(o, key[o])
    /\ Goto(o, IF key[o].kind = "sha256" THEN "salt"
               ELSE IF key[o] = Siphash THEN "rekey" ELSE "finish")
    /\ Derived(o, IF key[o] = Siphash THEN Machine ELSE key[o])
    /\ UNCHANGED <<db, salt, cred, owners>>

\* The next key on the list, or the open fails.
TryNext(o) ==
    /\ pc[o] = "try" /\ ~Fits(key[o])
    /\ IF key[o] = Siphash
       THEN Goto(o, "closed") /\ UNCHANGED key
       ELSE /\ Derived(o, IF key[o].kind = "argon2id" THEN Sha256(cred[o])
                          ELSE IF key[o].kind = "sha256" THEN Machine ELSE Siphash)
            /\ UNCHANGED pc
    /\ UNCHANGED <<db, salt, cred, held, owners>>

\* PRAGMA rekey is atomic; it fails if the pages no longer fit the old key.
Rekey(o) ==
    /\ pc[o] = "rekey" /\ db = held[o]
    /\ db' = key[o]
    /\ Holds(o, key[o])
    /\ Goto(o, "finish")
    /\ UNCHANGED <<salt, cred, key, owners>>

\* finish_open: its first write encrypts an empty file with the key.
FirstWrite(o) ==
    /\ pc[o] = "finish" /\ Fits(held[o])
    /\ db' = held[o]
    /\ Goto(o, "setup")
    /\ UNCHANGED <<salt, cred, key, held, owners>>

Opened(o) ==
    /\ pc[o] = "setup" /\ db = held[o]
    /\ owners' = owners \cup {cred[o]}
    /\ Goto(o, "open")
    /\ UNCHANGED <<db, salt, cred, key, held>>

\* An open fails or its process dies anywhere; an open vault is closed.
Leave(o) ==
    /\ pc[o] # "closed"
    /\ Goto(o, "closed")
    /\ UNCHANGED <<db, salt, cred, key, held, owners>>

-----------------------------------------------------------------------------
Step(o) ==
    \/ FindSalt(o) \/ WriteSalt(o) \/ FillSalt(o) \/ Derive(o) \/ Create(o)
    \/ TryFits(o) \/ TryNext(o) \/ Rekey(o) \/ FirstWrite(o) \/ Opened(o) \/ Leave(o)

Next == \E o \in Openers : Step(o) \/ \E c \in Credentials : Begin(o, c)

Spec == Init /\ [][Next]_vars

-----------------------------------------------------------------------------
\* Whoever has opened the vault can open it again: whatever attempts failed or
\* were cut short since, in the middle of a rekey included, its key is one
\* that an open with the same credential tries.
OwnersReopen ==
    (\A o \in Openers : pc[o] \in {"closed", "open"}) =>
        \A c \in owners : db \in Tried(c)

\* An open connection holds the key the file is encrypted with, and it is not
\* a legacy one: later opens do not rekey under it.
OpenIsKeyed == \A o \in Openers : pc[o] = "open" => held[o] = db /\ db \in Current

\* A passphrase given for a machine-keyed vault leaves its encryption alone.
MachineKeyKept == [][db = Machine => db' = Machine]_vars

=============================================================================
