-------------------------- MODULE VaultOpenProofs --------------------------
(***************************************************************************)
(* Proofs about VaultOpen: for any passphrases, salts and openers.         *)
(***************************************************************************)
EXTENDS VaultOpen, TLAPS

\* What tells the keys apart.
LEMMA Kinds ==
    /\ Absent.kind = "absent" /\ Empty.kind = "empty" /\ NoKey.kind = "no key"
    /\ Machine.kind = "machine" /\ Siphash.kind = "siphash"
    /\ \A p : Sha256(p).kind = "sha256"
    /\ \A p, s : Argon2id(p, s).kind = "argon2id"
BY DEF Absent, Empty, NoKey, Machine, Siphash, Plain, Sha256, Argon2id

LEMMA Sha256Injective == \A p, q : Sha256(p) = Sha256(q) => p = q
<1> TAKE p, q
<1>1. Sha256(p).pass = p /\ Sha256(q).pass = q
  BY DEF Sha256
<1> QED
  BY <1>1

\* Current keys, legacy keys and the file without a key are apart.
LEMMA CurrentKinds ==
    ASSUME NEW k \in Current
    PROVE  k = Machine \/ k.kind = "argon2id"
<1>1. CASE k # Machine
  <2>1. PICK p \in Passphrases, s \in Salts \cup {"fixed"} : k = Argon2id(p, s)
    BY <1>1 DEF Current
  <2> QED
    BY <2>1, Kinds
<1> QED
  BY <1>1

LEMMA LegacyKinds ==
    ASSUME NEW k \in Legacy
    PROVE  k = Siphash \/ k.kind = "sha256"
BY Kinds DEF Legacy

LEMMA Apart ==
    /\ Machine \in Current /\ Siphash \in Legacy /\ Siphash # Machine
    /\ \A k \in Current : k \notin Legacy /\ k \notin {Absent, Empty, NoKey}
    /\ \A k \in Legacy : k \notin {Absent, Empty, NoKey}
    /\ \A k \in Keys : k.kind = "sha256" => k \in Legacy
    /\ \A k \in Keys : k.kind # "sha256" /\ k # Siphash => k \in Current
    /\ NoKey.kind \notin {"sha256", "argon2id"}
<1>1. Machine \in Current /\ Siphash \in Legacy /\ Siphash # Machine
  <2>1. Machine \in Current
    BY DEF Current
  <2>2. Siphash \in Legacy
    BY DEF Legacy
  <2>3. Siphash # Machine
    BY DEF Siphash, Machine, Plain
  <2> QED
    BY <2>1, <2>2, <2>3
<1>2. ASSUME NEW k \in Current PROVE k \notin Legacy /\ k \notin {Absent, Empty, NoKey}
  <2>1. k.kind \in {"machine", "argon2id"}
    BY CurrentKinds, Kinds
  <2>2. \A l \in Legacy : l.kind \in {"siphash", "sha256"}
    BY LegacyKinds, Kinds
  <2> QED
    BY <2>1, <2>2, Kinds
<1>3. ASSUME NEW k \in Legacy PROVE k \notin {Absent, Empty, NoKey}
  BY Kinds, LegacyKinds
<1>4. ASSUME NEW k \in Keys
      PROVE  /\ k.kind = "sha256" => k \in Legacy
             /\ k.kind # "sha256" /\ k # Siphash => k \in Current
  BY Kinds, CurrentKinds, LegacyKinds DEF Keys
<1>5. NoKey.kind \notin {"sha256", "argon2id"}
  BY Kinds
<1> QED
  BY <1>1, <1>2, <1>3, <1>4, <1>5

LEMMA ArgonCurrent ==
    ASSUME NEW p \in Passphrases, NEW f
    PROVE  Argon2id(p, SaltOf(f)) \in Current
BY DEF Current, SaltOf

LEMMA ShaLegacy == ASSUME NEW p \in Passphrases PROVE Sha256(p) \in Legacy
BY DEF Legacy

-----------------------------------------------------------------------------
(***************************************************************************)
(* Types, and what an opener's next step says of its keys                  *)
(***************************************************************************)
Secret == {"salt", "write", "fill", "derive", "argon2id"}

\* Who works with a passphrase was given one; who works toward a rekey holds
\* a legacy key; who goes on to finish_open holds a current one.
KeysOf(o) ==
    /\ pc[o] \in Secret \/ key[o].kind \in {"argon2id", "sha256"} => cred[o] \in Passphrases
    /\ pc[o] = "try" => key[o] \in Keys
    /\ pc[o] \in Secret => held[o] \in Legacy \cup {NoKey}
    /\ pc[o] = "rekey" => held[o] \in Legacy /\ key[o] \in Current
    /\ pc[o] = "create" => key[o] \in Current
    /\ pc[o] \in {"finish", "setup"} => held[o] \in Current
    /\ pc[o] = "open" => held[o] = db /\ db \in Current

Keyed == TypeOK /\ \A o \in Openers : KeysOf(o)

LEMMA InitKeyed == Init => Keyed
<1> SUFFICES ASSUME Init PROVE Keyed
  OBVIOUS
<1>1. db \in Keys \cup {Absent, Empty}
  BY DEF Init, Keys, Current, Legacy
<1>2. TypeOK
  BY <1>1 DEF Init, TypeOK, Credentials
<1>3. ASSUME NEW o \in Openers PROVE KeysOf(o)
  BY <1>3, Apart DEF Init, KeysOf, Secret
<1> QED
  BY <1>2, <1>3 DEF Keyed

\* A step changes its own opener only, and what it does is one of these.
Moves(o, step, c, k, h) ==
    /\ pc' = [pc EXCEPT ![o] = step]
    /\ cred' = [cred EXCEPT ![o] = c]
    /\ key' = [key EXCEPT ![o] = k]
    /\ held' = [held EXCEPT ![o] = h]

LEMMA Moved ==
    ASSUME TypeOK, NEW o \in Openers, NEW step, NEW c, NEW k, NEW h, Moves(o, step, c, k, h)
    PROVE  /\ pc'[o] = step /\ cred'[o] = c /\ key'[o] = k /\ held'[o] = h
           /\ \A p \in Openers \ {o} : /\ pc'[p] = pc[p] /\ cred'[p] = cred[p]
                                       /\ key'[p] = key[p] /\ held'[p] = held[p]
BY DEF TypeOK, Moves

LEMMA Same ==
    ASSUME TypeOK, NEW o \in Openers
    PROVE  /\ pc = [pc EXCEPT ![o] = pc[o]] /\ cred = [cred EXCEPT ![o] = cred[o]]
           /\ key = [key EXCEPT ![o] = key[o]] /\ held = [held EXCEPT ![o] = held[o]]
BY DEF TypeOK

\* Each action as such a move.
LEMMA BeginMoves ==
    ASSUME TypeOK, NEW o \in Openers, NEW c \in Credentials, Begin(o, c)
    PROVE  /\ pc[o] = "closed" /\ UNCHANGED <<db, salt, owners>>
           /\ \/ c = NoPassphrase /\ db = Absent /\ Moves(o, "create", c, Machine, NoKey)
              \/ c = NoPassphrase /\ db # Absent /\ Moves(o, "try", c, Machine, NoKey)
              \/ c \in Passphrases /\ db = Absent /\ Moves(o, "salt", c, NoKey, NoKey)
              \/ c \in Passphrases /\ db # Absent /\ Moves(o, "argon2id", c, NoKey, NoKey)
BY PassphraseAssumption DEF Begin, Goto, Derived, Holds, Moves, Credentials

LEMMA SaltMoves ==
    ASSUME TypeOK, NEW o \in Openers, FindSalt(o) \/ WriteSalt(o) \/ FillSalt(o)
    PROVE  /\ pc[o] \in {"salt", "write", "fill"} /\ UNCHANGED <<db, owners>>
           /\ salt' \in Salts \cup {"none", "short"}
           /\ FindSalt(o) => salt' = salt
           /\ \E step \in {"write", "fill", "derive"} :
                Moves(o, step, cred[o], key[o], held[o])
<1>1. CASE FindSalt(o)
  BY <1>1, Same DEF FindSalt, WriteSalt, FillSalt, Goto, Moves, TypeOK
<1>2. CASE WriteSalt(o)
  BY <1>2, Same DEF FindSalt, WriteSalt, Goto, Moves, TypeOK
<1>3. CASE FillSalt(o)
  BY <1>3, Same DEF FindSalt, FillSalt, Goto, Moves, TypeOK
<1> QED
  BY <1>1, <1>2, <1>3

LEMMA DeriveMoves ==
    ASSUME TypeOK, NEW o \in Openers, Derive(o)
    PROVE  LET k == Argon2id(cred[o], SaltOf(salt)) IN
           /\ UNCHANGED <<db, salt, owners>>
           /\ \/ pc[o] = "argon2id" /\ Moves(o, "try", cred[o], k, held[o])
              \/ pc[o] = "derive" /\ held[o] = NoKey /\ Moves(o, "create", cred[o], k, held[o])
              \/ pc[o] = "derive" /\ held[o] # NoKey /\ Moves(o, "rekey", cred[o], k, held[o])
BY Same DEF Derive, Goto, Derived, Moves

LEMMA CreateMoves ==
    ASSUME TypeOK, NEW o \in Openers, Create(o)
    PROVE  /\ pc[o] = "create" /\ Moves(o, "finish", cred[o], key[o], key[o])
           /\ db' = IF db = Absent THEN Empty ELSE db
           /\ UNCHANGED <<salt, owners>>
BY Same DEF Create, Goto, Holds, Moves

LEMMA TryMoves ==
    ASSUME TypeOK, NEW o \in Openers, TryFits(o) \/ TryNext(o)
    PROVE  /\ pc[o] = "try" /\ UNCHANGED <<db, salt, owners>>
           /\ \/ /\ Fits(key[o]) /\ key[o].kind = "sha256"
                 /\ Moves(o, "salt", cred[o], key[o], key[o])
              \/ Fits(key[o]) /\ key[o] = Siphash /\ Moves(o, "rekey", cred[o], Machine, key[o])
              \/ /\ Fits(key[o]) /\ key[o] # Siphash /\ key[o].kind # "sha256"
                 /\ Moves(o, "finish", cred[o], key[o], key[o])
              \/ ~Fits(key[o]) /\ key[o] = Siphash /\ Moves(o, "closed", cred[o], key[o], held[o])
              \/ /\ ~Fits(key[o]) /\ key[o].kind = "argon2id"
                 /\ Moves(o, "try", cred[o], Sha256(cred[o]), held[o])
              \/ /\ ~Fits(key[o]) /\ key[o].kind = "sha256"
                 /\ Moves(o, "try", cred[o], Machine, held[o])
              \/ ~Fits(key[o]) /\ Moves(o, "try", cred[o], Siphash, held[o])
<1>1. CASE TryFits(o)
  BY <1>1, Same, Kinds DEF TryFits, Goto, Derived, Holds, Moves
<1>2. CASE TryNext(o)
  BY <1>2, Same, Kinds DEF TryNext, Goto, Derived, Moves
<1> QED
  BY <1>1, <1>2

LEMMA RekeyMoves ==
    ASSUME TypeOK, NEW o \in Openers, Rekey(o)
    PROVE  /\ pc[o] = "rekey" /\ Moves(o, "finish", cred[o], key[o], key[o])
           /\ db = held[o] /\ db' = key[o] /\ UNCHANGED <<salt, owners>>
BY Same DEF Rekey, Goto, Holds, Moves

LEMMA FinishMoves ==
    ASSUME TypeOK, NEW o \in Openers, FirstWrite(o) \/ Opened(o)
    PROVE  /\ UNCHANGED salt
           /\ \/ /\ pc[o] = "finish" /\ Fits(held[o]) /\ db' = held[o] /\ owners' = owners
                 /\ Moves(o, "setup", cred[o], key[o], held[o])
              \/ /\ pc[o] = "setup" /\ db = held[o] /\ db' = db
                 /\ owners' = owners \cup {cred[o]}
                 /\ Moves(o, "open", cred[o], key[o], held[o])
BY Same DEF FirstWrite, Opened, Goto, Moves

LEMMA LeaveMoves ==
    ASSUME TypeOK, NEW o \in Openers, Leave(o)
    PROVE  UNCHANGED <<db, salt, owners>> /\ Moves(o, "closed", cred[o], key[o], held[o])
BY Same DEF Leave, Goto, Moves

-----------------------------------------------------------------------------
LEMMA MovesTyped ==
    ASSUME TypeOK, NEW o \in Openers,
           NEW step \in {"closed", "salt", "write", "fill", "derive", "create", "argon2id",
                         "try", "rekey", "finish", "setup", "open"},
           NEW c \in Credentials, NEW k \in Keys \cup {NoKey}, NEW h \in Keys \cup {NoKey},
           Moves(o, step, c, k, h),
           db' \in Keys \cup {Absent, Empty}, salt' \in Salts \cup {"none", "short"},
           owners' \subseteq Credentials
    PROVE  TypeOK'
BY DEF TypeOK, Moves

\* What Keyed needs to know of a move: what it says of o, and that the key of
\* a file that is in use does not change.
LEMMA MovesKeyed ==
    ASSUME Keyed, NEW o \in Openers, NEW step, NEW c, NEW k, NEW h, Moves(o, step, c, k, h),
           TypeOK', db \in Current => db' = db,
           step \in Secret \/ k.kind \in {"argon2id", "sha256"} => c \in Passphrases,
           step = "try" => k \in Keys,
           step \in Secret => h \in Legacy \cup {NoKey},
           step = "rekey" => h \in Legacy /\ k \in Current,
           step = "create" => k \in Current,
           step \in {"finish", "setup"} => h \in Current,
           step = "open" => h = db' /\ db' \in Current
    PROVE  Keyed'
<1>1. TypeOK
  BY DEF Keyed
<1>2. KeysOf(o)'
  <2>1. pc'[o] = step /\ cred'[o] = c /\ key'[o] = k /\ held'[o] = h
    BY <1>1, Moved
  <2> QED
    BY <2>1 DEF KeysOf
<1>3. ASSUME NEW p \in Openers \ {o} PROVE KeysOf(p)'
  <2>1. pc'[p] = pc[p] /\ cred'[p] = cred[p] /\ key'[p] = key[p] /\ held'[p] = held[p]
    BY <1>1, Moved
  <2>2. KeysOf(p)
    BY DEF Keyed
  <2> QED
    BY <2>1, <2>2 DEF KeysOf
<1> QED
  BY <1>2, <1>3 DEF Keyed

LEMMA StepKeyed == Keyed /\ [Next]_vars => Keyed'
<1> SUFFICES ASSUME Keyed, [Next]_vars PROVE Keyed'
  OBVIOUS
<1>0. TypeOK /\ \A o \in Openers : KeysOf(o)
  BY DEF Keyed
<1>1. /\ Current \subseteq Keys /\ Legacy \subseteq Keys
      /\ db \in Keys \cup {Absent, Empty} /\ salt \in Salts \cup {"none", "short"}
      /\ owners \subseteq Credentials
  BY <1>0 DEF Keys, TypeOK
<1>2. ASSUME NEW o \in Openers
      PROVE  /\ cred[o] \in Credentials /\ key[o] \in Keys \cup {NoKey}
             /\ held[o] \in Keys \cup {NoKey} /\ KeysOf(o)
  BY <1>0 DEF TypeOK
<1>3. ASSUME NEW o \in Openers, NEW c \in Credentials, Begin(o, c) PROVE Keyed'
  <2>1. NoKey \in Keys \cup {NoKey} /\ Machine \in Current /\ Machine \in Keys
    BY <1>1, Apart
  <2>2. \E step \in {"create", "try", "salt", "argon2id"}, k \in {Machine, NoKey} :
          /\ Moves(o, step, c, k, NoKey)
          /\ step \in {"create", "try"} => k = Machine
          /\ step \in Secret => c \in Passphrases
    BY <1>0, <1>3, BeginMoves DEF Secret
  <2>3. PICK step \in {"create", "try", "salt", "argon2id"}, k \in {Machine, NoKey} :
          /\ Moves(o, step, c, k, NoKey)
          /\ step \in {"create", "try"} => k = Machine
          /\ step \in Secret => c \in Passphrases
    BY <2>2
  <2>4. UNCHANGED <<db, salt, owners>>
    BY <1>0, <1>3, BeginMoves
  <2>5. TypeOK'
    BY <1>0, <1>1, <2>1, <2>3, <2>4, MovesTyped
  <2>6. k.kind \notin {"argon2id", "sha256"}
    BY <2>3, Kinds
  <2> QED
    BY <2>1, <2>3, <2>4, <2>5, <2>6, MovesKeyed
<1>4. ASSUME NEW o \in Openers, FindSalt(o) \/ WriteSalt(o) \/ FillSalt(o) PROVE Keyed'
  <2>1. PICK step \in {"write", "fill", "derive"} : Moves(o, step, cred[o], key[o], held[o])
    BY <1>0, <1>4, SaltMoves
  <2>2. /\ pc[o] \in Secret /\ UNCHANGED <<db, owners>> /\ salt' \in Salts \cup {"none", "short"}
    BY <1>0, <1>4, SaltMoves DEF Secret
  <2>3. cred[o] \in Passphrases /\ held[o] \in Legacy \cup {NoKey}
    BY <1>2, <2>2 DEF KeysOf
  <2>4. TypeOK'
    BY <1>0, <1>1, <1>2, <2>1, <2>2, MovesTyped
  <2> QED
    BY <2>1, <2>2, <2>3, <2>4, MovesKeyed
<1>5. ASSUME NEW o \in Openers, Derive(o) PROVE Keyed'
  <2> DEFINE k == Argon2id(cred[o], SaltOf(salt))
  <2>1. PICK step \in {"try", "create", "rekey"} :
          /\ Moves(o, step, cred[o], k, held[o])
          /\ step = "rekey" => held[o] # NoKey
    BY <1>0, <1>5, DeriveMoves
  <2>2. pc[o] \in Secret /\ UNCHANGED <<db, salt, owners>>
    BY <1>0, <1>5, DeriveMoves DEF Secret
  <2>3. cred[o] \in Passphrases /\ held[o] \in Legacy \cup {NoKey}
    BY <1>2, <2>2 DEF KeysOf
  <2>4. k \in Current /\ k \in Keys
    BY <1>1, <2>3, ArgonCurrent
  <2>5. TypeOK'
    BY <1>0, <1>1, <1>2, <2>1, <2>2, <2>4, MovesTyped
  <2> QED
    BY <2>1, <2>2, <2>3, <2>4, <2>5, MovesKeyed DEF Secret
<1>6. ASSUME NEW o \in Openers, Create(o) PROVE Keyed'
  <2>1. /\ pc[o] = "create" /\ Moves(o, "finish", cred[o], key[o], key[o])
        /\ db' = IF db = Absent THEN Empty ELSE db
        /\ UNCHANGED <<salt, owners>>
    BY <1>0, <1>6, CreateMoves
  <2>2. key[o] \in Current /\ (key[o].kind \in {"argon2id", "sha256"} => cred[o] \in Passphrases)
    BY <1>2, <2>1 DEF KeysOf
  <2>3. db' \in Keys \cup {Absent, Empty} /\ (db \in Current => db' = db)
    BY <1>1, <2>1, Apart
  <2>4. TypeOK'
    BY <1>0, <1>1, <1>2, <2>1, <2>3, MovesTyped
  <2> QED
    BY <2>1, <2>2, <2>3, <2>4, MovesKeyed DEF Secret
<1>7. ASSUME NEW o \in Openers, TryFits(o) \/ TryNext(o) PROVE Keyed'
  <2>1. pc[o] = "try" /\ UNCHANGED <<db, salt, owners>>
    BY <1>0, <1>7, TryMoves
  <2>2. key[o] \in Keys /\ (key[o].kind \in {"argon2id", "sha256"} => cred[o] \in Passphrases)
    BY <1>2, <2>1 DEF KeysOf
  <2>3. /\ Machine \in Current /\ Machine \in Keys /\ Siphash \in Legacy /\ Siphash \in Keys
        /\ key[o].kind = "sha256" => key[o] \in Legacy
        /\ key[o].kind # "sha256" /\ key[o] # Siphash => key[o] \in Current
        /\ Machine.kind \notin {"argon2id", "sha256"} /\ Siphash.kind \notin {"argon2id", "sha256"}
    BY <1>1, <2>2, Apart, Kinds
  <2>4. CASE key[o].kind = "sha256" /\ Moves(o, "salt", cred[o], key[o], key[o])
    <3>1. TypeOK'
      BY <1>0, <1>1, <1>2, <2>1, <2>4, MovesTyped
    <3> QED
      BY <2>1, <2>2, <2>3, <2>4, <3>1, MovesKeyed DEF Secret
  <2>5. CASE key[o] = Siphash /\ Moves(o, "rekey", cred[o], Machine, key[o])
    <3>1. TypeOK'
      BY <1>0, <1>1, <1>2, <2>1, <2>3, <2>5, MovesTyped
    <3> QED
      BY <2>1, <2>2, <2>3, <2>5, <3>1, MovesKeyed DEF Secret
  <2>6. CASE key[o] # Siphash /\ key[o].kind # "sha256" /\ Moves(o, "finish", cred[o], key[o], key[o])
    <3>1. TypeOK'
      BY <1>0, <1>1, <1>2, <2>1, <2>6, MovesTyped
    <3> QED
      BY <2>1, <2>2, <2>3, <2>6, <3>1, MovesKeyed DEF Secret
  <2>7. CASE Moves(o, "closed", cred[o], key[o], held[o])
    <3>1. TypeOK'
      BY <1>0, <1>1, <1>2, <2>1, <2>7, MovesTyped
    <3> QED
      BY <2>1, <2>2, <2>7, <3>1, MovesKeyed DEF Secret
  <2>8. CASE \E k \in {Sha256(cred[o]), Machine, Siphash} :
               /\ Moves(o, "try", cred[o], k, held[o])
               /\ k = Sha256(cred[o]) => cred[o] \in Passphrases
    <3>1. PICK k \in {Sha256(cred[o]), Machine, Siphash} :
               /\ Moves(o, "try", cred[o], k, held[o])
               /\ k = Sha256(cred[o]) => cred[o] \in Passphrases
      BY <2>8
    <3>2. k \in Keys /\ (k.kind \in {"argon2id", "sha256"} => cred[o] \in Passphrases)
      BY <1>1, <2>3, <3>1, ShaLegacy
    <3>3. TypeOK'
      BY <1>0, <1>1, <1>2, <2>1, <3>1, <3>2, MovesTyped
    <3> QED
      BY <2>1, <3>1, <3>2, <3>3, MovesKeyed DEF Secret
  <2>9. Siphash # Sha256(cred[o]) /\ Machine # Sha256(cred[o])
    BY Kinds
  <2> QED
    BY <1>0, <1>7, <2>2, <2>4, <2>5, <2>6, <2>7, <2>8, <2>9, TryMoves
<1>8. ASSUME NEW o \in Openers, Rekey(o) PROVE Keyed'
  <2>1. /\ pc[o] = "rekey" /\ Moves(o, "finish", cred[o], key[o], key[o])
        /\ db = held[o] /\ db' = key[o] /\ UNCHANGED <<salt, owners>>
    BY <1>0, <1>8, RekeyMoves
  <2>2. /\ held[o] \in Legacy /\ key[o] \in Current
        /\ key[o].kind \in {"argon2id", "sha256"} => cred[o] \in Passphrases
    BY <1>2, <2>1 DEF KeysOf
  <2>3. db \notin Current /\ key[o] \in Keys
    BY <1>1, <2>1, <2>2, Apart
  <2>4. TypeOK'
    BY <1>0, <1>1, <1>2, <2>1, <2>3, MovesTyped
  <2> QED
    BY <2>1, <2>2, <2>3, <2>4, MovesKeyed DEF Secret
<1>9. ASSUME NEW o \in Openers, FirstWrite(o) \/ Opened(o) PROVE Keyed'
  <2>1. pc[o] \in {"finish", "setup"} /\ UNCHANGED salt
    BY <1>0, <1>9, FinishMoves
  <2>2. /\ held[o] \in Current /\ held[o] \in Keys
        /\ key[o].kind \in {"argon2id", "sha256"} => cred[o] \in Passphrases
    BY <1>1, <1>2, <2>1 DEF KeysOf
  <2>3. CASE /\ Fits(held[o]) /\ db' = held[o] /\ owners' = owners
             /\ Moves(o, "setup", cred[o], key[o], held[o])
    <3>1. db \in Current => db' = db
      BY <2>3, Apart DEF Fits
    <3>2. TypeOK'
      BY <1>0, <1>1, <1>2, <2>1, <2>2, <2>3, MovesTyped
    <3> QED
      BY <2>2, <2>3, <3>1, <3>2, MovesKeyed DEF Secret
  <2>4. CASE /\ db = held[o] /\ db' = db /\ owners' = owners \cup {cred[o]}
             /\ Moves(o, "open", cred[o], key[o], held[o])
    <3>1. TypeOK'
      BY <1>0, <1>1, <1>2, <2>1, <2>4, MovesTyped
    <3> QED
      BY <2>2, <2>4, <3>1, MovesKeyed DEF Secret
  <2> QED
    BY <1>0, <1>9, <2>3, <2>4, FinishMoves
<1>10. ASSUME NEW o \in Openers, Leave(o) PROVE Keyed'
  <2>1. UNCHANGED <<db, salt, owners>> /\ Moves(o, "closed", cred[o], key[o], held[o])
    BY <1>0, <1>10, LeaveMoves
  <2>2. key[o].kind \in {"argon2id", "sha256"} => cred[o] \in Passphrases
    BY <1>2 DEF KeysOf
  <2>3. TypeOK'
    BY <1>0, <1>1, <1>2, <2>1, MovesTyped
  <2> QED
    BY <2>1, <2>2, <2>3, MovesKeyed DEF Secret
<1>11. CASE UNCHANGED vars
  BY <1>11 DEF Keyed, TypeOK, KeysOf, vars, local
<1> QED
  BY <1>3, <1>4, <1>5, <1>6, <1>7, <1>8, <1>9, <1>10, <1>11 DEF Next, Step

\* The vault and its openers stay of their kinds.
THEOREM TypeCorrect == Spec => []TypeOK
<1>1. Keyed => TypeOK
  BY DEF Keyed
<1> QED
  BY <1>1, InitKeyed, StepKeyed, PTL DEF Spec

\* However many processes open the vault at once, an open connection holds
\* the key of the file, and it is a current one.
THEOREM StaysKeyed == Spec => []OpenIsKeyed
<1>1. Keyed => OpenIsKeyed
  BY DEF Keyed, KeysOf, OpenIsKeyed
<1> QED
  BY <1>1, InitKeyed, StepKeyed, PTL DEF Spec

LEMMA CurrentStays == Keyed /\ [Next]_vars => (db \in Current => db' = db)
<1> SUFFICES ASSUME Keyed, [Next]_vars, db \in Current PROVE db' = db
  OBVIOUS
<1>1. ASSUME NEW o \in Openers, Rekey(o) PROVE FALSE
  <2>1. KeysOf(o)
    BY DEF Keyed
  <2> QED
    BY <1>1, <2>1, Apart DEF Rekey, KeysOf
<1>2. ASSUME NEW o \in Openers, Create(o) \/ FirstWrite(o) PROVE db' = db
  BY <1>2, Apart DEF Create, FirstWrite, Fits
<1> QED
  BY <1>1, <1>2 DEF Next, Step, Begin, FindSalt, WriteSalt, FillSalt, Derive, TryFits, TryNext,
     Opened, Leave, vars

\* A machine-keyed vault stays machine-keyed, whatever it is opened with.
THEOREM MachineKept == Spec => MachineKeyKept
<1>1. Keyed /\ [Next]_vars => [db = Machine => db' = Machine]_vars
  BY CurrentStays, Apart
<1> QED
  BY <1>1, InitKeyed, StepKeyed, PTL DEF Spec, MachineKeyKept

-----------------------------------------------------------------------------
(***************************************************************************)
(* With one process at a time in open: the salt file changes only before   *)
(* a key is derived from it.                                               *)
(***************************************************************************)
Quiet(o) == \A p \in Openers \ {o} : pc[p] \in {"closed", "open"}
Alone == \A o \in Openers : pc[o] \notin {"closed", "open"} => Quiet(o)

Path(o) ==
    /\ pc[o] \in {"salt", "write", "fill", "derive"} =>
          \/ held[o] = NoKey /\ db = Absent
          \/ held[o] = Sha256(cred[o]) /\ db \in {Empty, held[o]}
    /\ pc[o] \in {"try", "create"} => key[o] \in Tried(cred[o])
    /\ pc[o] = "rekey" => \/ held[o] = Siphash /\ key[o] = Machine
                          \/ held[o] = Sha256(cred[o]) /\ key[o] \in Tried(cred[o])
    /\ pc[o] \in {"finish", "setup"} => held[o] \in Tried(cred[o])

Unused == db \in {Absent, Empty} => owners = {}
Reopen == db \notin {Absent, Empty} => \A c \in owners : db \in Tried(c)

IInv == Keyed /\ Alone /\ Unused /\ Reopen /\ \A o \in Openers : Path(o)

\* A legacy passphrase key opens for one passphrase only, whatever the salt.
LEMMA ShaTried ==
    ASSUME NEW p, NEW c, Sha256(p) \in Tried(c)
    PROVE  c = p /\ c # NoPassphrase
<1>1. Sha256(p) # Machine /\ Sha256(p) # Siphash /\ \A s : Sha256(p) # Argon2id(c, s)
  BY Kinds
<1>2. c # NoPassphrase /\ Sha256(p) \in {Argon2id(c, SaltOf(salt)), Sha256(c)}
  BY <1>1 DEF Tried
<1> QED
  BY <1>1, <1>2, Sha256Injective

LEMMA KindTried ==
    ASSUME NEW c, NEW k \in Tried(c), k.kind = "sha256"
    PROVE  k = Sha256(c)
<1>1. k # Machine /\ k # Siphash /\ \A s : k # Argon2id(c, s)
  BY Kinds
<1> QED
  BY <1>1 DEF Tried

LEMMA InitInvariant == Init => IInv
<1> SUFFICES ASSUME Init PROVE IInv
  OBVIOUS
<1>1. Keyed
  BY InitKeyed
<1>2. Alone /\ \A o \in Openers : Path(o)
  BY DEF Init, Alone, Path, Quiet
<1>3. Unused
  <2>1. CASE db \in Keys
    BY <2>1, Apart DEF Unused, Keys
  <2>2. CASE db \notin Keys
    BY <2>2 DEF Init, Unused, Keys, Current, Legacy
  <2> QED
    BY <2>1, <2>2
<1>4. Reopen
  <2>1. CASE db = Absent
    BY <2>1 DEF Reopen
  <2>2. CASE db \in {Machine, Siphash}
    BY <2>2 DEF Reopen, Tried
  <2>3. CASE \E p \in Passphrases : /\ db \in {Sha256(p), Argon2id(p, "fixed")}
                                     /\ salt = "none" /\ owners = {p}
    BY <2>3, PassphraseAssumption, SaltAssumption DEF Reopen, Tried, SaltOf
  <2>4. CASE \E p \in Passphrases, s \in Salts : db = Argon2id(p, s) /\ salt = s /\ owners = {p}
    BY <2>4, PassphraseAssumption DEF Reopen, Tried, SaltOf
  <2> QED
    BY <2>1, <2>2, <2>3, <2>4 DEF Init
<1> QED
  BY <1>1, <1>2, <1>3, <1>4 DEF IInv

\* Nobody else is opening, so a move keeps IInv if it keeps what IInv says of
\* the vault and of the opener itself.
LEMMA MovesInvariant ==
    ASSUME TypeOK, NEW o \in Openers, Quiet(o), NEW step, NEW c, NEW k, NEW h,
           Moves(o, step, c, k, h), Keyed', Unused', Reopen', Path(o)'
    PROVE  IInv'
<1>1. \A p \in Openers \ {o} : pc'[p] \in {"closed", "open"}
  BY Moved DEF Quiet
<1>2. Alone'
  BY <1>1 DEF Alone, Quiet
<1>3. \A p \in Openers \ {o} : Path(p)'
  BY <1>1 DEF Path
<1> QED
  BY <1>2, <1>3 DEF IInv

LEMMA VaultSame ==
    ASSUME UNCHANGED <<db, salt, owners>>
    PROVE  /\ Unused => Unused'
           /\ Reopen => Reopen'
           /\ \A c : Tried(c)' = Tried(c)
BY DEF Unused, Reopen, Tried

-----------------------------------------------------------------------------
LEMMA StepInvariant == Exclusive /\ IInv /\ [Next]_vars => IInv'
<1> SUFFICES ASSUME Exclusive, IInv, [Next]_vars PROVE IInv'
  OBVIOUS
<1>0. TypeOK /\ Keyed /\ Alone /\ Unused /\ Reopen /\ \A o \in Openers : KeysOf(o) /\ Path(o)
  BY DEF IInv, Keyed
<1>1. Keyed'
  BY <1>0, StepKeyed
<1>2. ASSUME NEW o \in Openers, pc[o] \notin {"closed", "open"} PROVE Quiet(o)
  BY <1>0, <1>2 DEF Alone
<1>3. ASSUME NEW o \in Openers, NEW c \in Credentials, Begin(o, c) PROVE IInv'
  <2>1. Quiet(o)
    BY <1>3 DEF Begin, Quiet
  <2>2. UNCHANGED <<db, salt, owners>>
    BY <1>0, <1>3, BeginMoves
  <2>3. PICK step \in {"create", "try", "salt", "argon2id"}, k \in {Machine, NoKey} :
          /\ Moves(o, step, c, k, NoKey)
          /\ step \in {"create", "try"} => k = Machine
          /\ step = "salt" => db = Absent
    BY <1>0, <1>3, BeginMoves
  <2>4. pc'[o] = step /\ cred'[o] = c /\ key'[o] = k /\ held'[o] = NoKey
    BY <1>0, <2>3, Moved
  <2>5. Path(o)'
    BY <2>2, <2>3, <2>4 DEF Path, Tried
  <2> QED
    BY <1>0, <1>1, <2>1, <2>2, <2>3, <2>5, VaultSame, MovesInvariant
<1>4. ASSUME NEW o \in Openers, FindSalt(o) \/ WriteSalt(o) \/ FillSalt(o) PROVE IInv'
  <2>1. PICK step \in {"write", "fill", "derive"} : Moves(o, step, cred[o], key[o], held[o])
    BY <1>0, <1>4, SaltMoves
  <2>2. pc[o] \in {"salt", "write", "fill"} /\ UNCHANGED <<db, owners>>
    BY <1>0, <1>4, SaltMoves
  <2>3. \/ held[o] = NoKey /\ db = Absent
        \/ held[o] = Sha256(cred[o]) /\ db \in {Empty, held[o]}
    BY <1>0, <2>2 DEF Path
  <2>4. pc'[o] = step /\ cred'[o] = cred[o] /\ held'[o] = held[o]
    BY <1>0, <2>1, Moved
  <2>5. Path(o)'
    BY <2>1, <2>2, <2>3, <2>4 DEF Path
  <2>6. Unused'
    BY <1>0, <2>2 DEF Unused
  <2>7. Reopen'
    <3>1. CASE db \in {Absent, Empty}
      BY <2>2, <3>1 DEF Reopen
    <3>2. CASE db = Sha256(cred[o]) /\ db \notin {Absent, Empty}
      <4>1. ASSUME NEW c \in owners PROVE Sha256(cred[o]) \in Tried(c)'
        <5>1. c = cred[o] /\ c # NoPassphrase
          BY <1>0, <3>2, <4>1, ShaTried DEF Reopen
        <5> QED
          BY <5>1 DEF Tried
      <4> QED
        BY <2>2, <3>2, <4>1 DEF Reopen
    <3> QED
      BY <2>3, <3>1, <3>2
  <2> QED
    BY <1>0, <1>1, <1>2, <2>1, <2>2, <2>5, <2>6, <2>7, MovesInvariant
<1>5. ASSUME NEW o \in Openers, Derive(o) PROVE IInv'
  <2> DEFINE k == Argon2id(cred[o], SaltOf(salt))
  <2>1. PICK step \in {"try", "create", "rekey"} :
          /\ Moves(o, step, cred[o], k, held[o])
          /\ step = "rekey" => held[o] # NoKey /\ pc[o] = "derive"
    BY <1>0, <1>5, DeriveMoves
  <2>2. pc[o] \in {"argon2id", "derive"} /\ UNCHANGED <<db, salt, owners>>
    BY <1>0, <1>5, DeriveMoves
  <2>3. cred[o] # NoPassphrase
    BY <1>0, <2>2, PassphraseAssumption DEF KeysOf, Secret
  <2>4. k \in Tried(cred[o])
    BY <2>3 DEF Tried
  <2>5. pc'[o] = step /\ cred'[o] = cred[o] /\ key'[o] = k /\ held'[o] = held[o]
    BY <1>0, <2>1, Moved
  <2>6. step = "rekey" => held[o] = Sha256(cred[o])
    BY <1>0, <2>1 DEF Path
  <2>7. Path(o)'
    BY <2>1, <2>2, <2>4, <2>5, <2>6, VaultSame DEF Path
  <2> QED
    BY <1>0, <1>1, <1>2, <2>1, <2>2, <2>7, VaultSame, MovesInvariant
<1>6. ASSUME NEW o \in Openers, Create(o) PROVE IInv'
  <2>1. /\ pc[o] = "create" /\ Moves(o, "finish", cred[o], key[o], key[o])
        /\ db' = IF db = Absent THEN Empty ELSE db
        /\ UNCHANGED <<salt, owners>>
    BY <1>0, <1>6, CreateMoves
  <2>2. pc'[o] = "finish" /\ cred'[o] = cred[o] /\ held'[o] = key[o]
    BY <1>0, <2>1, Moved
  <2>3. Unused' /\ Reopen'
    BY <1>0, <2>1 DEF Unused, Reopen, Tried
  <2>4. Path(o)'
    BY <1>0, <2>1, <2>2 DEF Path, Tried
  <2> QED
    BY <1>0, <1>1, <1>2, <2>1, <2>3, <2>4, MovesInvariant
<1>7. ASSUME NEW o \in Openers, TryFits(o) \/ TryNext(o) PROVE IInv'
  <2>1. pc[o] = "try" /\ UNCHANGED <<db, salt, owners>> /\ Quiet(o)
    BY <1>0, <1>2, <1>7, TryMoves
  <2>2. /\ key[o] \in Tried(cred[o])
        /\ key[o].kind \in {"argon2id", "sha256"} => cred[o] # NoPassphrase
    BY <1>0, <2>1, PassphraseAssumption DEF Path, KeysOf
  <2>3. Unused' /\ Reopen' /\ \A c : Tried(c)' = Tried(c)
    BY <1>0, <2>1, VaultSame
  <2>4. CASE /\ Fits(key[o]) /\ key[o].kind = "sha256"
             /\ Moves(o, "salt", cred[o], key[o], key[o])
    <3>1. pc'[o] = "salt" /\ cred'[o] = cred[o] /\ held'[o] = key[o]
      BY <1>0, <2>4, Moved
    <3>2. key[o] = Sha256(cred[o])
      BY <2>2, <2>4, KindTried
    <3>3. Path(o)'
      BY <2>1, <2>4, <3>1, <3>2 DEF Path, Fits
    <3> QED
      BY <1>0, <1>1, <2>1, <2>3, <2>4, <3>3, MovesInvariant
  <2>5. CASE key[o] = Siphash /\ Moves(o, "rekey", cred[o], Machine, key[o])
    <3>1. pc'[o] = "rekey" /\ key'[o] = Machine /\ held'[o] = key[o]
      BY <1>0, <2>5, Moved
    <3>2. Path(o)'
      BY <2>5, <3>1 DEF Path
    <3> QED
      BY <1>0, <1>1, <2>1, <2>3, <2>5, <3>2, MovesInvariant
  <2>6. CASE Moves(o, "finish", cred[o], key[o], key[o])
    <3>1. pc'[o] = "finish" /\ cred'[o] = cred[o] /\ held'[o] = key[o]
      BY <1>0, <2>6, Moved
    <3>2. Path(o)'
      BY <2>2, <2>3, <3>1 DEF Path
    <3> QED
      BY <1>0, <1>1, <2>1, <2>3, <2>6, <3>2, MovesInvariant
  <2>7. CASE Moves(o, "closed", cred[o], key[o], held[o])
    <3>1. pc'[o] = "closed"
      BY <1>0, <2>7, Moved
    <3>2. Path(o)'
      BY <3>1 DEF Path
    <3> QED
      BY <1>0, <1>1, <2>1, <2>3, <2>7, <3>2, MovesInvariant
  <2>8. CASE \E k \in Tried(cred[o]) : Moves(o, "try", cred[o], k, held[o])
    <3>1. PICK k \in Tried(cred[o]) : Moves(o, "try", cred[o], k, held[o])
      BY <2>8
    <3>2. pc'[o] = "try" /\ cred'[o] = cred[o] /\ key'[o] = k
      BY <1>0, <3>1, Moved
    <3>3. Path(o)'
      BY <2>3, <3>1, <3>2 DEF Path
    <3> QED
      BY <1>0, <1>1, <2>1, <2>3, <3>1, <3>3, MovesInvariant
  <2>9. /\ Machine \in Tried(cred[o]) /\ Siphash \in Tried(cred[o])
        /\ key[o].kind = "argon2id" => Sha256(cred[o]) \in Tried(cred[o])
    BY <2>2 DEF Tried
  <2> QED
    BY <1>0, <1>7, <2>4, <2>5, <2>6, <2>7, <2>8, <2>9, TryMoves
<1>8. ASSUME NEW o \in Openers, Rekey(o) PROVE IInv'
  <2>1. /\ pc[o] = "rekey" /\ Moves(o, "finish", cred[o], key[o], key[o])
        /\ db = held[o] /\ db' = key[o] /\ UNCHANGED <<salt, owners>>
    BY <1>0, <1>8, RekeyMoves
  <2>2. \/ held[o] = Siphash /\ key[o] = Machine
        \/ held[o] = Sha256(cred[o]) /\ key[o] \in Tried(cred[o])
    BY <1>0, <2>1 DEF Path
  <2>3. key[o] \in Tried(cred[o]) /\ \A c : Tried(c)' = Tried(c)
    BY <2>1, <2>2 DEF Tried
  <2>4. held[o] \in Legacy /\ key[o] \in Current
    BY <1>0, <2>1 DEF KeysOf
  <2>5. ASSUME NEW c \in owners PROVE key[o] \in Tried(c)
    <3>1. CASE key[o] = Machine
      BY <3>1 DEF Tried
    <3>2. CASE held[o] = Sha256(cred[o])
      <4>1. held[o] \in Tried(c)
        BY <1>0, <2>1, <2>4, Apart DEF Reopen
      <4>2. c = cred[o]
        BY <3>2, <4>1, ShaTried
      <4> QED
        BY <2>3, <4>2
    <3> QED
      BY <2>2, <3>1, <3>2
  <2>6. Reopen' /\ Unused'
    BY <2>1, <2>3, <2>4, <2>5, Apart DEF Reopen, Unused
  <2>7. pc'[o] = "finish" /\ cred'[o] = cred[o] /\ held'[o] = key[o]
    BY <1>0, <2>1, Moved
  <2>8. Path(o)'
    BY <2>3, <2>7 DEF Path
  <2> QED
    BY <1>0, <1>1, <1>2, <2>1, <2>6, <2>8, MovesInvariant
<1>9. ASSUME NEW o \in Openers, FirstWrite(o) \/ Opened(o) PROVE IInv'
  <2>1. pc[o] \in {"finish", "setup"} /\ UNCHANGED salt
    BY <1>0, <1>9, FinishMoves
  <2>2. held[o] \in Current /\ held[o] \in Tried(cred[o]) /\ held[o] \notin {Absent, Empty}
    BY <1>0, <2>1, Apart DEF KeysOf, Path
  <2>3. \A c : Tried(c)' = Tried(c)
    BY <2>1 DEF Tried
  <2>4. CASE /\ Fits(held[o]) /\ db' = held[o] /\ owners' = owners
             /\ Moves(o, "setup", cred[o], key[o], held[o])
    <3>1. Unused' /\ Reopen'
      BY <1>0, <2>2, <2>3, <2>4 DEF Unused, Reopen, Fits
    <3>2. pc'[o] = "setup" /\ cred'[o] = cred[o] /\ held'[o] = held[o]
      BY <1>0, <2>4, Moved
    <3>3. Path(o)'
      BY <2>2, <2>3, <3>2 DEF Path
    <3> QED
      BY <1>0, <1>1, <1>2, <2>1, <2>4, <3>1, <3>3, MovesInvariant
  <2>5. CASE /\ db = held[o] /\ db' = db /\ owners' = owners \cup {cred[o]}
             /\ Moves(o, "open", cred[o], key[o], held[o])
    <3>1. Unused' /\ Reopen'
      BY <1>0, <2>2, <2>3, <2>5 DEF Unused, Reopen
    <3>2. pc'[o] = "open"
      BY <1>0, <2>5, Moved
    <3>3. Path(o)'
      BY <3>2 DEF Path
    <3> QED
      BY <1>0, <1>1, <1>2, <2>1, <2>5, <3>1, <3>3, MovesInvariant
  <2> QED
    BY <1>0, <1>9, <2>4, <2>5, FinishMoves
<1>10. ASSUME NEW o \in Openers, Leave(o) PROVE IInv'
  <2>1. UNCHANGED <<db, salt, owners>> /\ Moves(o, "closed", cred[o], key[o], held[o])
    BY <1>0, <1>10, LeaveMoves
  <2>2. \A p \in Openers \ {o} : /\ pc'[p] = pc[p] /\ cred'[p] = cred[p]
                                 /\ key'[p] = key[p] /\ held'[p] = held[p]
    BY <1>0, <2>1, Moved
  <2>3. pc'[o] = "closed"
    BY <1>0, <2>1, Moved
  <2>4. Unused' /\ Reopen' /\ \A c : Tried(c)' = Tried(c)
    BY <1>0, <2>1, VaultSame
  <2>5. Alone'
    BY <1>0, <2>2, <2>3 DEF Alone, Quiet
  <2>6. ASSUME NEW p \in Openers PROVE Path(p)'
    <3>1. CASE p = o
      BY <2>3, <3>1 DEF Path
    <3>2. CASE p # o
      <4>1. /\ pc'[p] = pc[p] /\ cred'[p] = cred[p] /\ key'[p] = key[p] /\ held'[p] = held[p]
            /\ db' = db /\ Path(p)
        BY <1>0, <2>1, <2>2, <3>2
      <4> QED
        BY <2>4, <4>1 DEF Path
    <3> QED
      BY <3>1, <3>2
  <2> QED
    BY <1>1, <2>4, <2>5, <2>6 DEF IInv
<1>11. CASE UNCHANGED vars
  <2>1. Unused' /\ Reopen' /\ Alone' /\ \A c : Tried(c)' = Tried(c)
    BY <1>0, <1>11, VaultSame DEF vars, local, Alone, Quiet
  <2>2. ASSUME NEW p \in Openers PROVE Path(p)'
    BY <1>0, <1>11, <2>1 DEF Path, vars, local
  <2> QED
    BY <1>1, <2>1, <2>2 DEF IInv
<1> QED
  BY <1>3, <1>4, <1>5, <1>6, <1>7, <1>8, <1>9, <1>10, <1>11 DEF Next, Step

\* If no process opens the vault while another one is opening it, whoever has
\* opened it can open it again, whatever was cut short in between.
THEOREM Reopens == ASSUME Exclusive PROVE Spec => []OwnersReopen
<1>1. IInv => OwnersReopen
  <2> SUFFICES ASSUME IInv PROVE \A c \in owners : db \in Tried(c)
    BY DEF OwnersReopen
  <2> QED
    BY DEF IInv, Unused, Reopen
<1>2. IInv /\ [Next]_vars => IInv'
  BY StepInvariant
<1> QED
  BY <1>1, <1>2, InitInvariant, PTL DEF Spec

=============================================================================
