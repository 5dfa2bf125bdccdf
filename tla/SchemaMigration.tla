-------------------------- MODULE SchemaMigration --------------------------
(***************************************************************************)
(* finish_open of src/src/store.rs and migrate of src/src/schema.rs: a     *)
(* vault of any age is brought to the current schema, block by block, each *)
(* time it is opened.                                                      *)
(*                                                                         *)
(* migrate reads user_version once.  The blocks v1, v2, v3 and v7 run if   *)
(* that number was below theirs; the others always run and ensure what     *)
(* they add.  Each block is one transaction, hence one action, and each of *)
(* them stamps the newest version.  Between two of them the process may    *)
(* die, a statement may fail, another process may be at work.  The two     *)
(* table swaps turn foreign keys off before their transaction and back on  *)
(* after it.                                                               *)
(*                                                                         *)
(* Abstracted: a timestamp is created_at (1), a later edit (2) or NULL     *)
(* (0); content_hash and agent_id are NULL (0) or not (1); "scope" stands  *)
(* for the three columns of v1; the SQL indexes are left out.              *)
(***************************************************************************)
EXTENDS Naturals, FiniteSets

CONSTANTS
    Ids,       \* memory ids
    Openers,   \* processes that open the vault
    Versions,  \* user_version of the vaults they find
    Exclusive, \* no process begins to open while another one is migrating
    MaxRowid   \* bound: SQLite rowids

Current == 10

ASSUME VersionsAssumption == Versions \subseteq 0..Current
ASSUME ExclusiveAssumption == Exclusive \in BOOLEAN
ASSUME RowidAssumption == MaxRowid \in Nat

VARIABLES
    version,  \* user_version in the database file
    columns,  \* the later columns that table engrams has
    sources,  \* which CHECK on source the table has, "none": no table yet
    triggers, \* the FTS triggers that exist
    engrams,  \* id -> row, NoRow where there is none
    fts,      \* table engrams_fts: set of [rowid, id]
    links,    \* table engram_links
    pc,       \* opener -> the block it executes next
    seen,     \* opener -> the user_version it has read
    keys      \* opener -> foreign keys on its connection

vault == <<version, columns, sources, triggers, engrams, fts, links>>
vars == <<vault, pc, seen, keys>>

Columns == {"scope", "content_hash", "modified_at", "synced_at", "agent_id"}
Sources == {"none", "first", "ai", "chat"}
Triggers == {"engrams_ai", "engrams_ad", "engrams_au"}
NoRow == [rowid |-> 0, hash |-> 0, modified |-> 0, synced |-> 0, agent |-> 0]
Row == [rowid: 1..MaxRowid, hash: 0..1, modified: 0..2, synced: 0..2, agent: 0..1]
Blocks == {"v1", "v2", "v3", "v4", "v5", "v6", "v7", "tables", "v10"}
Migrating == {"read"} \cup Blocks

\* Whether the connection enforces foreign keys; whether it did before the
\* table swap it is in (fk_was_on); and how far that swap is.
Keys == [on: BOOLEAN, were: BOOLEAN, swap: {"none", "begun", "over"}]
NoKeys == [on |-> FALSE, were |-> FALSE, swap |-> "none"]

\* The file and its openers hold values of their kinds.
TypeOK ==
    /\ version \in 0..Current
    /\ columns \subseteq Columns
    /\ sources \in Sources
    /\ triggers \subseteq Triggers
    /\ engrams \in [Ids -> Row \cup {NoRow}]
    /\ fts \subseteq [rowid: 1..MaxRowid, id: Ids]
    /\ links \subseteq Ids \X Ids
    /\ pc \in [Openers -> {"closed", "open"} \cup Migrating]
    /\ seen \in [Openers -> 0..Current]
    /\ keys \in [Openers -> Keys]

LiveIds == {i \in Ids : engrams[i].rowid # 0}

\* What the index must hold for the rows of table t.
Index(t) == {[rowid |-> t[i].rowid, id |-> i] : i \in {j \in Ids : t[j].rowid # 0}}

-----------------------------------------------------------------------------
(***************************************************************************)
(* The vaults that exist: a fresh directory, and what each released        *)
(* version of the program left behind.                                     *)
(***************************************************************************)
ColumnsAt(v) ==
    {c \in Columns : \/ c = "scope" /\ v >= 1
                     \/ c = "content_hash" /\ v >= 4
                     \/ c = "modified_at" /\ v >= 5
                     \/ c = "synced_at" /\ v >= 6
                     \/ c = "agent_id" /\ v >= 10}

SourcesAt(v) == IF v < 3 THEN "first" ELSE IF v < 7 THEN "ai" ELSE "chat"

\* The rows a vault of version v may hold: a column it lacks is NULL.
RowsAt(v) ==
    {r \in Row : /\ r.hash = 1 <=> v >= 4
                 /\ r.modified = 0 <=> v < 5
                 /\ r.synced <= IF v >= 6 THEN r.modified ELSE 0
                 /\ r.agent = 1 => v >= 10}

Fresh ==
    /\ version = 0 /\ columns = {} /\ sources = "none" /\ triggers = {}
    /\ engrams = [i \in Ids |-> NoRow] /\ fts = {} /\ links = {}

Old(v) ==
    /\ version = v
    /\ columns \in {ColumnsAt(v), IF v = 0 THEN {"scope"} ELSE ColumnsAt(v)}
    /\ sources = SourcesAt(v)
    /\ triggers = IF v < 2 THEN Triggers ELSE {}
    /\ engrams \in [Ids -> RowsAt(v) \cup {NoRow}]
    /\ \A i, j \in LiveIds : engrams[i].rowid = engrams[j].rowid => i = j
    /\ fts \in {Index(engrams), IF v < 2 THEN {} ELSE Index(engrams)}
    /\ links \in {{}, {l \in LiveIds \X LiveIds : l[1] # l[2]}}

Init ==
    /\ Fresh \/ \E v \in Versions : Old(v)
    /\ pc = [o \in Openers |-> "closed"]
    /\ seen = [o \in Openers |-> 0]
    /\ keys = [o \in Openers |-> NoKeys]

-----------------------------------------------------------------------------
(***************************************************************************)
(* finish_open: the tables, the version, the blocks                        *)
(***************************************************************************)
Goto(o, block) == pc' = [pc EXCEPT ![o] = block] /\ UNCHANGED seen

\* Foreign keys are turned on, and create_tables makes what is missing, in
\* the shape of a table that has not been migrated yet.
CreateTables(o) ==
    /\ pc[o] = "closed"
    /\ Exclusive => \A p \in Openers : pc[p] \in {"closed", "open"}
    /\ IF sources = "none"
       THEN /\ sources' = "chat"
            /\ columns' = {"content_hash", "modified_at", "agent_id"}
       ELSE UNCHANGED <<sources, columns>>
    /\ keys' = [keys EXCEPT ![o] = [on |-> TRUE, were |-> FALSE, swap |-> "none"]]
    /\ Goto(o, "read")
    /\ UNCHANGED <<version, triggers, engrams, fts, links>>

ReadVersion(o) ==
    /\ pc[o] = "read"
    /\ seen' = [seen EXCEPT ![o] = version]
    /\ pc' = [pc EXCEPT ![o] = "v1"]
    /\ UNCHANGED <<vault, keys>>

\* A gated block that the version read rules out.
Skip(o) ==
    /\ \/ pc[o] = "v1" /\ seen[o] >= 1 /\ Goto(o, "v2")
       \/ pc[o] = "v2" /\ seen[o] >= 2 /\ Goto(o, "v3")
       \/ pc[o] = "v3" /\ seen[o] >= 3 /\ Goto(o, "v4")
       \/ pc[o] = "v7" /\ seen[o] >= 7 /\ Goto(o, "tables")
    /\ UNCHANGED <<vault, keys>>

\* Mutant: the version of the next release is stamped.
StampNext == version' = Current + 1

\* Every block ends with the newest version, not its own.
Stamp == version' = Current

AddColumns(o) ==
    /\ pc[o] = "v1" /\ seen[o] < 1
    /\ columns' = columns \cup {"scope"}
    /\ Stamp
    /\ Goto(o, "v2")
    /\ UNCHANGED <<sources, triggers, engrams, fts, links, keys>>

DropTriggers(o) ==
    /\ pc[o] = "v2" /\ seen[o] < 2
    /\ triggers' = {}
    /\ fts' = Index(engrams)
    /\ Stamp
    /\ Goto(o, "v3")
    /\ UNCHANGED <<columns, sources, engrams, links, keys>>

\* A copy of the table that keeps the columns of kept: its rowids count from
\* one, what it has no column for is gone.
Copied(kept, row, rowid) ==
    IF row.rowid = 0 THEN NoRow
    ELSE [rowid |-> rowid,
          hash |-> IF "content_hash" \in kept THEN row.hash ELSE 0,
          modified |-> IF "modified_at" \in kept THEN row.modified ELSE 0,
          synced |-> IF "synced_at" \in kept THEN row.synced ELSE 0,
          agent |-> IF "agent_id" \in kept THEN row.agent ELSE 0]

\* What becomes of the links when the rows of gone are deleted.
Cascade(o, gone) ==
    links' = IF keys[o].on THEN {l \in links : l[1] \notin gone /\ l[2] \notin gone}
             ELSE links

SwapDue(o) == (pc[o] = "v3" /\ seen[o] < 3) \/ (pc[o] = "v7" /\ seen[o] < 7)

\* Mutant: the pragma comes after BEGIN, where it does nothing.
ForeignKeysOffLate(o) ==
    /\ SwapDue(o) /\ keys[o].swap = "none"
    /\ keys' = [keys EXCEPT ![o].were = keys[o].on, ![o].swap = "begun"]
    /\ UNCHANGED <<vault, pc, seen>>

\* Before the transaction of a table swap.
ForeignKeysOff(o) ==
    /\ SwapDue(o) /\ keys[o].swap = "none"
    /\ keys' = [keys EXCEPT ![o] = [on |-> FALSE, were |-> keys[o].on, swap |-> "begun"]]
    /\ UNCHANGED <<vault, pc, seen>>

\* Mutant: the swap leaves foreign keys off.
ForeignKeysForgotten(o) ==
    /\ pc[o] \in {"v4", "tables"} /\ keys[o].swap = "over"
    /\ keys' = [keys EXCEPT ![o].swap = "none"]
    /\ UNCHANGED <<vault, pc, seen>>

\* After it. (After a failure the connection is dropped with the error.)
ForeignKeysBack(o) ==
    /\ pc[o] \in {"v4", "tables"} /\ keys[o].swap = "over"
    /\ keys' = [keys EXCEPT ![o] = [on |-> keys[o].on \/ keys[o].were, were |-> FALSE,
                                    swap |-> "none"]]
    /\ UNCHANGED <<vault, pc, seen>>

\* Mutant: the index is not rebuilt for the new rowids.
RecreateWithoutIndex(o, kept) ==
    /\ keys[o].swap = "begun" /\ keys' = [keys EXCEPT ![o].swap = "over"]
    /\ \E rowid \in [Ids -> 1..MaxRowid] :
         /\ {rowid[i] : i \in LiveIds} = 1..Cardinality(LiveIds)
         /\ engrams' = [i \in Ids |-> Copied(kept, engrams[i], rowid[i])]
    /\ Cascade(o, LiveIds)
    /\ triggers' = {}
    /\ UNCHANGED fts

\* The table swap: copy, drop (which deletes the old rows, and the table's
\* triggers with them), rename, rebuild the index.
Recreate(o, kept) ==
    /\ keys[o].swap = "begun" /\ keys' = [keys EXCEPT ![o].swap = "over"]
    /\ \E rowid \in [Ids -> 1..MaxRowid] :
         /\ {rowid[i] : i \in LiveIds} = 1..Cardinality(LiveIds)
         /\ engrams' = [i \in Ids |-> Copied(kept, engrams[i], rowid[i])]
    /\ Cascade(o, LiveIds)
    /\ fts' = Index(engrams')
    /\ triggers' = {}

\* v3's copy leaves content_hash to v4: its column is new.
RecreateV3(o) ==
    /\ pc[o] = "v3" /\ seen[o] < 3
    /\ "scope" \in columns
    /\ Recreate(o, {"scope"})
    /\ columns' = {"scope", "content_hash"}
    /\ sources' = "chat"
    /\ Stamp
    /\ Goto(o, "v4")

\* Rows of an older vault get their hash, so that dedupe sees them.
FillHashes ==
    engrams' = [i \in Ids |->
      IF i \in LiveIds THEN [engrams[i] EXCEPT !.hash = 1] ELSE engrams[i]]

\* Mutant: v4 is gated on the version, as v1 to v3 are.
EnsureHashGated(o) ==
    /\ pc[o] = "v4" /\ keys[o].swap = "none"
    /\ IF seen[o] < 4
       THEN /\ columns' = columns \cup {"content_hash"}
            /\ FillHashes
       ELSE UNCHANGED <<columns, engrams>>
    /\ Stamp
    /\ Goto(o, "v5")
    /\ UNCHANGED <<sources, triggers, fts, links, keys>>

EnsureHash(o) ==
    /\ pc[o] = "v4" /\ keys[o].swap = "none"
    /\ columns' = columns \cup {"content_hash"}
    /\ FillHashes
    /\ Stamp
    /\ Goto(o, "v5")
    /\ UNCHANGED <<sources, triggers, fts, links, keys>>

\* Rows without a stamp get created_at.
EnsureModified(o) ==
    /\ pc[o] = "v5"
    /\ columns' = columns \cup {"modified_at"}
    /\ engrams' = [i \in Ids |->
         IF i \in LiveIds /\ engrams[i].modified = 0
         THEN [engrams[i] EXCEPT !.modified = 1] ELSE engrams[i]]
    /\ Stamp
    /\ Goto(o, "v6")
    /\ UNCHANGED <<sources, triggers, fts, links, keys>>

\* Rows without a cursor count as pushed.
EnsureSynced(o) ==
    /\ pc[o] = "v6"
    /\ "modified_at" \in columns
    /\ columns' = columns \cup {"synced_at"}
    /\ engrams' = [i \in Ids |->
         IF engrams[i].synced = 0
         THEN [engrams[i] EXCEPT !.synced = engrams[i].modified] ELSE engrams[i]]
    /\ Stamp
    /\ Goto(o, "v7")
    /\ UNCHANGED <<sources, triggers, fts, links, keys>>

\* Mutant: the copy forgets the cursors.
RecreateV7NoCursor(o) ==
    /\ pc[o] = "v7" /\ seen[o] < 7
    /\ Columns \ {"agent_id"} \subseteq columns
    /\ Recreate(o, Columns \ {"agent_id", "synced_at"})
    /\ columns' = Columns \ {"agent_id"}
    /\ sources' = "chat"
    /\ Stamp
    /\ Goto(o, "tables")

\* v7's copy has no agent_id: no vault that old has one.
RecreateV7(o) ==
    /\ pc[o] = "v7" /\ seen[o] < 7
    /\ Columns \ {"agent_id"} \subseteq columns
    /\ Recreate(o, Columns \ {"agent_id"})
    /\ columns' = Columns \ {"agent_id"}
    /\ sources' = "chat"
    /\ Stamp
    /\ Goto(o, "tables")

\* v8 and v9 ensure tables that create_tables has already made.
EnsureTables(o) ==
    /\ pc[o] = "tables" /\ keys[o].swap = "none"
    /\ Stamp
    /\ Goto(o, "v10")
    /\ UNCHANGED <<columns, sources, triggers, engrams, fts, links, keys>>

\* No backfill: NULL says that no agent captured the memory.
EnsureAgent(o) ==
    /\ pc[o] = "v10"
    /\ columns' = columns \cup {"agent_id"}
    /\ Stamp
    /\ Goto(o, "open")
    /\ UNCHANGED <<sources, triggers, engrams, fts, links, keys>>

\* A statement fails or the process dies: what was committed stays.
Abandon(o) ==
    /\ pc[o] \in Migrating
    /\ keys' = [keys EXCEPT ![o] = NoKeys]
    /\ Goto(o, "closed")
    /\ UNCHANGED vault

-----------------------------------------------------------------------------
(***************************************************************************)
(* An open vault is used, and closed                                       *)
(***************************************************************************)

\* A write: every column must be there, and with the old triggers the index
\* would get the row's entry twice, which it refuses.
Store(o, i) ==
    /\ pc[o] = "open" /\ columns = Columns /\ triggers = {}
    /\ \E r \in 1..MaxRowid, m \in 1..2, agent \in 0..1 :
         /\ IF i \in LiveIds THEN r = engrams[i].rowid
                             ELSE \A j \in LiveIds : engrams[j].rowid # r
         /\ engrams' = [engrams EXCEPT ![i] =
              [rowid |-> r, hash |-> 1, modified |-> m, synced |-> @.synced,
               agent |-> agent]]
         /\ fts' = fts \cup {[rowid |-> r, id |-> i]}
    /\ UNCHANGED <<version, columns, sources, triggers, links, pc, seen, keys>>

\* A link between two memories; enforced keys ask for both.
Link(o, i, j) ==
    /\ pc[o] = "open" /\ i # j
    /\ keys[o].on => i \in LiveIds /\ j \in LiveIds
    /\ links' = links \cup {<<i, j>>}
    /\ UNCHANGED <<version, columns, sources, triggers, engrams, fts, pc, seen, keys>>

\* A deletion, which takes the row's index entry, and leaves its links to the
\* foreign keys.
Delete(o, i) ==
    /\ pc[o] = "open" /\ columns = Columns /\ triggers = {} /\ i \in LiveIds
    /\ engrams' = [engrams EXCEPT ![i] = NoRow]
    /\ fts' = fts \ {[rowid |-> engrams[i].rowid, id |-> i]}
    /\ Cascade(o, {i})
    /\ UNCHANGED <<version, columns, sources, triggers, pc, seen, keys>>

Close(o) ==
    /\ pc[o] = "open"
    /\ keys' = [keys EXCEPT ![o] = NoKeys]
    /\ Goto(o, "closed")
    /\ UNCHANGED vault

-----------------------------------------------------------------------------
Block(o) ==
    \/ Skip(o) \/ AddColumns(o) \/ DropTriggers(o) \/ RecreateV3(o)
    \/ EnsureHash(o) \/ EnsureModified(o) \/ EnsureSynced(o)
    \/ RecreateV7(o) \/ EnsureTables(o) \/ EnsureAgent(o)

ForeignKeys(o) == ForeignKeysOff(o) \/ ForeignKeysBack(o)
Use(o) == \E i \in Ids : Store(o, i) \/ Delete(o, i) \/ \E j \in Ids : Link(o, i, j)

Next == \E o \in Openers :
    \/ CreateTables(o) \/ ReadVersion(o) \/ Block(o) \/ ForeignKeys(o)
    \/ Abandon(o) \/ Close(o) \/ Use(o)

Spec == Init /\ [][Next]_vars

-----------------------------------------------------------------------------
(***************************************************************************)
(* Properties                                                              *)
(***************************************************************************)

\* However often an upgrade was cut short, a vault that could be opened has
\* every column, and every row has what v4, v5 and v6 backfill.
OpenIsComplete ==
    (\E o \in Openers : pc[o] = "open") =>
        /\ columns = Columns
        /\ \A i \in LiveIds : engrams[i].hash = 1 /\ engrams[i].modified # 0

\* From v2 on the index is kept by the program, and the table swaps, which
\* renumber the rows, never leave it behind.
IndexFollowsRows == triggers = {} => fts = Index(engrams)

\* An upgrade loses nothing: no memory, no edit stamp, no sync cursor, no
\* agent's name.
MemoriesPreserved ==
    [][(\E o \in Openers : Block(o)) => \A i \in LiveIds :
          /\ i \in LiveIds'
          /\ engrams[i].modified <= engrams'[i].modified
          /\ engrams[i].synced \in {0, engrams'[i].synced}
          /\ engrams[i].agent <= engrams'[i].agent]_vars

\* A migration loses no link, though the table swaps drop the table that the
\* links refer to with ON DELETE CASCADE.
LinksKept == [][(\E o \in Openers : Block(o)) => links \subseteq links']_vars

\* Both ends of every link are stored: whatever was migrated on the way, an
\* open vault's connection enforces foreign keys again, and a deletion takes
\* the links of its memory.
LinksHaveEnds == links \subseteq LiveIds \X LiveIds

\* A vault that crashed mid-migration does not claim a version it does not
\* have: one that says v7 accepts v7's sources.
VersionHonest ==
    (\A o \in Openers : pc[o] = "closed") /\ version >= 7 => sources = "chat"

=============================================================================
