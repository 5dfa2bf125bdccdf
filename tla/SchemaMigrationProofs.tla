----------------------- MODULE SchemaMigrationProofs -----------------------
(***************************************************************************)
(* Proofs about SchemaMigration: for vaults of any age, any number of      *)
(* openers and upgrades that are cut short anywhere.                       *)
(***************************************************************************)
EXTENDS SchemaMigration, FiniteSetTheorems, FunctionTheorems, TLAPS

\* A step that keeps every row, changes one of its fields to a value of the
\* field's kind, or copies the table keeps the rows' kinds.
LEMMA CopiedType ==
    ASSUME NEW kept, NEW r \in Row \cup {NoRow}, NEW n \in 1..MaxRowid
    PROVE  /\ Copied(kept, r, n) \in Row \cup {NoRow}
           /\ Copied(kept, r, n).rowid # 0 <=> r.rowid # 0
BY RowidAssumption DEF Copied, Row, NoRow

LEMMA IndexType ==
    ASSUME NEW t \in [Ids -> Row \cup {NoRow}]
    PROVE  Index(t) \subseteq [rowid: 1..MaxRowid, id: Ids]
<1>1. ASSUME NEW j \in Ids, t[j].rowid # 0 PROVE t[j].rowid \in 1..MaxRowid
  BY <1>1 DEF Row, NoRow
<1> QED
  BY <1>1 DEF Index

LEMMA RecreateType ==
    ASSUME TypeOK, NEW o \in Openers, NEW kept, Recreate(o, kept)
    PROVE  /\ engrams' \in [Ids -> Row \cup {NoRow}]
           /\ fts' \subseteq [rowid: 1..MaxRowid, id: Ids]
           /\ triggers' = {} /\ links' \subseteq links
<1>1. PICK rowid \in [Ids -> 1..MaxRowid] :
        engrams' = [i \in Ids |-> Copied(kept, engrams[i], rowid[i])]
  BY DEF Recreate
<1>2. engrams' \in [Ids -> Row \cup {NoRow}]
  <2>1. ASSUME NEW i \in Ids PROVE Copied(kept, engrams[i], rowid[i]) \in Row \cup {NoRow}
    BY CopiedType DEF TypeOK
  <2> QED
    BY <1>1, <2>1
<1> QED
  BY <1>2, IndexType DEF Recreate, Cascade

\* The parts of TypeOK: the rows, the shape of the file, the openers.
RowsOK ==
    /\ engrams \in [Ids -> Row \cup {NoRow}]
    /\ fts \subseteq [rowid: 1..MaxRowid, id: Ids]
    /\ links \subseteq Ids \X Ids
ShapeOK ==
    /\ version \in 0..Current
    /\ columns \subseteq Columns
    /\ sources \in Sources
    /\ triggers \subseteq Triggers
OpenersOK ==
    /\ pc \in [Openers -> {"closed", "open"} \cup Migrating]
    /\ seen \in [Openers -> 0..Current]
    /\ keys \in [Openers -> Keys]

LEMMA TypeParts == TypeOK <=> RowsOK /\ ShapeOK /\ OpenersOK
BY DEF TypeOK, RowsOK, ShapeOK, OpenersOK

LEMMA InitType == Init => TypeOK
<1> SUFFICES ASSUME Init PROVE TypeOK
  OBVIOUS
<1>1. OpenersOK
  BY DEF Init, OpenersOK, Current, Keys, NoKeys
<1>2. CASE Fresh
  <2>1. RowsOK
    BY <1>2 DEF Fresh, RowsOK
  <2>2. ShapeOK
    BY <1>2 DEF Fresh, ShapeOK, Current, Sources
  <2> QED
    BY <1>1, <2>1, <2>2, TypeParts
<1>3. CASE \E v \in Versions : Old(v)
  <2>1. PICK v \in Versions : Old(v)
    BY <1>3
  <2>2. v \in 0..Current /\ RowsAt(v) \subseteq Row
    BY VersionsAssumption DEF RowsAt
  <2>3. engrams \in [Ids -> Row \cup {NoRow}]
    BY <2>1, <2>2 DEF Old
  <2>4. fts \subseteq [rowid: 1..MaxRowid, id: Ids]
    BY <2>1, <2>3, IndexType DEF Old
  <2>5. columns \subseteq Columns /\ sources \in Sources /\ triggers \subseteq Triggers
    BY <2>1 DEF Old, ColumnsAt, Columns, SourcesAt, Sources
  <2>6. links \subseteq Ids \X Ids
    BY <2>1 DEF Old, LiveIds
  <2>7. RowsOK
    BY <2>3, <2>4, <2>6 DEF RowsOK
  <2>8. ShapeOK
    BY <2>1, <2>2, <2>5 DEF Old, ShapeOK
  <2> QED
    BY <1>1, <2>6, <2>7, <2>8, TypeParts
<1> QED
  BY <1>2, <1>3 DEF Init

LEMMA GotoType ==
    ASSUME OpenersOK, NEW o \in Openers, NEW block \in {"closed", "open"} \cup Migrating,
           Goto(o, block), keys' \in [Openers -> Keys]
    PROVE  OpenersOK'
BY DEF OpenersOK, Goto

\* What a step of an opener does to its foreign keys.
LEMMA KeysMove ==
    ASSUME OpenersOK, NEW o \in Openers,
           \/ keys' = keys
           \/ \E k \in Keys : keys' = [keys EXCEPT ![o] = k]
           \/ \E swap \in {"none", "begun", "over"} : keys' = [keys EXCEPT ![o].swap = swap]
    PROVE  keys' \in [Openers -> Keys]
BY DEF OpenersOK, Keys

LEMMA StepKeys == OpenersOK /\ [Next]_vars => keys' \in [Openers -> Keys]
<1> SUFFICES ASSUME OpenersOK, [Next]_vars PROVE keys' \in [Openers -> Keys]
  OBVIOUS
<1>1. ASSUME NEW o \in Openers, CreateTables(o) \/ Abandon(o) \/ Close(o)
      PROVE  keys' \in [Openers -> Keys]
  <2>1. \E k \in Keys : keys' = [keys EXCEPT ![o] = k]
    BY <1>1 DEF CreateTables, Abandon, Close, NoKeys, Keys
  <2> QED
    BY <2>1, KeysMove
<1>2. ASSUME NEW o \in Openers, ForeignKeys(o) PROVE keys' \in [Openers -> Keys]
  <2>1. keys[o].on \in BOOLEAN /\ keys[o].were \in BOOLEAN
    BY DEF OpenersOK, Keys
  <2>2. \E k \in Keys : keys' = [keys EXCEPT ![o] = k]
    BY <1>2, <2>1 DEF ForeignKeys, ForeignKeysOff, ForeignKeysBack, Keys
  <2> QED
    BY <2>2, KeysMove
<1>3. ASSUME NEW o \in Openers, RecreateV3(o) \/ RecreateV7(o) PROVE keys' \in [Openers -> Keys]
  <2>1. keys' = [keys EXCEPT ![o].swap = "over"]
    BY <1>3 DEF RecreateV3, RecreateV7, Recreate
  <2> QED
    BY <2>1, KeysMove
<1>4. ASSUME UNCHANGED keys PROVE keys' \in [Openers -> Keys]
  BY <1>4 DEF OpenersOK
<1> QED
  BY <1>1, <1>2, <1>3, <1>4 DEF Next, Block, Skip, AddColumns, DropTriggers, EnsureHash,
     EnsureModified, EnsureSynced, EnsureTables, EnsureAgent, ReadVersion, Use, Store, Delete,
     Link, vars

LEMMA StepOpeners == TypeOK /\ [Next]_vars => OpenersOK'
<1> SUFFICES ASSUME TypeOK, [Next]_vars PROVE OpenersOK'
  OBVIOUS
<1>0. OpenersOK /\ ShapeOK /\ keys' \in [Openers -> Keys]
  BY TypeParts, StepKeys
<1>1. ASSUME NEW o \in Openers, Block(o) \/ CreateTables(o) \/ Abandon(o) \/ Close(o)
      PROVE  OpenersOK'
  <2>1. \E block \in {"closed", "open"} \cup Migrating : Goto(o, block)
    BY <1>1 DEF Block, CreateTables, Abandon, Close, Skip, AddColumns, DropTriggers, RecreateV3,
       EnsureHash, EnsureModified, EnsureSynced, RecreateV7, EnsureTables, EnsureAgent,
       Migrating, Blocks
  <2> QED
    BY <1>0, <2>1, GotoType
<1>2. ASSUME NEW o \in Openers, ReadVersion(o) PROVE OpenersOK'
  BY <1>0, <1>2 DEF ReadVersion, OpenersOK, ShapeOK, Migrating, Blocks
<1>3. ASSUME UNCHANGED <<pc, seen>> PROVE OpenersOK'
  BY <1>0, <1>3 DEF OpenersOK
<1> QED
  BY <1>1, <1>2, <1>3 DEF Next, ForeignKeys, ForeignKeysOff, ForeignKeysBack, Use, Store, Delete,
     Link, vars

LEMMA StepShape == TypeOK /\ [Next]_vars => ShapeOK'
<1> SUFFICES ASSUME TypeOK, [Next]_vars PROVE ShapeOK'
  OBVIOUS
<1>0. ShapeOK
  BY TypeParts
<1>1. ASSUME NEW o \in Openers, CreateTables(o) PROVE ShapeOK'
  BY <1>0, <1>1 DEF CreateTables, ShapeOK, Columns, Sources
<1>2. ASSUME NEW o \in Openers, AddColumns(o) \/ EnsureHash(o) \/ EnsureModified(o)
                                \/ EnsureSynced(o) \/ EnsureTables(o) \/ EnsureAgent(o)
      PROVE ShapeOK'
  BY <1>0, <1>2 DEF AddColumns, EnsureHash, EnsureModified, EnsureSynced, EnsureTables,
     EnsureAgent, ShapeOK, Columns, Stamp, Current
<1>3. ASSUME NEW o \in Openers, DropTriggers(o) \/ RecreateV3(o) \/ RecreateV7(o)
      PROVE ShapeOK'
  BY <1>0, <1>3 DEF DropTriggers, RecreateV3, RecreateV7, Recreate, ShapeOK, Columns, Sources,
     Stamp, Current
<1>4. ASSUME UNCHANGED <<version, columns, sources, triggers>> PROVE ShapeOK'
  BY <1>0, <1>4 DEF ShapeOK
<1> QED
  BY <1>1, <1>2, <1>3, <1>4 DEF Next, Block, ReadVersion, Skip, ForeignKeys, ForeignKeysOff,
     ForeignKeysBack, Abandon, Close, Use, Store, Delete, Link, vars, vault

LEMMA StepRows == TypeOK /\ [Next]_vars => RowsOK'
<1> SUFFICES ASSUME TypeOK, [Next]_vars PROVE RowsOK'
  OBVIOUS
<1>0. RowsOK
  BY TypeParts
<1>1. ASSUME NEW o \in Openers, DropTriggers(o) PROVE RowsOK'
  BY <1>0, <1>1, IndexType DEF DropTriggers, RowsOK
<1>2. ASSUME NEW o \in Openers, NEW kept, Recreate(o, kept) PROVE RowsOK'
  BY <1>0, <1>2, RecreateType DEF RowsOK
<1>3. ASSUME NEW o \in Openers, EnsureHash(o) PROVE RowsOK'
  <2>1. ASSUME NEW i \in LiveIds PROVE [engrams[i] EXCEPT !.hash = 1] \in Row
    BY <1>0, <2>1 DEF LiveIds, Row, NoRow, RowsOK
  <2>2. engrams' \in [Ids -> Row \cup {NoRow}]
    BY <1>0, <1>3, <2>1 DEF EnsureHash, FillHashes, RowsOK
  <2> QED
    BY <1>0, <1>3, <2>2 DEF EnsureHash, RowsOK
<1>4. ASSUME NEW o \in Openers, EnsureModified(o) PROVE RowsOK'
  <2>1. ASSUME NEW i \in LiveIds PROVE [engrams[i] EXCEPT !.modified = 1] \in Row
    BY <1>0, <2>1 DEF LiveIds, Row, NoRow, RowsOK
  <2>2. engrams' \in [Ids -> Row \cup {NoRow}]
    BY <1>0, <1>4, <2>1 DEF EnsureModified, RowsOK
  <2> QED
    BY <1>0, <1>4, <2>2 DEF EnsureModified, RowsOK
<1>5. ASSUME NEW o \in Openers, EnsureSynced(o) PROVE RowsOK'
  <2>1. ASSUME NEW i \in Ids
        PROVE [engrams[i] EXCEPT !.synced = engrams[i].modified] \in Row \cup {NoRow}
    <3>1. CASE engrams[i] \in Row
      BY <3>1 DEF Row
    <3>2. CASE engrams[i] = NoRow
      <4>1. [NoRow EXCEPT !.synced = NoRow.modified] = NoRow
        BY DEF NoRow
      <4> QED
        BY <3>2, <4>1
    <3> QED
      BY <1>0, <3>1, <3>2 DEF RowsOK
  <2>2. engrams' \in [Ids -> Row \cup {NoRow}]
    BY <1>0, <1>5, <2>1 DEF EnsureSynced, RowsOK
  <2> QED
    BY <1>0, <1>5, <2>2 DEF EnsureSynced, RowsOK
<1>6. ASSUME NEW o \in Openers, NEW i \in Ids, Store(o, i) PROVE RowsOK'
  <2>1. PICK r \in 1..MaxRowid, m \in 1..2, agent \in 0..1 :
         /\ engrams' = [engrams EXCEPT ![i] =
              [rowid |-> r, hash |-> 1, modified |-> m, synced |-> @.synced,
               agent |-> agent]]
         /\ fts' = fts \cup {[rowid |-> r, id |-> i]}
    BY <1>6 DEF Store
  <2>2. engrams[i].synced \in 0..2
    BY <1>0 DEF Row, NoRow, RowsOK
  <2>4. [rowid |-> r, hash |-> 1, modified |-> m, synced |-> engrams[i].synced,
         agent |-> agent] \in Row
    BY <2>2 DEF Row
  <2>5. engrams' \in [Ids -> Row \cup {NoRow}]
    BY <1>0, <2>1, <2>4 DEF RowsOK
  <2>6. fts' \subseteq [rowid: 1..MaxRowid, id: Ids]
    BY <1>0, <2>1 DEF RowsOK
  <2> QED
    BY <1>0, <1>6, <2>5, <2>6 DEF RowsOK, Store
<1>7. ASSUME UNCHANGED <<engrams, fts, links>> PROVE RowsOK'
  BY <1>0, <1>7 DEF RowsOK
<1>8. ASSUME NEW o \in Openers, NEW i \in Ids, Delete(o, i) PROVE RowsOK'
  BY <1>0, <1>8 DEF RowsOK, Delete, Cascade
<1>9. ASSUME NEW o \in Openers, NEW i \in Ids, NEW j \in Ids, Link(o, i, j) PROVE RowsOK'
  BY <1>0, <1>9 DEF RowsOK, Link
<1> QED
  BY <1>1, <1>2, <1>3, <1>4, <1>5, <1>6, <1>7, <1>8, <1>9 DEF Next, Block, CreateTables,
     ReadVersion, Skip, AddColumns, RecreateV3, RecreateV7, EnsureTables, EnsureAgent,
     ForeignKeys, ForeignKeysOff, ForeignKeysBack, Abandon, Close, Use, vars, vault

LEMMA StepType == TypeOK /\ [Next]_vars => TypeOK'
<1>1. RowsOK' /\ ShapeOK' /\ OpenersOK' => TypeOK'
  BY DEF TypeOK, RowsOK, ShapeOK, OpenersOK
<1> QED
  BY <1>1, StepOpeners, StepShape, StepRows

\* The vault file and its openers stay of their kinds, whatever is cut short.
THEOREM TypeCorrect == Spec => []TypeOK
BY InitType, StepType, PTL DEF Spec

-----------------------------------------------------------------------------
\* The index depends on the rows' rowids only.
LEMMA IndexOfRowids ==
    ASSUME NEW t, NEW u, \A i \in Ids : t[i].rowid = u[i].rowid
    PROVE  Index(t) = Index(u)
BY DEF Index

LEMMA StoreIndex ==
    ASSUME TypeOK, fts = Index(engrams), NEW o \in Openers, NEW i \in Ids, Store(o, i)
    PROVE  fts' = Index(engrams')
<1>1. PICK r \in 1..MaxRowid, m \in 1..2, agent \in 0..1 :
         /\ i \in LiveIds => r = engrams[i].rowid
         /\ engrams' = [engrams EXCEPT ![i] =
              [rowid |-> r, hash |-> 1, modified |-> m, synced |-> @.synced,
               agent |-> agent]]
         /\ fts' = fts \cup {[rowid |-> r, id |-> i]}
  BY DEF Store
<1>2. engrams'[i].rowid = r /\ r # 0
  BY <1>1 DEF TypeOK
<1>3. \A j \in Ids \ {i} : engrams'[j] = engrams[j]
  BY <1>1 DEF TypeOK
<1>4. ASSUME NEW e \in fts PROVE e \in Index(engrams')
  <2>1. PICK j \in Ids : engrams[j].rowid # 0 /\ e = [rowid |-> engrams[j].rowid, id |-> j]
    BY DEF Index
  <2>2. engrams'[j].rowid = engrams[j].rowid
    BY <1>1, <1>2, <1>3, <2>1 DEF LiveIds
  <2> QED
    BY <2>1, <2>2 DEF Index
<1>5. ASSUME NEW e \in Index(engrams') PROVE e \in fts'
  <2>1. PICK j \in Ids : engrams'[j].rowid # 0 /\ e = [rowid |-> engrams'[j].rowid, id |-> j]
    BY DEF Index
  <2>2. CASE j = i
    BY <1>1, <1>2, <2>1, <2>2
  <2>3. CASE j # i
    BY <1>1, <1>3, <2>1, <2>3 DEF Index
  <2> QED
    BY <2>2, <2>3
<1>6. [rowid |-> r, id |-> i] \in Index(engrams')
  BY <1>2 DEF Index
<1> QED
  BY <1>1, <1>4, <1>5, <1>6

LEMMA DeleteIndex ==
    ASSUME TypeOK, fts = Index(engrams), NEW o \in Openers, NEW i \in Ids, Delete(o, i)
    PROVE  fts' = Index(engrams')
<1>1. /\ engrams' = [engrams EXCEPT ![i] = NoRow]
      /\ fts' = fts \ {[rowid |-> engrams[i].rowid, id |-> i]}
  BY DEF Delete
<1>2. engrams'[i].rowid = 0 /\ \A j \in Ids \ {i} : engrams'[j] = engrams[j]
  BY <1>1 DEF TypeOK, NoRow
<1> QED
  BY <1>1, <1>2 DEF Index

LEMMA InitIndex == Init => IndexFollowsRows
<1> SUFFICES ASSUME Init PROVE IndexFollowsRows
  OBVIOUS
<1>1. CASE Fresh
  BY <1>1 DEF Fresh, Index, IndexFollowsRows, NoRow
<1>2. CASE \E v \in Versions : Old(v)
  <2>1. PICK v \in Versions : Old(v)
    BY <1>2
  <2>2. v \in Nat
    BY VersionsAssumption DEF Current
  <2>3. triggers = {} => v >= 2
    BY <2>1, <2>2 DEF Old, Triggers
  <2> QED
    BY <2>1, <2>2, <2>3 DEF Old, IndexFollowsRows
<1> QED
  BY <1>1, <1>2 DEF Init

LEMMA StepIndex == TypeOK /\ IndexFollowsRows /\ [Next]_vars => IndexFollowsRows'
<1> SUFFICES ASSUME TypeOK, IndexFollowsRows, [Next]_vars PROVE IndexFollowsRows'
  OBVIOUS
<1>1. ASSUME UNCHANGED <<triggers, engrams, fts>> PROVE IndexFollowsRows'
  BY <1>1 DEF IndexFollowsRows, Index
<1>2. ASSUME NEW o \in Openers, NEW kept, Recreate(o, kept) PROVE IndexFollowsRows'
  BY <1>2 DEF Recreate, IndexFollowsRows
<1>3. ASSUME NEW o \in Openers, DropTriggers(o) PROVE IndexFollowsRows'
  BY <1>3 DEF DropTriggers, IndexFollowsRows
<1>4. ASSUME NEW o \in Openers, EnsureHash(o) \/ EnsureModified(o) \/ EnsureSynced(o)
      PROVE IndexFollowsRows'
  <2>1. \A i \in Ids : engrams'[i].rowid = engrams[i].rowid
    <3>1. ASSUME NEW i \in Ids, NEW m
          PROVE  /\ [engrams[i] EXCEPT !.hash = m].rowid = engrams[i].rowid
                 /\ [engrams[i] EXCEPT !.modified = m].rowid = engrams[i].rowid
                 /\ [engrams[i] EXCEPT !.synced = m].rowid = engrams[i].rowid
      BY DEF TypeOK, Row, NoRow
    <3>2. CASE EnsureHash(o)
      BY <3>1, <3>2 DEF EnsureHash, FillHashes
    <3>3. CASE EnsureModified(o)
      BY <3>1, <3>3 DEF EnsureModified
    <3>4. CASE EnsureSynced(o)
      BY <3>1, <3>4 DEF EnsureSynced
    <3> QED
      BY <1>4, <3>2, <3>3, <3>4
  <2>2. Index(engrams') = Index(engrams)
    BY <2>1, IndexOfRowids
  <2> QED
    BY <1>4, <2>2 DEF EnsureHash, EnsureModified, EnsureSynced, IndexFollowsRows
<1>5. ASSUME NEW o \in Openers, NEW i \in Ids, Store(o, i) PROVE IndexFollowsRows'
  <2>1. fts' = Index(engrams')
    BY <1>5, StoreIndex DEF Store, IndexFollowsRows
  <2> QED
    BY <2>1 DEF IndexFollowsRows
<1>6. ASSUME NEW o \in Openers, CreateTables(o) \/ ReadVersion(o) \/ Skip(o) \/ AddColumns(o)
                                \/ EnsureTables(o) \/ EnsureAgent(o) \/ Abandon(o) \/ Close(o)
                                \/ ForeignKeys(o)
      PROVE IndexFollowsRows'
  BY <1>1, <1>6 DEF CreateTables, ReadVersion, Skip, AddColumns, EnsureTables, EnsureAgent,
     Abandon, Close, ForeignKeys, ForeignKeysOff, ForeignKeysBack, vault
<1>7. CASE UNCHANGED vars
  BY <1>1, <1>7 DEF vars, vault
<1>8. ASSUME NEW o \in Openers, NEW i \in Ids, Delete(o, i) PROVE IndexFollowsRows'
  BY <1>8, DeleteIndex DEF Delete, IndexFollowsRows
<1>9. ASSUME NEW o \in Openers, NEW i \in Ids, NEW j \in Ids, Link(o, i, j)
      PROVE IndexFollowsRows'
  BY <1>1, <1>9 DEF Link
<1> QED
  BY <1>2, <1>3, <1>4, <1>5, <1>6, <1>7, <1>8, <1>9 DEF Next, Block, RecreateV3, RecreateV7, Use

\* The index follows the rows through every migration, interrupted or not,
\* and however many processes migrate at once.
THEOREM IndexKept == Spec => []IndexFollowsRows
BY InitType, StepType, InitIndex, StepIndex, PTL DEF Spec

-----------------------------------------------------------------------------
(***************************************************************************)
(* With one process at a time in migrate: what it has ensured stays, and   *)
(* the version it read still says which data the rows cannot have yet.     *)
(***************************************************************************)
NoneEdited == \A i \in Ids : engrams[i].modified = 0 /\ engrams[i].synced = 0
NoneAttributed == \A i \in Ids : engrams[i].agent = 0
Hashed == "content_hash" \in columns /\ \A i \in LiveIds : engrams[i].hash = 1
Stamped == "modified_at" \in columns /\ \A i \in LiveIds : engrams[i].modified # 0
InUse == \E o \in Openers : pc[o] = "open"

\* A directory without a table has not been opened yet.
Made == sources = "none" => version = 0 /\ \A o \in Openers : pc[o] = "closed"

VersionTells ==
    /\ version < 3 => NoneEdited
    /\ version < 7 => NoneAttributed
    /\ version >= 1 => "scope" \in columns

OpenComplete == InUse => version = Current /\ columns = Columns /\ Hashed /\ Stamped

Alone == \A o, p \in Openers : pc[o] \in Migrating /\ pc[p] \in Migrating => o = p

Progress(o) == pc[o] \in Blocks =>
    /\ seen[o] <= version
    /\ pc[o] # "v1" => version >= 1
    /\ seen[o] < 3 /\ pc[o] \in {"v1", "v2", "v3"} => NoneEdited
    /\ seen[o] < 7 => NoneAttributed
    /\ pc[o] \in {"v5", "v6", "v7", "tables", "v10"} => Hashed
    /\ pc[o] \in {"v6", "v7", "tables", "v10"} => Stamped
    /\ pc[o] \in {"v7", "tables", "v10"} => "synced_at" \in columns
    /\ InUse => seen[o] = Current

IInv == TypeOK /\ Made /\ VersionTells /\ OpenComplete /\ Alone
        /\ \A o \in Openers : Progress(o)

LEMMA InitInvariant == Init => IInv
<1> SUFFICES ASSUME Init PROVE IInv
  OBVIOUS
<1>0. TypeOK /\ \A o \in Openers : pc[o] = "closed"
  BY InitType DEF Init
<1>1. OpenComplete /\ Alone /\ \A o \in Openers : Progress(o)
  BY <1>0 DEF OpenComplete, InUse, Alone, Progress, Migrating, Blocks
<1>2. CASE Fresh
  <2>1. Made
    BY <1>0, <1>2 DEF Fresh, Made
  <2>2. VersionTells
    BY <1>2 DEF Fresh, VersionTells, NoneEdited, NoneAttributed, NoRow
  <2> QED
    BY <1>0, <1>1, <2>1, <2>2 DEF IInv
<1>3. CASE \E v \in Versions : Old(v)
  <2>1. PICK v \in Versions : Old(v)
    BY <1>3
  <2>2. v \in Nat /\ version = v
    BY <2>1, VersionsAssumption DEF Current, Old
  <2>3. sources # "none"
    BY <2>1 DEF Old, SourcesAt
  <2>4. v >= 1 => "scope" \in columns
    BY <2>1, <2>2 DEF Old, ColumnsAt, Columns
  <2>5. ASSUME NEW i \in Ids
        PROVE  /\ v < 3 => engrams[i].modified = 0 /\ engrams[i].synced = 0
               /\ v < 7 => engrams[i].agent = 0
    <3>1. engrams[i] \in RowsAt(v) \/ engrams[i] = NoRow
      BY <2>1 DEF Old
    <3>2. CASE engrams[i] \in RowsAt(v)
      BY <2>2, <3>2 DEF RowsAt, Row
    <3>3. CASE engrams[i] = NoRow
      BY <3>3 DEF NoRow
    <3> QED
      BY <3>1, <3>2, <3>3
  <2>6. VersionTells
    BY <2>2, <2>4, <2>5 DEF VersionTells, NoneEdited, NoneAttributed
  <2> QED
    BY <1>0, <1>1, <2>3, <2>6 DEF IInv, Made
<1> QED
  BY <1>2, <1>3 DEF Init

-----------------------------------------------------------------------------
\* What the blocks do to a row.  The field a block fills, and nothing else.
LEMMA EnsureHashRows ==
    ASSUME TypeOK, NEW o \in Openers, EnsureHash(o), NEW i \in Ids
    PROVE  /\ engrams'[i].rowid = engrams[i].rowid
           /\ engrams[i].rowid # 0 => engrams'[i].hash = 1
           /\ engrams'[i].modified = engrams[i].modified
           /\ engrams'[i].synced = engrams[i].synced
           /\ engrams'[i].agent = engrams[i].agent
<1>1. engrams[i] \in Row \/ engrams[i] = NoRow
  BY DEF TypeOK
<1>2. engrams'[i] = IF i \in LiveIds THEN [engrams[i] EXCEPT !.hash = 1] ELSE engrams[i]
  BY DEF EnsureHash, FillHashes
<1> QED
  BY <1>1, <1>2 DEF LiveIds, Row, NoRow

LEMMA EnsureModifiedRows ==
    ASSUME TypeOK, NEW o \in Openers, EnsureModified(o), NEW i \in Ids
    PROVE  /\ engrams'[i].rowid = engrams[i].rowid
           /\ engrams'[i].hash = engrams[i].hash
           /\ engrams[i].rowid # 0 => engrams'[i].modified # 0
           /\ engrams[i].modified # 0 => engrams'[i].modified = engrams[i].modified
           /\ engrams'[i].synced = engrams[i].synced
           /\ engrams'[i].agent = engrams[i].agent
<1>1. engrams[i] \in Row \/ engrams[i] = NoRow
  BY DEF TypeOK
<1>2. engrams'[i] = IF i \in LiveIds /\ engrams[i].modified = 0
                    THEN [engrams[i] EXCEPT !.modified = 1] ELSE engrams[i]
  BY DEF EnsureModified
<1> QED
  BY <1>1, <1>2 DEF LiveIds, Row, NoRow

LEMMA EnsureSyncedRows ==
    ASSUME TypeOK, NEW o \in Openers, EnsureSynced(o), NEW i \in Ids
    PROVE  /\ engrams'[i].rowid = engrams[i].rowid
           /\ engrams'[i].hash = engrams[i].hash
           /\ engrams'[i].modified = engrams[i].modified
           /\ engrams[i].synced # 0 => engrams'[i].synced = engrams[i].synced
           /\ engrams'[i].agent = engrams[i].agent
<1>1. engrams[i] \in Row \/ engrams[i] = NoRow
  BY DEF TypeOK
<1>2. engrams'[i] = IF engrams[i].synced = 0
                    THEN [engrams[i] EXCEPT !.synced = engrams[i].modified] ELSE engrams[i]
  BY DEF EnsureSynced
<1> QED
  BY <1>1, <1>2 DEF Row, NoRow

\* A table swap keeps the columns it copies and empties the others.
LEMMA RecreateRows ==
    ASSUME TypeOK, NEW o \in Openers, NEW kept, Recreate(o, kept), NEW i \in Ids
    PROVE  /\ engrams'[i].rowid # 0 <=> engrams[i].rowid # 0
           /\ "content_hash" \in kept => engrams'[i].hash = engrams[i].hash
           /\ "modified_at" \in kept => engrams'[i].modified = engrams[i].modified
           /\ "synced_at" \in kept => engrams'[i].synced = engrams[i].synced
           /\ "modified_at" \notin kept => engrams'[i].modified = 0
           /\ "synced_at" \notin kept => engrams'[i].synced = 0
           /\ "agent_id" \notin kept => engrams'[i].agent = 0
<1>1. engrams[i] \in Row \/ engrams[i] = NoRow
  BY DEF TypeOK
<1>2. PICK n \in 1..MaxRowid : engrams'[i] = Copied(kept, engrams[i], n)
  BY DEF Recreate
<1>3. CASE engrams[i].rowid = 0
  <2>1. engrams[i] = NoRow
    BY <1>1, <1>3 DEF Row
  <2> QED
    BY <1>2, <2>1 DEF Copied, NoRow
<1>4. CASE engrams[i].rowid # 0
  BY <1>2, <1>4 DEF Copied
<1> QED
  BY <1>3, <1>4

\* The blocks that leave the rows alone.
Shapes(o) ==
    \/ Skip(o) \/ AddColumns(o) \/ DropTriggers(o) \/ EnsureTables(o) \/ EnsureAgent(o)

LEMMA BlockKeepsEmpty ==
    ASSUME TypeOK, NEW o \in Openers, Block(o)
    PROVE  /\ NoneAttributed => NoneAttributed'
           /\ NoneEdited /\ pc[o] \in {"v1", "v2", "v3"} => NoneEdited'
<1>1. CASE Shapes(o)
  BY <1>1 DEF Shapes, Skip, AddColumns, DropTriggers, EnsureTables, EnsureAgent, vault,
     NoneAttributed, NoneEdited
<1>2. CASE RecreateV3(o)
  BY <1>2, RecreateRows DEF RecreateV3, NoneAttributed, NoneEdited
<1>3. CASE EnsureHash(o)
  BY <1>3, EnsureHashRows DEF EnsureHash, NoneAttributed
<1>4. CASE EnsureModified(o)
  BY <1>4, EnsureModifiedRows DEF EnsureModified, NoneAttributed
<1>5. CASE EnsureSynced(o)
  BY <1>5, EnsureSyncedRows DEF EnsureSynced, NoneAttributed
<1>6. CASE RecreateV7(o)
  BY <1>6, RecreateRows DEF RecreateV7, NoneAttributed
<1> QED
  BY <1>1, <1>2, <1>3, <1>4, <1>5, <1>6 DEF Block, Shapes

LEMMA BlockKeepsFilled ==
    ASSUME TypeOK, NEW o \in Openers, Block(o), ~RecreateV3(o)
    PROVE  /\ columns \ {"agent_id"} \subseteq columns'
           /\ Hashed \/ EnsureHash(o) => Hashed'
           /\ Stamped \/ EnsureModified(o) => Stamped'
<1>1. CASE Shapes(o)
  BY <1>1 DEF Shapes, Skip, AddColumns, DropTriggers, EnsureTables, EnsureAgent, vault,
     Hashed, Stamped, LiveIds, EnsureHash, EnsureModified
<1>3. CASE EnsureHash(o)
  BY <1>3, EnsureHashRows DEF EnsureHash, EnsureModified, Hashed, Stamped, LiveIds
<1>4. CASE EnsureModified(o)
  BY <1>4, EnsureModifiedRows DEF EnsureHash, EnsureModified, Hashed, Stamped, LiveIds
<1>5. CASE EnsureSynced(o)
  BY <1>5, EnsureSyncedRows DEF EnsureSynced, EnsureHash, EnsureModified, Hashed, Stamped, LiveIds
<1>6. CASE RecreateV7(o)
  <2>1. columns \ {"agent_id"} \subseteq columns' /\ {"content_hash", "modified_at"} \subseteq columns'
    BY <1>6 DEF RecreateV7, TypeOK, Columns
  <2>2. \A i \in Ids : /\ engrams'[i].rowid # 0 => engrams[i].rowid # 0
                       /\ engrams'[i].hash = engrams[i].hash
                       /\ engrams'[i].modified = engrams[i].modified
    BY <1>6, RecreateRows DEF RecreateV7, Columns
  <2> QED
    BY <1>6, <2>1, <2>2 DEF Hashed, Stamped, LiveIds, RecreateV7, EnsureHash, EnsureModified
<1> QED
  BY <1>1, <1>3, <1>4, <1>5, <1>6 DEF Block, Shapes

LEMMA GotoMoves ==
    ASSUME TypeOK, NEW o \in Openers, NEW block, Goto(o, block)
    PROVE  /\ seen' = seen /\ pc'[o] = block
           /\ \A p \in Openers \ {o} : pc'[p] = pc[p]
BY DEF TypeOK, Goto

\* Where a block leads.
LEMMA BlockMoves ==
    ASSUME TypeOK, NEW o \in Openers, Block(o)
    PROVE  /\ pc[o] \in Blocks /\ seen' = seen
           /\ \A p \in Openers \ {o} : pc'[p] = pc[p]
           /\ pc'[o] \in (Blocks \ {"v1"}) \cup {"open"}
           /\ pc'[o] = "open" => EnsureAgent(o)
<1>1. \/ EnsureAgent(o) /\ Goto(o, "open")
      \/ \E block \in Blocks \ {"v1"} : Goto(o, block)
  BY DEF Block, Skip, AddColumns, DropTriggers, RecreateV3, EnsureHash, EnsureModified,
     EnsureSynced, RecreateV7, EnsureTables, EnsureAgent, Blocks
<1>2. pc[o] \in Blocks
  BY DEF Block, Skip, AddColumns, DropTriggers, RecreateV3, EnsureHash, EnsureModified,
     EnsureSynced, RecreateV7, EnsureTables, EnsureAgent, Blocks
<1> QED
  BY <1>1, <1>2, GotoMoves DEF Blocks

\* Which version a block leaves, and which columns.
LEMMA BlockStamps ==
    ASSUME TypeOK, NEW o \in Openers, Block(o)
    PROVE  version' = Current \/ (Skip(o) /\ version' = version)
<1>1. CASE Skip(o)
  BY <1>1 DEF Skip, vault
<1>2. CASE ~Skip(o)
  <2>1. Stamp
    BY <1>2 DEF Block, AddColumns, DropTriggers, RecreateV3, EnsureHash, EnsureModified,
       EnsureSynced, RecreateV7, EnsureTables, EnsureAgent
  <2> QED
    BY <2>1 DEF Stamp
<1> QED
  BY <1>1, <1>2

LEMMA BlockShape ==
    ASSUME TypeOK, NEW o \in Openers, Block(o)
    PROVE  /\ sources' \in {"chat", sources}
           /\ "scope" \in columns \/ AddColumns(o) => "scope" \in columns'
           /\ EnsureSynced(o) => "synced_at" \in columns'
           /\ "agent_id" \in columns => \/ "agent_id" \in columns'
                                        \/ RecreateV3(o) \/ RecreateV7(o)
<1>1. CASE Shapes(o)
  <2>1. sources' = sources /\ columns \subseteq columns'
    BY <1>1 DEF Shapes, Skip, AddColumns, DropTriggers, EnsureTables, EnsureAgent, vault
  <2> QED
    BY <1>1, <2>1 DEF AddColumns, EnsureSynced
<1>2. CASE RecreateV3(o)
  BY <1>2 DEF RecreateV3, EnsureSynced
<1>3. CASE RecreateV7(o)
  BY <1>3 DEF RecreateV7, Columns, EnsureSynced
<1>4. CASE EnsureHash(o) \/ EnsureModified(o) \/ EnsureSynced(o)
  <2>1. sources' = sources /\ columns \subseteq columns'
    BY <1>4 DEF EnsureHash, EnsureModified, EnsureSynced
  <2> QED
    BY <1>4, <2>1 DEF AddColumns, EnsureSynced
<1> QED
  BY <1>1, <1>2, <1>3, <1>4 DEF Block, Shapes

\* From where a block leads there.
LEMMA BlockOrder ==
    ASSUME TypeOK, NEW o \in Openers, Block(o)
    PROVE  /\ pc'[o] \in {"v1", "v2", "v3"} => pc[o] \in {"v1", "v2"}
           /\ pc'[o] \in {"v5", "v6", "v7", "tables", "v10", "open"} =>
                 EnsureHash(o) \/ pc[o] \in {"v5", "v6", "v7", "tables", "v10"}
           /\ pc'[o] \in {"v6", "v7", "tables", "v10", "open"} =>
                 EnsureModified(o) \/ pc[o] \in {"v6", "v7", "tables", "v10"}
           /\ pc'[o] \in {"v7", "tables", "v10", "open"} =>
                 EnsureSynced(o) \/ pc[o] \in {"v7", "tables", "v10"}
           /\ pc[o] = "v1" => AddColumns(o) \/ (Skip(o) /\ seen[o] >= 1)
<1>1. CASE Skip(o)
  <2>1. \/ pc[o] = "v1" /\ seen[o] >= 1 /\ pc'[o] = "v2"
        \/ pc[o] = "v2" /\ pc'[o] = "v3"
        \/ pc[o] = "v3" /\ pc'[o] = "v4"
        \/ pc[o] = "v7" /\ pc'[o] = "tables"
    BY <1>1, GotoMoves DEF Skip
  <2> QED
    BY <1>1, <2>1
<1>2. CASE AddColumns(o) \/ DropTriggers(o) \/ RecreateV3(o) \/ RecreateV7(o)
             \/ EnsureTables(o) \/ EnsureAgent(o)
  <2>1. \/ AddColumns(o) /\ pc[o] = "v1" /\ pc'[o] = "v2"
        \/ pc[o] = "v2" /\ pc'[o] = "v3"
        \/ pc[o] = "v3" /\ pc'[o] = "v4"
        \/ pc[o] = "v7" /\ pc'[o] = "tables"
        \/ pc[o] = "tables" /\ pc'[o] = "v10"
        \/ pc[o] = "v10" /\ pc'[o] = "open"
    BY <1>2, GotoMoves DEF AddColumns, DropTriggers, RecreateV3, RecreateV7, EnsureTables,
       EnsureAgent
  <2> QED
    BY <1>2, <2>1
<1>3. CASE EnsureHash(o) \/ EnsureModified(o) \/ EnsureSynced(o)
  <2>1. \/ EnsureHash(o) /\ pc[o] = "v4" /\ pc'[o] = "v5"
        \/ EnsureModified(o) /\ pc[o] = "v5" /\ pc'[o] = "v6"
        \/ EnsureSynced(o) /\ pc[o] = "v6" /\ pc'[o] = "v7"
    BY <1>3, GotoMoves DEF EnsureHash, EnsureModified, EnsureSynced
  <2> QED
    BY <1>3, <2>1
<1> QED
  BY <1>1, <1>2, <1>3 DEF Block

-----------------------------------------------------------------------------
\* The invariant through a block: nobody else is migrating, and who has the
\* vault open has seen it at the newest version, so no table swap runs.
LEMMA BlockInvariant ==
    ASSUME IInv, NEW o \in Openers, Block(o)
    PROVE  IInv'
<1>0. /\ TypeOK /\ Made /\ VersionTells /\ OpenComplete /\ Alone /\ Progress(o)
      /\ version \in Nat /\ seen[o] \in Nat
  BY DEF IInv, TypeOK, Current
<1>1. TypeOK'
  BY <1>0, StepType DEF Next
<1>2. /\ pc[o] \in Blocks /\ seen' = seen
      /\ \A p \in Openers \ {o} : pc'[p] = pc[p] /\ pc[p] \notin Migrating
  BY <1>0, BlockMoves DEF Alone, Migrating
<1>3. InUse => ~RecreateV3(o) /\ ~RecreateV7(o)
  BY <1>0, <1>2 DEF Progress, RecreateV3, RecreateV7, Current
<1>4. pc[o] = "v1" => AddColumns(o) \/ version >= 1
  BY <1>0, <1>2, BlockOrder DEF Progress
<1>5. pc[o] # "v1" => version >= 1
  BY <1>0, <1>2 DEF Progress
<1>6. Made'
  BY <1>0, <1>2, BlockShape DEF Made, Blocks
<1>7. VersionTells'
  <2>1. "scope" \in columns'
    BY <1>0, <1>4, <1>5, BlockShape DEF VersionTells
  <2>2. CASE version' = Current
    BY <2>1, <2>2 DEF VersionTells, Current
  <2>3. CASE Skip(o) /\ version' = version
    BY <1>0, <2>1, <2>3 DEF VersionTells, Skip, vault, NoneEdited, NoneAttributed
  <2> QED
    BY <1>0, <2>2, <2>3, BlockStamps
<1>8. OpenComplete'
  <2>1. CASE InUse
    <3>1. version = Current /\ columns = Columns /\ Hashed /\ Stamped
      BY <1>0, <2>1 DEF OpenComplete
    <3>2. Columns \ {"agent_id"} \subseteq columns' /\ Hashed' /\ Stamped'
      BY <1>0, <1>3, <2>1, <3>1, BlockKeepsFilled
    <3>3. "agent_id" \in columns'
      BY <1>0, <1>3, <2>1, <3>1, BlockShape DEF Columns
    <3>4. columns' = Columns
      BY <1>1, <3>2, <3>3 DEF TypeOK
    <3>5. version' = Current
      BY <1>0, <3>1, BlockStamps
    <3> QED
      BY <3>2, <3>4, <3>5 DEF OpenComplete
  <2>2. CASE pc'[o] = "open"
    <3>1. EnsureAgent(o) /\ pc[o] = "v10"
      BY <1>0, <2>2, BlockMoves DEF EnsureAgent
    <3>2. Hashed /\ Stamped /\ "synced_at" \in columns /\ "scope" \in columns
      BY <1>0, <1>2, <1>5, <3>1 DEF Progress, VersionTells
    <3>3. columns' = Columns /\ version' = Current
      BY <1>1, <3>1, <3>2 DEF EnsureAgent, Stamp, Hashed, Stamped, TypeOK, Columns
    <3>4. Hashed' /\ Stamped'
      BY <3>1, <3>2 DEF EnsureAgent, Hashed, Stamped, LiveIds
    <3> QED
      BY <3>3, <3>4 DEF OpenComplete
  <2>3. InUse' => InUse \/ pc'[o] = "open"
    BY <1>2 DEF InUse
  <2> QED
    BY <2>1, <2>2, <2>3 DEF OpenComplete
<1>9. Alone'
  BY <1>2 DEF Alone
<1>10. Progress(o)'
  <2> SUFFICES ASSUME pc'[o] \in Blocks PROVE Progress(o)'
    BY DEF Progress
  <2>1. seen'[o] <= version' /\ version' >= 1
    BY <1>0, <1>2, <1>4, <1>5, BlockStamps, BlockOrder DEF Progress, TypeOK, Current, AddColumns, Stamp
  <2>2. seen'[o] < 3 /\ pc'[o] \in {"v1", "v2", "v3"} => NoneEdited'
    BY <1>0, <1>2, BlockOrder, BlockKeepsEmpty DEF Progress
  <2>3. seen'[o] < 7 => NoneAttributed'
    BY <1>0, <1>2, BlockKeepsEmpty DEF Progress
  <2>4. pc[o] # "v3" => ~RecreateV3(o)
    BY DEF RecreateV3
  <2>5. pc'[o] \in {"v5", "v6", "v7", "tables", "v10"} => Hashed'
    BY <1>0, <1>2, <2>4, BlockOrder, BlockKeepsFilled DEF Progress, EnsureHash
  <2>6. pc'[o] \in {"v6", "v7", "tables", "v10"} => Stamped'
    BY <1>0, <1>2, <2>4, BlockOrder, BlockKeepsFilled DEF Progress, EnsureModified
  <2>7. pc'[o] \in {"v7", "tables", "v10"} => "synced_at" \in columns'
    BY <1>0, <1>2, <2>4, BlockOrder, BlockKeepsFilled, BlockShape DEF Progress
  <2>8. InUse' => seen'[o] = Current
    <3>1. InUse' => InUse
      BY <1>2 DEF InUse, Blocks
    <3> QED
      BY <1>0, <1>2, <3>1 DEF Progress
  <2> QED
    BY <2>1, <2>2, <2>3, <2>5, <2>6, <2>7, <2>8 DEF Progress
<1>11. \A p \in Openers \ {o} : Progress(p)'
  BY <1>2 DEF Progress, Migrating
<1> QED
  BY <1>1, <1>6, <1>7, <1>8, <1>9, <1>10, <1>11 DEF IInv

\* Whoever begins finds nobody migrating.
LEMMA CreateTablesInvariant ==
    ASSUME Exclusive, IInv, NEW o \in Openers, CreateTables(o)
    PROVE  IInv'
<1>0. TypeOK /\ Made /\ VersionTells /\ OpenComplete /\ version \in Nat
  BY DEF IInv, TypeOK, Current
<1>1. TypeOK'
  BY <1>0, StepType DEF Next
<1>2. /\ \A p \in Openers : pc[p] \in {"closed", "open"}
      /\ pc'[o] = "read" /\ seen' = seen
      /\ \A p \in Openers \ {o} : pc'[p] = pc[p]
  BY <1>0, GotoMoves DEF CreateTables
<1>3. version' = version /\ engrams' = engrams
  BY DEF CreateTables
<1>4. Made'
  BY <1>2 DEF CreateTables, Made
<1>5. VersionTells'
  BY <1>0, <1>3 DEF CreateTables, VersionTells, NoneEdited, NoneAttributed, Made
<1>6. OpenComplete'
  <2>1. InUse' => InUse
    BY <1>2 DEF InUse
  <2>2. InUse => columns' = columns
    BY <1>0 DEF InUse, Made, CreateTables
  <2> QED
    BY <1>0, <1>3, <2>1, <2>2 DEF OpenComplete, Hashed, Stamped, LiveIds
<1>7. Alone' /\ \A p \in Openers : Progress(p)'
  BY <1>2 DEF Alone, Progress, Migrating, Blocks
<1> QED
  BY <1>1, <1>4, <1>5, <1>6, <1>7 DEF IInv

LEMMA ReadVersionInvariant ==
    ASSUME IInv, NEW o \in Openers, ReadVersion(o)
    PROVE  IInv'
<1>0. TypeOK /\ Made /\ VersionTells /\ OpenComplete /\ Alone /\ version \in Nat
  BY DEF IInv, TypeOK, Current
<1>1. TypeOK'
  BY <1>0, StepType DEF Next
<1>2. /\ pc[o] = "read" /\ pc'[o] = "v1" /\ seen'[o] = version
      /\ \A p \in Openers \ {o} : pc'[p] = pc[p] /\ pc[p] \notin Migrating
      /\ UNCHANGED vault
  BY <1>0 DEF ReadVersion, TypeOK, Alone, Migrating
<1>3. InUse' => InUse
  BY <1>2 DEF InUse
<1>4. Made' /\ VersionTells'
  BY <1>0, <1>2 DEF Made, VersionTells, NoneEdited, NoneAttributed, vault
<1>5. OpenComplete'
  BY <1>0, <1>2, <1>3 DEF OpenComplete, Hashed, Stamped, LiveIds, vault
<1>6. Alone'
  BY <1>2 DEF Alone
<1>7. Progress(o)'
  BY <1>0, <1>2, <1>3 DEF Progress, VersionTells, OpenComplete, NoneEdited, NoneAttributed, vault
<1>8. \A p \in Openers \ {o} : Progress(p)'
  BY <1>2 DEF Progress, Migrating
<1> QED
  BY <1>1, <1>4, <1>5, <1>6, <1>7, <1>8 DEF IInv

LEMMA LeaveInvariant ==
    ASSUME IInv, NEW o \in Openers, Abandon(o) \/ Close(o)
    PROVE  IInv'
<1>0. /\ TypeOK /\ Made /\ VersionTells /\ OpenComplete /\ Alone
      /\ \A p \in Openers : Progress(p)
  BY DEF IInv
<1>1. TypeOK'
  BY <1>0, StepType DEF Next
<1>2. /\ pc'[o] = "closed" /\ seen' = seen /\ UNCHANGED vault
      /\ \A p \in Openers \ {o} : pc'[p] = pc[p]
  BY <1>0, GotoMoves DEF Abandon, Close
<1>3. InUse' => InUse
  BY <1>2 DEF InUse
<1>4. Made' /\ VersionTells' /\ Alone'
  BY <1>0, <1>2 DEF Made, VersionTells, NoneEdited, NoneAttributed, vault, Alone, Migrating, Blocks
<1>5. OpenComplete'
  BY <1>0, <1>2, <1>3 DEF OpenComplete, Hashed, Stamped, LiveIds, vault
<1>6. ASSUME NEW p \in Openers PROVE Progress(p)'
  <2>1. CASE p = o
    BY <1>2, <2>1 DEF Progress, Blocks
  <2>2. CASE p # o
    BY <1>0, <1>2, <1>3, <2>2 DEF Progress, NoneEdited, NoneAttributed, Hashed, Stamped, LiveIds,
       vault
  <2> QED
    BY <2>1, <2>2
<1> QED
  BY <1>1, <1>4, <1>5, <1>6 DEF IInv

\* Foreign keys play no part in what is ensured.
LEMMA KeysInvariant ==
    ASSUME IInv, [Next]_vars, UNCHANGED <<vault, pc, seen>>
    PROVE  IInv'
<1>1. TypeOK'
  BY StepType DEF IInv
<1>2. Made' /\ VersionTells' /\ Alone' /\ OpenComplete'
  BY DEF IInv, vault, Made, VersionTells, Alone, OpenComplete, InUse, NoneEdited,
     NoneAttributed, Hashed, Stamped, LiveIds
<1>3. ASSUME NEW p \in Openers PROVE Progress(p)'
  BY DEF IInv, vault, Progress, InUse, NoneEdited, NoneAttributed, Hashed, Stamped, LiveIds
<1> QED
  BY <1>1, <1>2, <1>3 DEF IInv

\* Nor do links, and what is deleted lacks nothing.
LEMMA RemovalInvariant ==
    ASSUME IInv, NEW o \in Openers, NEW i \in Ids,
           Delete(o, i) \/ \E j \in Ids : Link(o, i, j)
    PROVE  IInv'
<1>0. /\ TypeOK /\ Made /\ VersionTells /\ OpenComplete /\ Alone
      /\ \A p \in Openers : Progress(p)
  BY DEF IInv
<1>1. TypeOK'
  BY <1>0, StepType DEF Next, Use
<1>2. UNCHANGED <<version, columns, sources, pc, seen>> /\ pc[o] = "open"
  BY DEF Delete, Link
<1>3. InUse /\ version = Current /\ Hashed /\ Stamped
  BY <1>0, <1>2 DEF OpenComplete, InUse
<1>4. \A j \in Ids : engrams'[j] = engrams[j] \/ engrams'[j].rowid = 0
  BY <1>0 DEF Delete, Link, TypeOK, NoRow
<1>5. Hashed' /\ Stamped'
  BY <1>2, <1>3, <1>4 DEF Hashed, Stamped, LiveIds
<1>6. Made' /\ VersionTells' /\ Alone' /\ OpenComplete'
  BY <1>0, <1>2, <1>3, <1>5 DEF Made, VersionTells, Alone, OpenComplete, InUse, Current
<1>7. ASSUME NEW p \in Openers PROVE Progress(p)'
  BY <1>0, <1>2, <1>3, <1>5 DEF Progress, Current, InUse
<1> QED
  BY <1>1, <1>6, <1>7 DEF IInv

LEMMA StoreInvariant ==
    ASSUME IInv, NEW o \in Openers, NEW i \in Ids, Store(o, i)
    PROVE  IInv'
<1>0. /\ TypeOK /\ Made /\ VersionTells /\ OpenComplete /\ Alone
      /\ \A p \in Openers : Progress(p)
  BY DEF IInv
<1>1. TypeOK'
  BY <1>0, StepType DEF Next, Use
<1>2. UNCHANGED <<version, columns, sources, triggers, links, pc, seen>> /\ pc[o] = "open"
  BY DEF Store
<1>3. InUse /\ version = Current /\ Hashed /\ Stamped
  BY <1>0, <1>2 DEF OpenComplete, InUse
<1>4. Hashed' /\ Stamped'
  <2>1. PICK r \in 1..MaxRowid, m \in 1..2, agent \in 0..1 :
          engrams' = [engrams EXCEPT ![i] =
            [rowid |-> r, hash |-> 1, modified |-> m, synced |-> @.synced, agent |-> agent]]
    BY DEF Store
  <2>2. engrams'[i].hash = 1 /\ engrams'[i].modified # 0
    BY <1>0, <2>1 DEF TypeOK
  <2>3. \A j \in Ids \ {i} : engrams'[j] = engrams[j]
    BY <1>0, <2>1 DEF TypeOK
  <2> QED
    BY <1>2, <1>3, <2>2, <2>3 DEF Hashed, Stamped, LiveIds
<1>5. Made' /\ VersionTells' /\ Alone' /\ OpenComplete'
  BY <1>0, <1>2, <1>3, <1>4 DEF Made, VersionTells, Alone, OpenComplete, InUse, Current
<1>6. ASSUME NEW p \in Openers PROVE Progress(p)'
  BY <1>0, <1>2, <1>3, <1>4 DEF Progress, Current, InUse
<1> QED
  BY <1>1, <1>5, <1>6 DEF IInv

LEMMA StepInvariant == Exclusive /\ IInv /\ [Next]_vars => IInv'
<1> SUFFICES ASSUME Exclusive, IInv, [Next]_vars PROVE IInv'
  OBVIOUS
<1>1. CASE UNCHANGED vars
  BY <1>1, KeysInvariant DEF vars
<1>2. ASSUME NEW o \in Openers, ForeignKeys(o) PROVE IInv'
  BY <1>2, KeysInvariant DEF ForeignKeys, ForeignKeysOff, ForeignKeysBack
<1>3. ASSUME NEW o \in Openers, Use(o) PROVE IInv'
  BY <1>3, StoreInvariant, RemovalInvariant DEF Use
<1> QED
  BY <1>1, <1>2, <1>3, CreateTablesInvariant, ReadVersionInvariant, BlockInvariant,
     LeaveInvariant DEF Next

\* If no process opens the vault while another one migrates it, a vault that
\* could be opened has every column and every backfilled value, whatever was
\* cut short before.
THEOREM Complete == ASSUME Exclusive PROVE Spec => []OpenIsComplete
<1>1. IInv => OpenIsComplete
  BY DEF IInv, OpenComplete, InUse, OpenIsComplete, Hashed, Stamped
<1>2. IInv /\ [Next]_vars => IInv'
  BY StepInvariant
<1> QED
  BY <1>1, <1>2, InitInvariant, PTL DEF Spec

-----------------------------------------------------------------------------
\* What MemoriesPreserved says of memory i.
Preserved(i) ==
    /\ i \in LiveIds'
    /\ engrams[i].modified <= engrams'[i].modified
    /\ engrams[i].synced \in {0, engrams'[i].synced}
    /\ engrams[i].agent <= engrams'[i].agent

LEMMA BlockPreserves ==
    ASSUME IInv, NEW o \in Openers, Block(o), NEW i \in LiveIds
    PROVE  Preserved(i)
<1>0. TypeOK /\ Progress(o) /\ pc[o] \in Blocks
  BY BlockMoves DEF IInv
<1>1. i \in Ids /\ engrams[i].rowid # 0
  BY DEF LiveIds
<1>2. engrams[i].modified \in 0..2 /\ engrams[i].agent \in 0..1
  BY <1>0, <1>1 DEF TypeOK, Row, NoRow
<1>3. TypeOK'
  BY <1>0, StepType DEF Next
<1>4. engrams'[i].modified \in 0..2
  BY <1>1, <1>3 DEF TypeOK, Row, NoRow
<1>5. CASE Shapes(o)
  <2>1. engrams' = engrams
    BY <1>5 DEF Shapes, Skip, AddColumns, DropTriggers, EnsureTables, EnsureAgent, vault
  <2> QED
    BY <1>1, <1>2, <2>1 DEF Preserved, LiveIds
<1>6. CASE RecreateV3(o)
  <2>1. NoneEdited /\ NoneAttributed
    BY <1>0, <1>6 DEF RecreateV3, Progress, TypeOK
  <2>2. engrams'[i].rowid # 0 /\ engrams'[i].agent = 0
    BY <1>0, <1>1, <1>6, RecreateRows DEF RecreateV3
  <2> QED
    BY <1>1, <1>4, <2>1, <2>2 DEF NoneEdited, NoneAttributed, Preserved, LiveIds
<1>7. CASE RecreateV7(o)
  <2>1. NoneAttributed
    BY <1>0, <1>7 DEF RecreateV7, Progress
  <2>2. /\ engrams'[i].rowid # 0 /\ engrams'[i].agent = 0
        /\ engrams'[i].modified = engrams[i].modified /\ engrams'[i].synced = engrams[i].synced
    BY <1>0, <1>1, <1>7, RecreateRows DEF RecreateV7, Columns
  <2> QED
    BY <1>1, <1>2, <2>1, <2>2 DEF NoneAttributed, Preserved, LiveIds
<1>8. CASE EnsureHash(o)
  BY <1>0, <1>1, <1>2, <1>8, EnsureHashRows DEF Preserved, LiveIds
<1>9. CASE EnsureModified(o)
  BY <1>0, <1>1, <1>2, <1>4, <1>9, EnsureModifiedRows DEF Preserved, LiveIds
<1>10. CASE EnsureSynced(o)
  BY <1>0, <1>1, <1>2, <1>10, EnsureSyncedRows DEF Preserved, LiveIds
<1> QED
  BY <1>5, <1>6, <1>7, <1>8, <1>9, <1>10 DEF Block, Shapes

\* If no process opens the vault while another one migrates it, no upgrade
\* loses a memory, an edit stamp, a sync cursor or an agent's name.
THEOREM NothingLost == ASSUME Exclusive PROVE Spec => MemoriesPreserved
<1>1. IInv /\ [Next]_vars =>
        [(\E o \in Openers : Block(o)) => \A i \in LiveIds :
            /\ i \in LiveIds'
            /\ engrams[i].modified <= engrams'[i].modified
            /\ engrams[i].synced \in {0, engrams'[i].synced}
            /\ engrams[i].agent <= engrams'[i].agent]_vars
  BY BlockPreserves DEF Preserved
<1>2. IInv /\ [Next]_vars => IInv'
  BY StepInvariant
<1> QED
  BY <1>1, <1>2, InitInvariant, PTL DEF Spec, MemoriesPreserved

-----------------------------------------------------------------------------
(***************************************************************************)
(* Rowids and links across the table swaps                                 *)
(***************************************************************************)

\* No two rows have one rowid: an entry of the index is of one memory.
RowidsApart == \A i, j \in LiveIds : engrams[i].rowid = engrams[j].rowid => i = j

\* A connection enforces foreign keys from its opening on, but for the table
\* swaps, and there it has turned them off before the table is dropped.
KeysGuard ==
    \A o \in Openers :
      /\ pc[o] # "closed" /\ keys[o].swap = "none" => keys[o].on
      /\ keys[o].swap # "none" => ~keys[o].on /\ keys[o].were
      /\ keys[o].swap = "begun" => pc[o] \in {"v3", "v7"}
      /\ keys[o].swap = "over" => pc[o] \in {"v4", "tables"}
      /\ keys[o].swap = "begun" => SwapDue(o)

\* SQLite's rowids are bounded, hence so are the rows.
LEMMA RowsFinite ==
    ASSUME TypeOK, RowidsApart
    PROVE  IsFiniteSet(LiveIds) /\ Cardinality(LiveIds) \in Nat
<1> DEFINE at == [i \in LiveIds |-> engrams[i].rowid]
<1>1. \A i \in LiveIds : i \in Ids /\ engrams[i].rowid \in 1..MaxRowid
  BY DEF LiveIds, TypeOK, Row, NoRow
<1>2. at \in Injection(LiveIds, 1..MaxRowid)
  <2>1. at \in [LiveIds -> 1..MaxRowid]
    BY <1>1
  <2>2. ASSUME NEW i \in LiveIds, NEW j \in LiveIds, at[i] = at[j] PROVE i = j
    BY <2>2 DEF RowidsApart
  <2> QED
    BY <2>1, <2>2 DEF Injection, IsInjective
<1>3. IsFiniteSet(1..MaxRowid)
  <2>1. 1 \in Int /\ MaxRowid \in Int
    BY RowidAssumption
  <2> QED
    BY <2>1, FS_Interval
<1> HIDE DEF at
<1>4. IsFiniteSet(LiveIds)
  BY <1>2, <1>3, FS_Injection
<1> QED
  BY <1>4, FS_CardinalityType

\* A swap numbers the rows it copies anew, each by itself.
LEMMA RecreateApart ==
    ASSUME TypeOK, RowidsApart, NEW o \in Openers, NEW kept, Recreate(o, kept)
    PROVE  RowidsApart' /\ LiveIds' = LiveIds
<1>1. PICK rowid \in [Ids -> 1..MaxRowid] :
        /\ {rowid[i] : i \in LiveIds} = 1..Cardinality(LiveIds)
        /\ engrams' = [i \in Ids |-> Copied(kept, engrams[i], rowid[i])]
  BY DEF Recreate
<1>2. LiveIds' = LiveIds
  BY RecreateRows DEF LiveIds
<1> DEFINE to == [i \in LiveIds |-> rowid[i]]
           numbers == 1..Cardinality(LiveIds)
<1>3. IsFiniteSet(LiveIds) /\ Cardinality(LiveIds) \in Nat
  BY RowsFinite
<1>4. to \in Surjection(LiveIds, numbers)
  <2>1. to \in [LiveIds -> numbers]
    BY <1>1
  <2>2. \A n \in numbers : \E i \in LiveIds : to[i] = n
    BY <1>1
  <2> QED
    BY <2>1, <2>2 DEF Surjection
<1>5. Cardinality(numbers) = Cardinality(LiveIds)
  <2> DEFINE n == Cardinality(LiveIds)
  <2>1. 1 \in Int /\ n \in Int /\ n \in Nat
    BY <1>3
  <2> HIDE DEF n
  <2>2. Cardinality(1..n) = IF 1 > n THEN 0 ELSE n - 1 + 1
    BY <2>1, FS_Interval
  <2>3. Cardinality(1..n) = n
    BY <2>1, <2>2
  <2> QED
    BY <2>3 DEF n
<1> HIDE DEF to, numbers
<1>6. to \in Injection(LiveIds, numbers)
  BY <1>3, <1>4, <1>5, FS_SurjSameCardinalityImpliesInj
<1>7. ASSUME NEW i \in LiveIds PROVE engrams'[i].rowid = to[i]
  BY <1>1 DEF Copied, LiveIds, to
<1>8. \A i, j \in LiveIds : to[i] = to[j] => i = j
  BY <1>6 DEF Injection, IsInjective
<1>9. \A i, j \in LiveIds : engrams'[i].rowid = engrams'[j].rowid => i = j
  BY <1>7, <1>8
<1> QED
  BY <1>2, <1>9 DEF RowidsApart

\* What a table swap does to the links depends on the foreign keys.
LEMMA SwapKeeps ==
    ASSUME KeysGuard, NEW o \in Openers, NEW kept, Recreate(o, kept)
    PROVE  links' = links
BY DEF KeysGuard, Recreate, Cascade

LEMMA InitTables == Init => RowidsApart /\ LinksHaveEnds /\ KeysGuard
BY DEF Init, Fresh, Old, RowidsApart, LinksHaveEnds, LiveIds, NoRow, KeysGuard, NoKeys

\* The steps that change foreign keys, and the others where they must be on.
LEMMA StepKeysGuard == TypeOK /\ KeysGuard /\ [Next]_vars => KeysGuard'
<1> SUFFICES ASSUME TypeOK, KeysGuard, [Next]_vars PROVE KeysGuard'
  OBVIOUS
<1>0. /\ keys \in [Openers -> Keys]
      /\ pc \in [Openers -> {"closed", "open"} \cup Migrating] /\ seen \in [Openers -> 0..Current]
  BY DEF TypeOK
<1>1. ASSUME NEW o \in Openers, NEW k, keys' = [keys EXCEPT ![o] = k],
             \A p \in Openers \ {o} : pc'[p] = pc[p] /\ seen'[p] = seen[p],
             /\ pc'[o] # "closed" /\ k.swap = "none" => k.on
             /\ k.swap # "none" => ~k.on /\ k.were
             /\ k.swap = "begun" => pc'[o] \in {"v3", "v7"} /\ SwapDue(o)'
             /\ k.swap = "over" => pc'[o] \in {"v4", "tables"}
      PROVE  KeysGuard'
  BY <1>0, <1>1 DEF KeysGuard, SwapDue
<1>2. ASSUME NEW o \in Openers, CreateTables(o) \/ Abandon(o) \/ Close(o) PROVE KeysGuard'
  <2>1. /\ \A p \in Openers \ {o} : pc'[p] = pc[p] /\ seen'[p] = seen[p]
        /\ CreateTables(o) \/ pc'[o] = "closed"
    BY <1>0, <1>2 DEF CreateTables, Abandon, Close, Goto
  <2>2. CASE CreateTables(o)
    BY <1>1, <2>1, <2>2 DEF CreateTables
  <2>3. CASE Abandon(o) \/ Close(o)
    <3>1. keys' = [keys EXCEPT ![o] = NoKeys] /\ pc'[o] = "closed"
      BY <1>0, <2>3 DEF Abandon, Close, Goto
    <3> QED
      BY <1>1, <2>1, <3>1 DEF NoKeys
  <2> QED
    BY <1>2, <2>2, <2>3
<1>3. ASSUME NEW o \in Openers, ForeignKeysOff(o) PROVE KeysGuard'
  <2>1. SwapDue(o)' /\ pc'[o] \in {"v3", "v7"} /\ keys[o].on
    BY <1>3 DEF ForeignKeysOff, SwapDue, KeysGuard
  <2> DEFINE k == [on |-> FALSE, were |-> keys[o].on, swap |-> "begun"]
  <2>2. keys' = [keys EXCEPT ![o] = k] /\ pc' = pc /\ seen' = seen
    BY <1>3 DEF ForeignKeysOff
  <2>3. k.swap = "begun" /\ ~k.on /\ k.were
    BY <2>1
  <2> HIDE DEF k
  <2> QED
    BY <1>1, <2>1, <2>2, <2>3
<1>4. ASSUME NEW o \in Openers, ForeignKeysBack(o) PROVE KeysGuard'
  <2> DEFINE k == [on |-> keys[o].on \/ keys[o].were, were |-> FALSE, swap |-> "none"]
  <2>1. keys' = [keys EXCEPT ![o] = k] /\ pc' = pc /\ seen' = seen
    BY <1>4 DEF ForeignKeysBack
  <2>2. k.swap = "none" /\ k.on
    BY <1>4 DEF ForeignKeysBack, KeysGuard
  <2> HIDE DEF k
  <2> QED
    BY <1>1, <2>1, <2>2
<1>5. ASSUME NEW o \in Openers, RecreateV3(o) \/ RecreateV7(o) PROVE KeysGuard'
  <2>1. /\ keys' = [keys EXCEPT ![o].swap = "over"] /\ keys[o].swap = "begun"
        /\ \A p \in Openers \ {o} : pc'[p] = pc[p] /\ seen'[p] = seen[p]
        /\ pc'[o] \in {"v4", "tables"}
    BY <1>0, <1>5 DEF RecreateV3, RecreateV7, Recreate, Goto
  <2> DEFINE k == [keys[o] EXCEPT !.swap = "over"]
  <2>2. k.swap = "over" /\ ~k.on /\ k.were
    BY <1>0, <2>1 DEF KeysGuard, Keys
  <2>3. keys' = [keys EXCEPT ![o] = k]
    BY <2>1
  <2> HIDE DEF k
  <2> QED
    BY <1>1, <2>1, <2>2, <2>3
<1>6. ASSUME NEW o \in Openers, Block(o), ~RecreateV3(o), ~RecreateV7(o) PROVE KeysGuard'
  <2>1. keys' = keys /\ keys[o].swap = "none" /\ pc[o] # "closed"
    <3>1. CASE Skip(o)
      <4>1. ~SwapDue(o) /\ pc[o] \in {"v1", "v2", "v3", "v7"}
        BY <1>0, <3>1 DEF Skip, SwapDue
      <4> QED
        BY <1>0, <3>1, <4>1 DEF Skip, KeysGuard, Keys
    <3>2. CASE ~Skip(o)
      BY <1>0, <1>6, <3>2 DEF Block, AddColumns, DropTriggers, EnsureHash, EnsureModified,
         EnsureSynced, EnsureTables, EnsureAgent, KeysGuard, Keys
    <3> QED
      BY <3>1, <3>2
  <2>2. \A p \in Openers \ {o} : pc'[p] = pc[p] /\ seen'[p] = seen[p]
    BY <1>6, BlockMoves
  <2> QED
    BY <2>1, <2>2 DEF KeysGuard, SwapDue
<1>7. ASSUME NEW o \in Openers, ReadVersion(o) PROVE KeysGuard'
  <2>1. /\ keys' = keys /\ keys[o].swap = "none" /\ pc[o] # "closed"
        /\ \A p \in Openers \ {o} : pc'[p] = pc[p] /\ seen'[p] = seen[p]
    BY <1>0, <1>7 DEF ReadVersion, KeysGuard, Keys
  <2> QED
    BY <2>1 DEF KeysGuard, SwapDue
<1>8. CASE UNCHANGED <<pc, seen, keys>>
  BY <1>8 DEF KeysGuard, SwapDue
<1> QED
  BY <1>2, <1>3, <1>4, <1>5, <1>6, <1>7, <1>8 DEF Next, ForeignKeys, Use, Store, Delete, Link, vars

LEMMA StepTables ==
    TypeOK /\ RowidsApart /\ LinksHaveEnds /\ KeysGuard /\ [Next]_vars
      => RowidsApart' /\ LinksHaveEnds'
<1> SUFFICES ASSUME TypeOK, RowidsApart, LinksHaveEnds, KeysGuard, [Next]_vars
             PROVE  RowidsApart' /\ LinksHaveEnds'
  OBVIOUS
<1>1. ASSUME \A i \in Ids : engrams'[i].rowid = engrams[i].rowid, links' = links
      PROVE  RowidsApart' /\ LinksHaveEnds'
  BY <1>1 DEF RowidsApart, LinksHaveEnds, LiveIds
<1>2. ASSUME NEW o \in Openers, Shapes(o) \/ CreateTables(o) \/ ReadVersion(o) \/ Abandon(o)
                                \/ Close(o) \/ ForeignKeys(o)
      PROVE  RowidsApart' /\ LinksHaveEnds'
  BY <1>1, <1>2 DEF Shapes, Skip, AddColumns, DropTriggers, EnsureTables, EnsureAgent,
     CreateTables, ReadVersion, Abandon, Close, ForeignKeys, ForeignKeysOff, ForeignKeysBack, vault
<1>3. ASSUME NEW o \in Openers, EnsureHash(o) \/ EnsureModified(o) \/ EnsureSynced(o)
      PROVE  RowidsApart' /\ LinksHaveEnds'
  <2>1. \A i \in Ids : engrams'[i].rowid = engrams[i].rowid
    BY <1>3, EnsureHashRows, EnsureModifiedRows, EnsureSyncedRows
  <2> QED
    BY <1>1, <1>3, <2>1 DEF EnsureHash, EnsureModified, EnsureSynced
<1>4. ASSUME NEW o \in Openers, NEW kept, Recreate(o, kept) PROVE RowidsApart' /\ LinksHaveEnds'
  BY <1>4, RecreateApart, SwapKeeps DEF LinksHaveEnds
<1>5. ASSUME NEW o \in Openers, NEW i \in Ids, Store(o, i) PROVE RowidsApart' /\ LinksHaveEnds'
  <2>1. PICK r \in 1..MaxRowid, m \in 1..2, agent \in 0..1 :
         /\ IF i \in LiveIds THEN r = engrams[i].rowid
                             ELSE \A j \in LiveIds : engrams[j].rowid # r
         /\ engrams' = [engrams EXCEPT ![i] =
              [rowid |-> r, hash |-> 1, modified |-> m, synced |-> @.synced,
               agent |-> agent]]
    BY <1>5 DEF Store
  <2>2. engrams'[i].rowid = r /\ r # 0 /\ \A j \in Ids \ {i} : engrams'[j] = engrams[j]
    BY <2>1 DEF TypeOK
  <2>3. LiveIds' = LiveIds \cup {i}
    BY <2>2 DEF LiveIds
  <2>4. RowidsApart'
    <3>1. ASSUME NEW j \in LiveIds', NEW k \in LiveIds', engrams'[j].rowid = engrams'[k].rowid
          PROVE  j = k
      BY <2>1, <2>2, <2>3, <3>1 DEF RowidsApart, LiveIds
    <3> QED
      BY <3>1 DEF RowidsApart
  <2> QED
    BY <1>5, <2>3, <2>4 DEF Store, LinksHaveEnds
<1>6. ASSUME NEW o \in Openers, NEW i \in Ids, Delete(o, i) PROVE RowidsApart' /\ LinksHaveEnds'
  <2>1. engrams'[i].rowid = 0 /\ \A j \in Ids \ {i} : engrams'[j] = engrams[j]
    BY <1>6 DEF Delete, TypeOK, NoRow
  <2>2. LiveIds' = LiveIds \ {i}
    BY <2>1 DEF LiveIds
  <2>3. keys[o].swap = "none"
    BY <1>6 DEF Delete, KeysGuard, TypeOK, Keys
  <2>4. keys[o].on
    BY <1>6, <2>3 DEF Delete, KeysGuard
  <2>5. links' = {l \in links : l[1] # i /\ l[2] # i}
    BY <1>6, <2>4 DEF Delete, Cascade
  <2> QED
    BY <2>1, <2>2, <2>5 DEF RowidsApart, LinksHaveEnds, LiveIds
<1>7. ASSUME NEW o \in Openers, NEW i \in Ids, NEW j \in Ids, Link(o, i, j)
      PROVE  RowidsApart' /\ LinksHaveEnds'
  <2>1. keys[o].swap = "none"
    BY <1>7 DEF Link, KeysGuard, TypeOK, Keys
  <2>2. i \in LiveIds /\ j \in LiveIds
    BY <1>7, <2>1 DEF Link, KeysGuard
  <2> QED
    BY <1>7, <2>2 DEF Link, RowidsApart, LinksHaveEnds, LiveIds
<1>8. CASE UNCHANGED vars
  BY <1>1, <1>8 DEF vars, vault
<1> QED
  BY <1>2, <1>3, <1>4, <1>5, <1>6, <1>7, <1>8 DEF Next, Block, Shapes, RecreateV3, RecreateV7, Use

LEMMA AlwaysTables == Spec => [](RowidsApart /\ LinksHaveEnds /\ KeysGuard)
BY InitType, StepType, InitTables, StepTables, StepKeysGuard, PTL DEF Spec

\* The table swaps number the rows anew, and no two get one number: what the
\* index is rebuilt from, by rowid, names each memory once, whatever upgrades
\* were cut short and whoever else was migrating.
THEOREM OneRowEach == Spec => []RowidsApart
BY AlwaysTables, PTL

\* Both ends of a link are stored, through the drops of the table they are
\* stored in and the deletions of an open vault: a connection that is out of
\* migrate enforces foreign keys.
THEOREM LinkEnds == Spec => []LinksHaveEnds
BY AlwaysTables, PTL

\* No migration deletes a link, however many processes migrate at once: where
\* a table is dropped the connection's foreign keys are off, though they were
\* on when it was opened.
THEOREM LinksSurvive == Spec => LinksKept
<1>1. KeysGuard /\ [Next]_vars => [(\E o \in Openers : Block(o)) => links \subseteq links']_vars
  <2> SUFFICES ASSUME KeysGuard, NEW o \in Openers, Block(o) PROVE links \subseteq links'
    OBVIOUS
  <2>1. CASE RecreateV3(o) \/ RecreateV7(o)
    BY <2>1, SwapKeeps DEF RecreateV3, RecreateV7
  <2>2. CASE ~RecreateV3(o) /\ ~RecreateV7(o)
    BY <2>2 DEF Block, Skip, AddColumns, DropTriggers, EnsureHash, EnsureModified, EnsureSynced,
       EnsureTables, EnsureAgent, vault
  <2> QED
    BY <2>1, <2>2
<1> QED
  BY <1>1, AlwaysTables, PTL DEF Spec, LinksKept

-----------------------------------------------------------------------------
(***************************************************************************)
(* The version a vault claims                                              *)
(*                                                                         *)
(* Every block stamps the newest version, so in the middle of an upgrade   *)
(* the file claims v7 while its table still has the old CHECK on source.   *)
(* The process that runs the upgrade has v7 ahead of it, though, and only  *)
(* its end before v7 can leave the claim behind.                           *)
(***************************************************************************)

\* Opener o read a version below 7 and has yet to run v7.
Ahead(o) == pc[o] \in {"v1", "v2", "v3", "v4", "v5", "v6", "v7"} /\ seen[o] < 7

HonestInv ==
    /\ version >= 7 => sources = "chat" \/ \E o \in Openers : Ahead(o)
    /\ \A o \in Openers : pc[o] \in {"tables", "v10"} /\ seen[o] < 7 => sources = "chat"
    /\ \A o \in Openers : pc[o] \in Blocks /\ seen[o] >= 7 => version >= 7

\* A step stamps the newest version or none, no step brings an old CHECK
\* back, and only the opener that moves changes its place.
LEMMA StepVersion ==
    ASSUME TypeOK, NEW o \in Openers,
           \/ CreateTables(o) \/ ReadVersion(o) \/ Block(o) \/ Close(o)
           \/ ForeignKeys(o) \/ Use(o)
    PROVE  /\ version' \in {version, Current}
           /\ sources = "chat" => sources' = "chat"
           /\ \A p \in Openers \ {o} : pc'[p] = pc[p] /\ seen'[p] = seen[p]
           /\ seen'[o] = IF pc[o] = "read" THEN version ELSE seen[o]
<1>0. pc \in [Openers -> {"closed", "open"} \cup Migrating] /\ seen \in [Openers -> 0..Current]
  BY DEF TypeOK
<1>1. CASE CreateTables(o)
  BY <1>0, <1>1 DEF CreateTables, Goto
<1>2. CASE ReadVersion(o)
  BY <1>0, <1>2 DEF ReadVersion, vault
<1>3. CASE Block(o)
  BY <1>0, <1>3 DEF Block, Skip, AddColumns, DropTriggers, RecreateV3, EnsureHash,
     EnsureModified, EnsureSynced, RecreateV7, EnsureTables, EnsureAgent, Stamp, Goto, vault
<1>4. CASE Close(o) \/ ForeignKeys(o) \/ Use(o)
  <2>1. CASE Close(o)
    BY <1>0, <2>1 DEF Close, Goto, vault
  <2>2. CASE ForeignKeys(o)
    BY <1>0, <2>2 DEF ForeignKeys, ForeignKeysOff, ForeignKeysBack, SwapDue, vault
  <2>3. CASE Use(o)
    BY <1>0, <2>3 DEF Use, Store, Delete, Link
  <2> QED
    BY <1>4, <2>1, <2>2, <2>3
<1> QED
  BY <1>1, <1>2, <1>3, <1>4

\* Where a step leads the opener that makes it, and what it may stamp.
LEMMA StepPlace ==
    ASSUME TypeOK, NEW o \in Openers,
           \/ CreateTables(o) \/ ReadVersion(o) \/ Block(o) \/ Close(o)
           \/ ForeignKeys(o) \/ Use(o)
    PROVE  /\ version' # version => pc[o] \in Blocks
           /\ Ahead(o) => \/ pc'[o] \in {"v2", "v3", "v4", "v5", "v6", "v7"}
                          \/ sources' = "chat"
           /\ pc'[o] \in Blocks => pc[o] \in Blocks \cup {"read"}
           /\ pc'[o] \in {"tables", "v10"} /\ seen[o] < 7
                => pc[o] \in {"tables", "v10"} \/ sources' = "chat"
           /\ pc[o] = "read" => version' = version /\ pc'[o] \in {"v1", "read"}
<1>0. pc \in [Openers -> {"closed", "open"} \cup Migrating] /\ seen[o] \in 0..Current
  BY DEF TypeOK
<1> USE DEF Ahead, Blocks
<1>1. CASE CreateTables(o)
  BY <1>0, <1>1 DEF CreateTables, Goto
<1>2. CASE ReadVersion(o)
  BY <1>0, <1>2 DEF ReadVersion, vault
<1>3. CASE Skip(o)
  BY <1>0, <1>3 DEF Skip, Goto, vault
<1>4. CASE AddColumns(o) \/ DropTriggers(o) \/ RecreateV3(o) \/ EnsureHash(o)
  BY <1>0, <1>4 DEF AddColumns, DropTriggers, RecreateV3, EnsureHash, Goto
<1>5. CASE EnsureModified(o) \/ EnsureSynced(o) \/ RecreateV7(o) \/ EnsureTables(o)
           \/ EnsureAgent(o)
  BY <1>0, <1>5 DEF EnsureModified, EnsureSynced, RecreateV7, EnsureTables, EnsureAgent, Goto
<1>6. CASE Close(o) \/ ForeignKeys(o) \/ Use(o)
  <2>1. CASE Close(o)
    BY <1>0, <2>1 DEF Close, Goto, vault
  <2>2. CASE ForeignKeys(o)
    BY <1>0, <2>2 DEF ForeignKeys, ForeignKeysOff, ForeignKeysBack, SwapDue, vault
  <2>3. CASE Use(o)
    BY <1>0, <2>3 DEF Use, Store, Delete, Link
  <2> QED
    BY <1>6, <2>1, <2>2, <2>3
<1> QED
  BY <1>1, <1>2, <1>3, <1>4, <1>5, <1>6 DEF Block

LEMMA StepHonest ==
    ASSUME TypeOK, HonestInv, NEW o \in Openers,
           \/ CreateTables(o) \/ ReadVersion(o) \/ Block(o) \/ Close(o)
           \/ ForeignKeys(o) \/ Use(o)
    PROVE  HonestInv'
<1>0. /\ version \in 0..Current /\ seen \in [Openers -> 0..Current]
      /\ pc \in [Openers -> {"closed", "open"} \cup Migrating]
  BY DEF TypeOK
<1>1. ASSUME version' >= 7 PROVE sources' = "chat" \/ \E p \in Openers : Ahead(p)'
  <2>1. CASE Ahead(o)
    BY <1>0, <2>1, StepPlace, StepVersion DEF Ahead
  <2>2. CASE ~Ahead(o)
    <3>1. version >= 7 \/ sources' = "chat"
      <4>1. CASE version' = version
        BY <1>1, <4>1
      <4>2. CASE version' # version
        <5>1. pc[o] \in Blocks
          BY <4>2, StepPlace
        <5>2. seen[o] >= 7 \/ pc[o] \in {"tables", "v10"}
          BY <1>0, <2>2, <5>1 DEF Ahead, Blocks, Current
        <5> QED
          BY <1>0, <5>1, <5>2, StepVersion DEF HonestInv, Current
      <4> QED
        BY <4>1, <4>2
    <3>2. CASE sources = "chat" \/ sources' = "chat"
      BY <3>2, StepVersion
    <3>3. CASE sources # "chat" /\ version >= 7
      <4>1. PICK p \in Openers : Ahead(p)
        BY <3>3 DEF HonestInv
      <4>2. p # o
        BY <2>2, <4>1
      <4> QED
        BY <4>1, <4>2, StepVersion DEF Ahead
    <3> QED
      BY <3>1, <3>2, <3>3
  <2> QED
    BY <2>1, <2>2
<1>2. ASSUME NEW p \in Openers, pc'[p] \in {"tables", "v10"}, seen'[p] < 7
      PROVE  sources' = "chat"
  <2>1. CASE p # o
    BY <1>2, <2>1, StepVersion DEF HonestInv
  <2>2. CASE p = o
    <3>1. pc[o] # "read"
      BY <1>2, <2>2, StepPlace
    <3>2. seen'[o] = seen[o]
      BY <3>1, StepVersion
    <3> QED
      BY <1>2, <2>2, <3>2, StepPlace, StepVersion DEF HonestInv
  <2> QED
    BY <2>1, <2>2
<1>3. ASSUME NEW p \in Openers, pc'[p] \in Blocks, seen'[p] >= 7 PROVE version' >= 7
  <2>1. version >= 7 => version' >= 7
    BY <1>0, StepVersion DEF Current
  <2>2. CASE p # o
    BY <1>3, <2>1, <2>2, StepVersion DEF HonestInv
  <2>3. CASE p = o /\ pc[o] = "read"
    BY <1>3, <2>3, StepPlace, StepVersion
  <2>4. CASE p = o /\ pc[o] # "read"
    BY <1>3, <2>1, <2>4, StepPlace, StepVersion DEF HonestInv
  <2> QED
    BY <2>2, <2>3, <2>4
<1> QED
  BY <1>1, <1>2, <1>3 DEF HonestInv

LEMMA InitHonest == Init => HonestInv
<1> SUFFICES ASSUME Init PROVE HonestInv
  OBVIOUS
<1>1. \A o \in Openers : pc[o] = "closed"
  BY DEF Init
<1>2. version >= 7 => sources = "chat"
  <2>1. CASE Fresh
    BY <2>1 DEF Fresh
  <2>2. ASSUME NEW v \in Versions, Old(v) PROVE version >= 7 => sources = "chat"
    <3>1. v \in 0..Current
      BY VersionsAssumption
    <3> QED
      BY <2>2, <3>1 DEF Old, SourcesAt, Current
  <2> QED
    BY <2>1, <2>2 DEF Init
<1> QED
  BY <1>1, <1>2 DEF HonestInv, Blocks

\* A vault that says v7 accepts v7's sources, unless an upgrade of it was cut
\* short: without that, no two processes that upgrade it at once, and no order
\* of their blocks, make it claim more than it has (migrate's user_version
\* stamps; the run migrate_crash shows the cut that does).
THEOREM OnlyCutsLie == Spec /\ [][\A o \in Openers : ~Abandon(o)]_vars => []VersionHonest
<1>1. HonestInv => VersionHonest
  BY DEF HonestInv, VersionHonest, Ahead
<1>2. TypeOK /\ HonestInv /\ [Next]_vars /\ [\A o \in Openers : ~Abandon(o)]_vars => HonestInv'
  <2>1. CASE UNCHANGED vars
    BY <2>1 DEF vars, vault, HonestInv, Ahead
  <2> QED
    BY <2>1, StepHonest DEF Next
<1> QED
  BY <1>1, <1>2, InitHonest, TypeCorrect, PTL DEF Spec

-----------------------------------------------------------------------------
(***************************************************************************)
(* Opening a vault that is current                                         *)
(***************************************************************************)

\* Everything is there that the blocks ensure.
Whole == version = Current /\ columns = Columns /\ Hashed /\ Stamped

\* The rows after v6: what had no cursor counts as pushed.
CursorsFilled ==
    [i \in Ids |-> IF engrams[i].synced = 0
                   THEN [engrams[i] EXCEPT !.synced = engrams[i].modified] ELSE engrams[i]]

\* Of the blocks that run on a whole vault, all but v6 do nothing.
LEMMA WholeStep ==
    ASSUME TypeOK, Whole, NEW o \in Openers, seen[o] = Current, Block(o)
    PROVE  /\ engrams' \in {engrams, CursorsFilled}
           /\ UNCHANGED <<version, columns, sources, triggers, fts, links>>
<1>1. CASE Skip(o)
  BY <1>1 DEF Skip, vault
<1>2. ~(AddColumns(o) \/ DropTriggers(o) \/ RecreateV3(o) \/ RecreateV7(o))
  BY DEF AddColumns, DropTriggers, RecreateV3, RecreateV7, Current
<1>3. CASE EnsureHash(o)
  <2>1. ASSUME NEW i \in LiveIds PROVE [engrams[i] EXCEPT !.hash = 1] = engrams[i]
    <3>1. engrams[i] \in Row /\ engrams[i].hash = 1
      BY DEF TypeOK, LiveIds, NoRow, Whole, Hashed
    <3> QED
      BY <3>1 DEF Row
  <2>2. engrams' = engrams
    BY <1>3, <2>1 DEF EnsureHash, FillHashes, TypeOK
  <2> QED
    BY <1>3, <2>2 DEF EnsureHash, Stamp, Whole, Columns
<1>4. CASE EnsureModified(o)
  <2>1. engrams' = engrams
    BY <1>4 DEF EnsureModified, TypeOK, Whole, Stamped
  <2> QED
    BY <1>4, <2>1 DEF EnsureModified, Stamp, Whole, Columns
<1>5. CASE EnsureSynced(o)
  BY <1>5 DEF EnsureSynced, CursorsFilled, Stamp, Whole, Columns
<1>6. CASE EnsureTables(o) \/ EnsureAgent(o)
  BY <1>6 DEF EnsureTables, EnsureAgent, Stamp, Whole, Columns
<1> QED
  BY <1>1, <1>2, <1>3, <1>4, <1>5, <1>6 DEF Block

\* While a process has the vault open, no other that opens it touches the
\* tables, the index, the links or anything in a row but a missing cursor:
\* rowids above all, which the first one's index entries name, stay. This is
\* what EngramVault's Open rests on (migrate's ungated blocks v4 to v6, v8 to
\* v10).
THEOREM SecondOpen ==
    ASSUME Exclusive
    PROVE  Spec => [][(InUse /\ \E o \in Openers : Block(o))
                        => /\ engrams' \in {engrams, CursorsFilled}
                           /\ UNCHANGED <<version, columns, sources, triggers, fts, links>>]_vars
<1>1. IInv /\ [Next]_vars =>
        [(InUse /\ \E o \in Openers : Block(o))
           => /\ engrams' \in {engrams, CursorsFilled}
              /\ UNCHANGED <<version, columns, sources, triggers, fts, links>>]_vars
  <2> SUFFICES ASSUME IInv, InUse, NEW o \in Openers, Block(o)
               PROVE  /\ engrams' \in {engrams, CursorsFilled}
                      /\ UNCHANGED <<version, columns, sources, triggers, fts, links>>
    OBVIOUS
  <2>1. pc[o] \in Blocks
    BY DEF Block, Skip, AddColumns, DropTriggers, RecreateV3, EnsureHash, EnsureModified,
       EnsureSynced, RecreateV7, EnsureTables, EnsureAgent, Blocks
  <2>2. TypeOK /\ Whole /\ seen[o] = Current
    BY <2>1 DEF IInv, OpenComplete, Whole, Progress
  <2> QED
    BY <2>2, WholeStep
<1>2. IInv /\ [Next]_vars => IInv'
  BY StepInvariant
<1> QED
  BY <1>1, <1>2, InitInvariant, PTL DEF Spec

=============================================================================
