------------------------ MODULE EngramVaultProofs ------------------------
(***************************************************************************)
(* What EngramVault guarantees for any number of memories, connections and *)
(* contents, any mix of calls and any failures.                            *)
(***************************************************************************)
EXTENDS EngramVault, TLAPS

Tables == /\ engrams \in [Ids -> Row \cup {NoRow}]
          /\ fts \subseteq [rowid: 1..MaxRowid, id: Ids]
          /\ links \subseteq Ids \X Ids
          /\ embeddings \subseteq Ids
          /\ tombstones \subseteq Ids
          /\ interrupted \subseteq Ids
Counters == now \in 0..MaxTime /\ metrics \in [Gates -> 0..MaxMetric]
Locals == /\ pc \in [Conns -> PCs]
          /\ arg \in [Conns -> Arg]
          /\ batch \in [Conns -> [where: SUBSET Kinds, ids: SUBSET Ids]]
          /\ todo \in [Conns -> SUBSET (Ids \X Ids)]

\* A call that is storing an engram was given one.
Carrying == {"similar", "index", "insert"}
ArgsGiven == \A c \in Conns : pc[c] \in Carrying =>
                 /\ arg[c].id \in Ids /\ arg[c].hash \in Hashes
                 /\ arg[c].kind \in Kinds /\ arg[c].modified \in Times

LEMMA TypeParts == /\ TypeOK <=> Tables /\ Counters /\ Locals
                   /\ TypeOK' <=> Tables' /\ Counters' /\ Locals'
BY DEF TypeOK, Tables, Counters, Locals

-----------------------------------------------------------------------------
(***************************************************************************)
(* Rows as values                                                          *)
(***************************************************************************)

\* r and t differ in their kind at most.
AlikeButKind(r, t) == /\ t.rowid = r.rowid /\ t.hash = r.hash
                      /\ t.modified = r.modified /\ t.synced = r.synced

\* A row is either absent or has a rowid from 1 up.
LEMMA RowCases ==
    ASSUME NEW r \in Row \cup {NoRow}
    PROVE  /\ r.rowid # 0 => r \in Row
           /\ r.rowid = 0 => r = NoRow
           /\ r.rowid \in 0..MaxRowid
BY BoundAssumption DEF Row, NoRow

\* Moving the sync cursor of a row leaves a row, with every other field.
LEMMA SetSynced ==
    ASSUME NEW r \in Row, NEW s \in Never..MaxTime
    PROVE  /\ [r EXCEPT !.synced = s] \in Row
           /\ [r EXCEPT !.synced = s].rowid = r.rowid
BY DEF Row

LEMMA SetModified ==
    ASSUME NEW r \in Row, NEW m \in Times
    PROVE  /\ [r EXCEPT !.modified = m] \in Row
           /\ [r EXCEPT !.modified = m].rowid = r.rowid
BY DEF Row

LEMMA SetKind ==
    ASSUME NEW r \in Row, NEW k \in Kinds
    PROVE  /\ [r EXCEPT !.kind = k] \in Row
           /\ AlikeButKind(r, [r EXCEPT !.kind = k])
BY DEF Row, AlikeButKind

LEMMA ResetNoRow == [NoRow EXCEPT !.synced = Never] = NoRow
BY DEF NoRow

LEMMA NoArgType == NoArg \in Arg /\ \A i \in Ids : [NoArg EXCEPT !.id = i] \in Arg
<1>1. NoArg \in Arg
  BY BoundAssumption DEF NoArg, Arg
<1>2. ASSUME NEW i \in Ids PROVE [NoArg EXCEPT !.id = i] \in Arg
  BY <1>1 DEF Arg
<1> QED
  BY <1>1, <1>2

-----------------------------------------------------------------------------
(***************************************************************************)
(* Type correctness                                                        *)
(***************************************************************************)

LEMMA ReturnLocals ==
    ASSUME NEW c \in Conns, Locals, Return(c)
    PROVE  Locals'
BY NoArgType DEF Locals, Return, Goto, PCs, NoBatch

LEMMA InitType == Init => TypeOK
<1> SUFFICES ASSUME Init PROVE TypeOK
  OBVIOUS
<1>1. Counters
  BY BoundAssumption DEF Init, Counters, Gates
<1>2. Locals
  BY NoArgType DEF Init, Locals, PCs, NoBatch
<1>3. Tables
  BY DEF Init, Tables
<1> QED
  BY <1>1, <1>2, <1>3, TypeParts


LEMMA DeleteRowsTables ==
    ASSUME NEW S \in SUBSET Ids, Tables, DeleteRows(S), fts' \subseteq fts,
           tombstones' \subseteq Ids
    PROVE  Tables'
BY DEF Tables, DeleteRows, Cascade

LEMMA RestampTables ==
    ASSUME NEW i \in Ids, Tables, Restamp(i), now + 1 \in Times,
           UNCHANGED <<fts, links, embeddings, tombstones, interrupted>>
    PROVE  Tables'
<1>1. ASSUME Live(i) PROVE [engrams[i] EXCEPT !.modified = now + 1] \in Row
  BY <1>1, RowCases, SetModified DEF Tables, Live
<1> QED
  BY <1>1 DEF Tables, Restamp

LEMMA StampTypes ==
    ASSUME Counters, Stamp, UNCHANGED metrics
    PROVE  Counters' /\ now + 1 \in Times
BY BoundAssumption DEF Counters, Stamp, Times

LEMMA LoseIndexType ==
    ASSUME NEW c \in Conns, Tables, LoseIndex(c)
    PROVE  interrupted' \subseteq Ids
BY DEF Tables, LoseIndex, LiveIds

LEMMA ConnectionType ==
    ASSUME NEW c \in Conns, TypeOK, Connection(c)
    PROVE  TypeOK'
<1> USE TypeParts
<1>1. CASE Open(c)
  <2>1. ASSUME NEW i \in Ids
        PROVE  engrams'[i] \in Row \cup {NoRow}
    <3>1. CASE Live(i) /\ engrams[i].synced = Never
      <4>1. engrams[i] \in Row
        BY <3>1, RowCases DEF Tables, Live
      <4>2. engrams[i].modified \in Never..MaxTime
        BY <4>1, BoundAssumption DEF Row, Times, Never
      <4> QED
        BY <1>1, <3>1, <4>1, <4>2, SetSynced DEF Open
    <3>2. CASE ~(Live(i) /\ engrams[i].synced = Never)
      BY <1>1, <3>2 DEF Open, Tables
    <3> QED
      BY <3>1, <3>2
  <2>2. engrams' \in [Ids -> Row \cup {NoRow}]
    BY <1>1, <2>1 DEF Open
  <2> QED
    BY <1>1, <2>2 DEF Open, Tables, Counters, Locals, Goto, PCs
<1>2. CASE Close(c)
  BY <1>2 DEF Close, Tables, Counters, Locals, Goto, PCs, db
<1>3. CASE Crash(c)
  BY <1>3, LoseIndexType, NoArgType
     DEF Crash, Tables, Counters, Locals, PCs, NoBatch, db
<1>4. CASE Fail(c)
  <2>1. Locals'
    BY <1>4, ReturnLocals DEF Fail
  <2> QED
    BY <1>4, <2>1, LoseIndexType DEF Fail, Tables, Counters, db
<1> QED
  BY <1>1, <1>2, <1>3, <1>4 DEF Connection

LEMMA GivenType ==
    ASSUME NEW e \in Arg, Counters, Given(e), e.modified \in 0..MaxTime
    PROVE  now' \in 0..MaxTime
BY BoundAssumption DEF Given, Counters, Arg

LEMMA WriteType ==
    ASSUME NEW c \in Conns, TypeOK, ArgsGiven, Write(c)
    PROVE  TypeOK'
<1> USE TypeParts
<1>1. CASE CaptureNoise(c)
  BY <1>1, BoundAssumption DEF CaptureNoise, Bump, Tables, Counters, Locals, Gates, db, local
<1>2. CASE CaptureTwin(c)
  <2>1. PICK i \in Ids : arg' = [arg EXCEPT ![c] = [NoArg EXCEPT !.id = i]]
    BY <1>2 DEF CaptureTwin, Twins, LiveIds
  <2> QED
    BY <1>2, <2>1, NoArgType DEF CaptureTwin, Tables, Counters, Locals, Goto, PCs, db
<1>3. CASE CaptureNew(c)
  <2>1. PICK e \in Arg : /\ Given(e) /\ arg' = [arg EXCEPT ![c] = e]
                         /\ Goto(c, IF e.vector THEN "similar" ELSE "index")
    BY <1>3 DEF CaptureNew
  <2>2. now' \in 0..MaxTime
    BY <2>1, GivenType DEF Arg
  <2> QED
    BY <1>3, <2>1, <2>2 DEF CaptureNew, Tables, Counters, Locals, Goto, PCs, db
<1>4. CASE Strengthen(c)
  <2>0. arg[c] \in Arg
    BY DEF Locals
  <2>1. CASE arg[c].id \in Ids
    <3>1. Counters' /\ now + 1 \in Times
      BY <1>4, StampTypes DEF Strengthen
    <3>2. Tables'
      BY <1>4, <2>1, <3>1, RestampTables DEF Strengthen
    <3> QED
      BY <1>4, <3>1, <3>2 DEF Strengthen, Locals, Goto, PCs
  <2>2. CASE arg[c].id \notin Ids
    <3>1. engrams' = engrams
      BY <1>4, <2>2 DEF Strengthen, Restamp, Tables
    <3>2. Counters'
      BY <1>4, StampTypes DEF Strengthen
    <3> QED
      BY <1>4, <3>1, <3>2 DEF Strengthen, Tables, Locals, Goto, PCs
  <2> QED
    BY <2>1, <2>2
<1>5. CASE CheckSimilar(c)
  BY <1>5 DEF CheckSimilar, Tables, Counters, Locals, Goto, PCs, db
<1>6. CASE CountSkip(c)
  <2>1. Locals'
    BY <1>6, ReturnLocals DEF CountSkip
  <2> QED
    BY <1>6, <2>1, BoundAssumption DEF CountSkip, Bump, Tables, Counters, Gates, db
<1>7. CASE WriteCurated(c)
  <2>1. PICK e \in Arg : Given(e) /\ arg' = [arg EXCEPT ![c] = e]
    BY <1>7 DEF WriteCurated
  <2>2. now' \in 0..MaxTime
    BY <2>1, GivenType DEF Arg
  <2> QED
    BY <1>7, <2>1, <2>2 DEF WriteCurated, Tables, Counters, Locals, Goto, PCs, db
<1>8. CASE DeleteFts(c)
  BY <1>8 DEF DeleteFts, FtsOf, Tables, Counters, Locals, Goto, PCs
<1>9. CASE CommitWrite(c)
  <2> DEFINE i == arg[c].id
  <2>1. /\ i \in Ids /\ arg[c].hash \in Hashes
        /\ arg[c].kind \in Kinds /\ arg[c].modified \in Times
    BY <1>9 DEF CommitWrite, ArgsGiven, Carrying
  <2>2. PICK r \in 1..MaxRowid :
          /\ RowidFor(i, r)
          /\ engrams' = [engrams EXCEPT ![i] =
                           [rowid |-> r, hash |-> arg[c].hash, kind |-> arg[c].kind,
                            modified |-> arg[c].modified, synced |-> @.synced]]
          /\ fts' = fts \cup {[rowid |-> r, id |-> i]}
    BY <1>9 DEF CommitWrite
  <2>3. engrams[i].synced \in Never..MaxTime
    <3>1. engrams[i] \in Row \cup {NoRow}
      BY <2>1 DEF Tables
    <3> QED
      BY <3>1, BoundAssumption DEF Row, NoRow, Never
  <2>4. engrams' \in [Ids -> Row \cup {NoRow}]
    <3>1. [rowid |-> r, hash |-> arg[c].hash, kind |-> arg[c].kind,
           modified |-> arg[c].modified, synced |-> engrams[i].synced] \in Row
      BY <2>1, <2>3 DEF Row
    <3> QED
      BY <2>2, <3>1 DEF Tables
  <2>5. PICK out \in SUBSET (LiveIds \cup {i}) :
           \E near \in SUBSET (out \cap VectorsBut(i)) :
              links' = links \cup LinksFrom(i, out) \cup SemanticLinks(i, near)
    BY <1>9 DEF CommitWrite
  <2>6. out \subseteq Ids
    BY <2>1, <2>5 DEF LiveIds
  <2>7. links' \subseteq Ids \X Ids
    BY <2>1, <2>5, <2>6 DEF Tables, LinksFrom, SemanticLinks
  <2>8. Locals'
    BY <1>9, ReturnLocals DEF CommitWrite
  <2>9. Counters'
    BY <1>9 DEF CommitWrite, Counters
  <2>10. /\ fts' \subseteq [rowid: 1..MaxRowid, id: Ids]
         /\ embeddings' \subseteq Ids /\ tombstones' \subseteq Ids
         /\ interrupted' \subseteq Ids
    BY <1>9, <2>1, <2>2 DEF CommitWrite, Tables
  <2> QED
    BY <2>4, <2>7, <2>8, <2>9, <2>10 DEF Tables
<1>10. CASE RefuseWrite(c)
  <2>1. Locals'
    BY <1>10, ReturnLocals DEF RefuseWrite
  <2> QED
    BY <1>10, <2>1, LoseIndexType DEF RefuseWrite, Tables, Counters, db
<1> QED
  BY <1>1, <1>2, <1>3, <1>4, <1>5, <1>6, <1>7, <1>8, <1>9, <1>10 DEF Write

\* What a consolidation does to the rows: those of S go, the others keep
\* everything but their kind.
LEMMA RekindedRows ==
    ASSUME TypeOK, NEW S \in SUBSET LiveIds, NEW to \in [LiveIds \ S -> Kinds],
           engrams' = [i \in Ids |-> IF i \in LiveIds \ S
                                     THEN [engrams[i] EXCEPT !.kind = to[i]] ELSE NoRow]
    PROVE  /\ engrams' \in [Ids -> Row \cup {NoRow}]
           /\ \A i \in S : engrams'[i] = NoRow
           /\ \A i \in Ids \ S : AlikeButKind(engrams[i], engrams'[i])
<1>1. engrams \in [Ids -> Row \cup {NoRow}]
  BY TypeParts DEF Tables
<1>2. ASSUME NEW i \in LiveIds \ S
      PROVE  engrams'[i] \in Row /\ AlikeButKind(engrams[i], engrams'[i])
  <2>1. i \in Ids /\ engrams[i] \in Row /\ to[i] \in Kinds
    BY <1>1, RowCases DEF LiveIds, Live
  <2>2. engrams'[i] = [engrams[i] EXCEPT !.kind = to[i]]
    BY <2>1
  <2> QED
    BY <2>1, <2>2, SetKind
<1>3. ASSUME NEW i \in Ids, i \notin LiveIds PROVE engrams[i] = NoRow
  BY <1>1, <1>3, RowCases DEF LiveIds, Live
<1>4. engrams' \in [Ids -> Row \cup {NoRow}]
  BY <1>2
<1>5. \A i \in S : engrams'[i] = NoRow
  BY DEF LiveIds
<1>6. \A i \in Ids \ S : AlikeButKind(engrams[i], engrams'[i])
  BY <1>2, <1>3 DEF AlikeButKind
<1> QED
  BY <1>4, <1>5, <1>6

LEMMA RemovalType ==
    ASSUME NEW c \in Conns, TypeOK, Removal(c)
    PROVE  TypeOK'
<1> USE TypeParts
<1>1. ASSUME NEW i \in Ids, Delete(c, i) PROVE TypeOK'
  <2>1. Tables'
    BY <1>1, DeleteRowsTables DEF Delete, InsertTombstones, Tables
  <2> QED
    BY <1>1, <2>1 DEF Delete, Counters, Locals, local
<1>2. ASSUME NEW i \in Ids, ApplyTombstone(c, i) PROVE TypeOK'
  <2>1. Tables'
    BY <1>2, DeleteRowsTables DEF ApplyTombstone, Tables
  <2> QED
    BY <1>2, <2>1 DEF ApplyTombstone, Counters, Locals, local
<1>3. CASE PurgeSelect(c)
  <2>1. PICK W \in SUBSET Kinds :
          batch' = [batch EXCEPT ![c] = [where |-> W, ids |-> Matching(W)]]
    BY <1>3 DEF PurgeSelect
  <2>2. Matching(W) \in SUBSET Ids
    BY DEF Matching, LiveIds
  <2> QED
    BY <1>3, <2>1, <2>2 DEF PurgeSelect, Tables, Counters, Locals, Goto, PCs, db
<1>4. CASE PurgeCommit(c)
  <2>1. batch[c].ids \in SUBSET Ids /\ Matching(batch[c].where) \in SUBSET Ids
    BY DEF Locals, Matching, LiveIds
  <2>2. Tables'
    BY <1>4, <2>1, DeleteRowsTables DEF PurgeCommit, InsertTombstones, Tables
  <2>3. Locals'
    BY <1>4, ReturnLocals DEF PurgeCommit
  <2> QED
    BY <1>4, <2>2, <2>3 DEF PurgeCommit, Counters
<1>5. CASE PurgeConflict(c)
  <2>1. Locals'
    BY <1>5, ReturnLocals DEF PurgeConflict
  <2> QED
    BY <1>5, <2>1 DEF PurgeConflict, Tables, Counters, db
<1>6. CASE Consolidate(c)
  <2>1. PICK S \in SUBSET LiveIds : \E to \in [LiveIds \ S -> Kinds] :
          /\ engrams' = [i \in Ids |-> IF i \in LiveIds \ S
                                      THEN [engrams[i] EXCEPT !.kind = to[i]] ELSE NoRow]
          /\ Cascade(S) /\ fts' = fts \ FtsOf(S) /\ InsertTombstones(S)
    BY <1>6 DEF Consolidate
  <2>2. engrams' \in [Ids -> Row \cup {NoRow}]
    BY <2>1, RekindedRows
  <2>3. S \in SUBSET Ids
    BY DEF LiveIds
  <2>4. Tables'
    BY <2>1, <2>2, <2>3 DEF InsertTombstones, Cascade, Tables
  <2> QED
    BY <1>6, <2>4 DEF Consolidate, Counters, Locals, local
<1> QED
  BY <1>1, <1>2, <1>3, <1>4, <1>5, <1>6 DEF Removal

LEMMA LinkingType ==
    ASSUME NEW c \in Conns, TypeOK, Linking(c)
    PROVE  TypeOK'
<1> USE TypeParts
<1>1. CASE Link(c)
  <2>1. PICK i \in Ids, j \in Ids :
          /\ links' = links \cup {<<i, j>>}
          /\ arg' = [arg EXCEPT ![c] = [NoArg EXCEPT !.id = i]]
    BY <1>1 DEF Link, LiveIds
  <2> QED
    BY <1>1, <2>1, NoArgType DEF Link, Tables, Counters, Locals, Goto, PCs
<1>2. CASE LinkBump(c)
  <2>1. Locals'
    BY <1>2, ReturnLocals DEF LinkBump
  <2>2. Counters' /\ now + 1 \in Times
    BY <1>2, StampTypes DEF LinkBump
  <2>3. CASE arg[c].id \in Ids
    BY <1>2, <2>1, <2>2, <2>3, RestampTables DEF LinkBump
  <2>4. CASE arg[c].id \notin Ids
    <3>1. engrams' = engrams
      BY <1>2, <2>4 DEF LinkBump, Restamp, Tables
    <3> QED
      BY <1>2, <2>1, <2>2, <3>1 DEF LinkBump, Tables
  <2> QED
    BY <2>3, <2>4
<1>3. CASE BackfillSelect(c)
  <2>1. PICK P \in SUBSET (embeddings \X embeddings) : todo' = [todo EXCEPT ![c] = P]
    BY <1>3 DEF BackfillSelect
  <2>2. P \in SUBSET (Ids \X Ids)
    BY <2>1 DEF Tables
  <2> QED
    BY <1>3, <2>1, <2>2 DEF BackfillSelect, Tables, Counters, Locals, Goto, PCs, db
<1>4. CASE BackfillInsert(c)
  <2>1. PICK p \in todo[c] :
          /\ links' = links \cup {p}
          /\ IF todo[c] = {p}
             THEN Return(c)
             ELSE /\ todo' = [todo EXCEPT ![c] = @ \ {p}]
                  /\ UNCHANGED <<pc, arg, batch>>
    BY <1>4 DEF BackfillInsert
  <2>2. p \in Ids \X Ids /\ todo[c] \ {p} \in SUBSET (Ids \X Ids)
    BY <2>1 DEF Locals
  <2>3. Locals'
    BY <2>1, <2>2, ReturnLocals DEF Locals
  <2> QED
    BY <1>4, <2>1, <2>2, <2>3 DEF BackfillInsert, Tables, Counters
<1>5. CASE BackfillRefused(c)
  <2>1. Locals'
    BY <1>5, ReturnLocals DEF BackfillRefused
  <2> QED
    BY <1>5, <2>1 DEF BackfillRefused, Tables, Counters, db
<1>6. ASSUME NEW i \in Ids, StoreEmbedding(c, i) PROVE TypeOK'
  BY <1>6 DEF StoreEmbedding, Tables, Counters, Locals, local
<1> QED
  BY <1>1, <1>2, <1>3, <1>4, <1>5, <1>6 DEF Linking

LEMMA CursorType ==
    ASSUME NEW c \in Conns, TypeOK, Cursor(c)
    PROVE  TypeOK'
<1> USE TypeParts
<1>1. CASE MarkSynced(c)
  <2>1. PICK S \in SUBSET Ids : \E pushed \in [S -> 1..now] :
          engrams' = [i \in Ids |-> IF i \in S /\ Live(i)
                                    THEN [engrams[i] EXCEPT !.synced = pushed[i]]
                                    ELSE engrams[i]]
    BY <1>1 DEF MarkSynced
  <2>2. PICK pushed \in [S -> 1..now] :
          engrams' = [i \in Ids |-> IF i \in S /\ Live(i)
                                    THEN [engrams[i] EXCEPT !.synced = pushed[i]]
                                    ELSE engrams[i]]
    BY <2>1
  <2>3. ASSUME NEW i \in Ids, i \in S, Live(i)
        PROVE  [engrams[i] EXCEPT !.synced = pushed[i]] \in Row
    <3>1. pushed[i] \in Never..MaxTime
      BY <2>2, <2>3, BoundAssumption DEF Counters, Never
    <3>2. engrams[i] \in Row
      BY <2>3, RowCases DEF Tables, Live
    <3> QED
      BY <3>1, <3>2, SetSynced
  <2>4. engrams' \in [Ids -> Row \cup {NoRow}]
    BY <2>2, <2>3 DEF Tables
  <2> QED
    BY <1>1, <2>4 DEF MarkSynced, Tables, Counters, Locals, local
<1>2. CASE ResetSynced(c)
  <2>1. ASSUME NEW i \in Ids PROVE [engrams[i] EXCEPT !.synced = Never] \in Row \cup {NoRow}
    <3>1. engrams[i] \in Row \cup {NoRow} /\ Never \in Never..MaxTime
      BY BoundAssumption DEF Tables, Never
    <3> QED
      BY <3>1, SetSynced, ResetNoRow
  <2>2. engrams' \in [Ids -> Row \cup {NoRow}]
    BY <1>2, <2>1 DEF ResetSynced
  <2> QED
    BY <1>2, <2>2 DEF ResetSynced, Tables, Counters, Locals, local
<1>3. CASE ClearTombstones(c)
  BY <1>3 DEF ClearTombstones, Tables, Counters, Locals, local
<1>4. ASSUME NEW i \in Ids, RecordTombstone(c, i) PROVE TypeOK'
  BY <1>4 DEF RecordTombstone, Tables, Counters, Locals, local
<1> QED
  BY <1>1, <1>2, <1>3, <1>4 DEF Cursor

LEMMA ArgsGivenStep ==
    ASSUME NEW c \in Conns, TypeOK, ArgsGiven,
           Connection(c) \/ Write(c) \/ Removal(c) \/ Linking(c) \/ Cursor(c)
    PROVE  ArgsGiven'
<1> DEFINE Sound(d) == pc[d] \in Carrying =>
             /\ arg[d].id \in Ids /\ arg[d].hash \in Hashes
             /\ arg[d].kind \in Kinds /\ arg[d].modified \in Times
<1> SUFFICES ASSUME NEW d \in Conns PROVE Sound(d)'
  BY DEF ArgsGiven
<1> USE DEF ArgsGiven, Carrying
<1>0. pc \in [Conns -> PCs] /\ arg \in [Conns -> Arg]
  BY TypeParts DEF Locals
<1>1. CASE UNCHANGED <<pc, arg>>
  BY <1>1
<1>2. CASE Return(c)
  BY <1>0, <1>2 DEF Return, Goto
<1>3. CASE Connection(c)
  BY <1>0, <1>2, <1>3 DEF Connection, Open, Close, Crash, Fail, Goto
<1>4. CASE Removal(c)
  BY <1>0, <1>1, <1>2, <1>4 DEF Removal, Delete, ApplyTombstone, PurgeSelect,
       PurgeCommit, PurgeConflict, Consolidate, Goto, local
<1>5. CASE Linking(c)
  BY <1>0, <1>1, <1>2, <1>5 DEF Linking, Link, LinkBump, BackfillSelect,
       BackfillInsert, BackfillRefused, StoreEmbedding, Goto, local
<1>6. CASE Cursor(c)
  BY <1>1, <1>6 DEF Cursor, MarkSynced, ResetSynced, ClearTombstones,
       RecordTombstone, local
<1>7. CASE CaptureNew(c) \/ WriteCurated(c)
  <2>1. PICK e \in Arg : Given(e) /\ arg' = [arg EXCEPT ![c] = e]
    BY <1>7 DEF CaptureNew, WriteCurated
  <2>2. e.id \in Ids /\ e.hash \in Hashes /\ e.kind \in Kinds /\ e.modified \in Times
    BY <2>1, BoundAssumption DEF Given, Arg, Times
  <2>3. CASE d = c
    BY <1>0, <2>1, <2>2, <2>3
  <2>4. CASE d # c
    BY <1>0, <1>7, <2>1, <2>4 DEF CaptureNew, WriteCurated, Goto
  <2> QED
    BY <2>3, <2>4
<1>8. CASE Write(c) /\ ~(CaptureNew(c) \/ WriteCurated(c))
  BY <1>0, <1>1, <1>2, <1>8 DEF Write, CaptureNoise, CaptureTwin, Strengthen, CheckSimilar,
       CountSkip, DeleteFts, CommitWrite, RefuseWrite, Goto, local
<1> QED
  BY <1>3, <1>4, <1>5, <1>6, <1>7, <1>8

LEMMA AlwaysGiven == Spec => [](TypeOK /\ ArgsGiven)
<1> DEFINE Inv == TypeOK /\ ArgsGiven
<1>1. Init => Inv
  BY InitType DEF Init, ArgsGiven, Carrying
<1>2. Inv /\ [Next]_vars => Inv'
  <2> SUFFICES ASSUME Inv, [Next]_vars PROVE Inv'
    OBVIOUS
  <2>1. CASE UNCHANGED vars
    BY <2>1 DEF TypeOK, ArgsGiven, vars, db, local
  <2>2. CASE Next
    <3>1. PICK c \in Conns : Connection(c) \/ Write(c) \/ Removal(c) \/ Linking(c) \/ Cursor(c)
      BY <2>2 DEF Next
    <3>2. ArgsGiven'
      BY <3>1, ArgsGivenStep
    <3>3. TypeOK'
      BY <3>1, ConnectionType, WriteType, RemovalType, LinkingType, CursorType
    <3> QED
      BY <3>2, <3>3
  <2> QED
    BY <2>1, <2>2
<1> QED
  BY <1>1, <1>2, PTL DEF Spec

\* Every table, counter and call local keeps its type, through any mix of
\* calls, crashes and failing statements (every method of EngramStore).
THEOREM TypeCorrect == Spec => []TypeOK
BY AlwaysGiven, PTL

-----------------------------------------------------------------------------
(***************************************************************************)
(* The safety properties. What a step does to the rows comes first: all    *)
(* but five actions keep every row's rowid, and those five are taken one   *)
(* by one.                                                                 *)
(***************************************************************************)
\* The actions that neither create nor delete a row.
QuietWrite(c) ==
    \/ CaptureNoise(c) \/ CaptureTwin(c) \/ CaptureNew(c) \/ Strengthen(c)
    \/ CheckSimilar(c) \/ CountSkip(c) \/ WriteCurated(c) \/ DeleteFts(c)
    \/ RefuseWrite(c)
QuietRemoval(c) == PurgeSelect(c) \/ PurgeConflict(c)
Quiet(c) == Connection(c) \/ QuietWrite(c) \/ QuietRemoval(c) \/ Linking(c) \/ Cursor(c)

\* The removals: the rows of S go with their links and vectors, and the
\* others keep all but, where a consolidation promotes them, their kind.
Removes(S) ==
    /\ \A i \in S : engrams'[i] = NoRow
    /\ \A i \in Ids \ S : AlikeButKind(engrams[i], engrams'[i])
    /\ Cascade(S)

LEMMA DeleteRemoves ==
    ASSUME NEW S \in SUBSET Ids, DeleteRows(S)
    PROVE  Removes(S)
BY DEF DeleteRows, Removes, AlikeButKind

LEMMA ConsolidateRemoves ==
    ASSUME TypeOK, NEW c \in Conns, Consolidate(c)
    PROVE  \E S \in SUBSET Ids : /\ S \subseteq LiveIds /\ Removes(S)
                                 /\ fts' = fts \ FtsOf(S) /\ InsertTombstones(S)
<1>1. PICK S \in SUBSET LiveIds : \E to \in [LiveIds \ S -> Kinds] :
        /\ engrams' = [i \in Ids |-> IF i \in LiveIds \ S
                                    THEN [engrams[i] EXCEPT !.kind = to[i]] ELSE NoRow]
        /\ Cascade(S) /\ fts' = fts \ FtsOf(S) /\ InsertTombstones(S)
  BY DEF Consolidate
<1>2. Removes(S)
  BY <1>1, RekindedRows DEF Removes
<1> QED
  BY <1>1, <1>2 DEF LiveIds

Typed == TypeOK /\ ArgsGiven

LEMMA StepCases ==
    ASSUME Typed, Next
    PROVE  \E c \in Conns : \/ Quiet(c) \/ CommitWrite(c)
                            \/ \E S \in SUBSET Ids : Removes(S)
<1>1. PICK c \in Conns : Connection(c) \/ Write(c) \/ Removal(c) \/ Linking(c) \/ Cursor(c)
  BY DEF Next
<1>2. CASE Write(c)
  BY <1>2 DEF Write, Quiet, QuietWrite
<1>3. CASE Removal(c)
  <2>1. ASSUME NEW i \in Ids, Delete(c, i) \/ ApplyTombstone(c, i) PROVE Removes({i})
    BY <2>1, DeleteRemoves DEF Delete, ApplyTombstone
  <2>2. ASSUME Consolidate(c) PROVE \E S \in SUBSET Ids : Removes(S)
    BY <2>2, ConsolidateRemoves DEF Typed
  <2>3. Matching(batch[c].where) \in SUBSET Ids
    BY DEF Matching, LiveIds
  <2>4. ASSUME PurgeCommit(c) PROVE Removes(Matching(batch[c].where))
    BY <2>3, <2>4, DeleteRemoves DEF PurgeCommit
  <2> QED
    BY <1>3, <2>1, <2>2, <2>3, <2>4 DEF Removal, Quiet, QuietRemoval
<1> QED
  BY <1>1, <1>2, <1>3 DEF Quiet

\* A quiet step keeps the rowid of every row.
LEMMA QuietKeepsRowids ==
    ASSUME NEW c \in Conns, Typed, Quiet(c)
    PROVE  /\ \A i \in Ids : engrams'[i].rowid = engrams[i].rowid
           /\ LiveIds' = LiveIds
<1>0. Tables
  BY TypeParts DEF Typed
<1>1. CASE UNCHANGED engrams
  BY <1>1 DEF LiveIds, Live
<1>2. SUFFICES ASSUME NEW i \in Ids PROVE engrams'[i].rowid = engrams[i].rowid
  BY DEF LiveIds, Live
<1>3. engrams[i] \in Row \cup {NoRow}
  BY <1>0 DEF Tables
<1>4. CASE Open(c)
  BY <1>3, <1>4, SetSynced DEF Open, Row
<1>5. ASSUME Restamp(arg[c].id) PROVE engrams'[i].rowid = engrams[i].rowid
  BY <1>0, <1>3, <1>5 DEF Restamp, Tables, Row, NoRow
<1>6. CASE MarkSynced(c)
  BY <1>3, <1>6 DEF MarkSynced, Row, NoRow
<1>7. CASE ResetSynced(c)
  BY <1>3, <1>7 DEF ResetSynced, Row, NoRow
<1>8. CASE QuietWrite(c)
  BY <1>1, <1>5, <1>8 DEF QuietWrite, CaptureNoise, CaptureTwin, CaptureNew, Strengthen,
       CheckSimilar, CountSkip, WriteCurated, DeleteFts, RefuseWrite, db
<1>9. CASE Linking(c)
  BY <1>1, <1>5, <1>9 DEF Linking, Link, LinkBump, BackfillSelect, BackfillInsert,
       BackfillRefused, StoreEmbedding, db
<1>10. CASE QuietRemoval(c)
  BY <1>1, <1>10 DEF QuietRemoval, PurgeSelect, PurgeConflict, db
<1>11. CASE Connection(c) /\ ~Open(c)
  BY <1>1, <1>11 DEF Connection, Close, Crash, Fail, db
<1>12. CASE Cursor(c) /\ ~MarkSynced(c) /\ ~ResetSynced(c)
  BY <1>1, <1>12 DEF Cursor, ClearTombstones, RecordTombstone
<1> QED
  BY <1>4, <1>6, <1>7, <1>8, <1>9, <1>10, <1>11, <1>12 DEF Quiet

\* What a quiet step of c does to the index, to the history and to the other
\* connections: only DeleteFts takes entries out.
LEMMA QuietEffects ==
    ASSUME NEW c \in Conns, Typed, Quiet(c)
    PROVE  /\ fts' = fts \/ DeleteFts(c)
           /\ interrupted \subseteq interrupted'
           /\ \A d \in Conns \ {c} : pc'[d] = pc[d] /\ arg'[d] = arg[d]
<1>0. pc \in [Conns -> PCs] /\ arg \in [Conns -> Arg]
  BY TypeParts DEF Typed, Locals
<1> DEFINE Others == \A d \in Conns \ {c} : pc'[d] = pc[d] /\ arg'[d] = arg[d]
<1>1. CASE Connection(c)
  BY <1>0, <1>1 DEF Connection, Open, Close, Crash, Fail, LoseIndex, Return, Goto, db
<1>2. CASE QuietWrite(c)
  BY <1>0, <1>2 DEF QuietWrite, CaptureNoise, CaptureTwin, CaptureNew, Strengthen, CheckSimilar,
     CountSkip, WriteCurated, DeleteFts, RefuseWrite, LoseIndex, Return, Goto, db, local
<1>3. CASE QuietRemoval(c)
  BY <1>0, <1>3 DEF QuietRemoval, PurgeSelect, PurgeConflict, Return, Goto, db
<1>4. CASE Linking(c)
  <2>1. CASE BackfillInsert(c)
    BY <1>0, <2>1 DEF BackfillInsert, Return, Goto
  <2> QED
    BY <1>0, <1>4, <2>1 DEF Linking, Link, LinkBump, BackfillSelect, BackfillRefused,
       StoreEmbedding, Return, Goto, db, local
<1>5. CASE Cursor(c)
  BY <1>0, <1>5 DEF Cursor, MarkSynced, ResetSynced, ClearTombstones, RecordTombstone, local
<1> QED
  BY <1>1, <1>2, <1>3, <1>4, <1>5 DEF Quiet

\* A removal empties exactly the rows it removes.
LEMMA RemovedRows ==
    ASSUME NEW S \in SUBSET Ids, Removes(S)
    PROVE  /\ \A i \in Ids \ S : engrams'[i].rowid = engrams[i].rowid
           /\ LiveIds' = LiveIds \ S
BY DEF Removes, AlikeButKind, LiveIds, Live, NoRow

LEMMA CommitRows ==
    ASSUME NEW c \in Conns, Typed, CommitWrite(c)
    PROVE  /\ arg[c].id \in Ids
           /\ \A i \in Ids \ {arg[c].id} : engrams'[i] = engrams[i]
           /\ engrams'[arg[c].id].rowid \in 1..MaxRowid
           /\ RowidFor(arg[c].id, engrams'[arg[c].id].rowid)
           /\ fts' = fts \cup {[rowid |-> engrams'[arg[c].id].rowid, id |-> arg[c].id]}
           /\ LiveIds' = LiveIds \cup {arg[c].id}
<1> DEFINE i == arg[c].id
<1>1. i \in Ids
  BY DEF CommitWrite, Typed, ArgsGiven, Carrying
<1>2. engrams \in [Ids -> Row \cup {NoRow}]
  BY TypeParts DEF Typed, Tables
<1>3. PICK r \in 1..MaxRowid :
        /\ RowidFor(i, r)
        /\ engrams' = [engrams EXCEPT ![i] =
                         [rowid |-> r, hash |-> arg[c].hash, kind |-> arg[c].kind,
                          modified |-> arg[c].modified, synced |-> @.synced]]
        /\ fts' = fts \cup {[rowid |-> r, id |-> i]}
  BY DEF CommitWrite
<1>4. engrams'[i].rowid = r /\ r # 0
  BY <1>1, <1>2, <1>3
<1>5. \A j \in Ids \ {i} : engrams'[j] = engrams[j]
  BY <1>1, <1>2, <1>3
<1>6. LiveIds' = LiveIds \cup {i}
  BY <1>1, <1>4, <1>5 DEF LiveIds, Live
<1> QED
  BY <1>1, <1>3, <1>4, <1>5, <1>6

-----------------------------------------------------------------------------
LEMMA AlwaysTyped == Spec => []Typed
BY AlwaysGiven, PTL DEF Typed

-----------------------------------------------------------------------------
(***************************************************************************)
(* References                                                              *)
(***************************************************************************)

LEMMA ReferencesStep ==
    ASSUME Typed, ReferencesLive, Next
    PROVE  ReferencesLive'
<1> USE DEF ReferencesLive
<1>1. ASSUME NEW c \in Conns, Quiet(c) PROVE ReferencesLive'
  <2>1. LiveIds' = LiveIds
    BY <1>1, QuietKeepsRowids
  <2>2. CASE UNCHANGED <<links, embeddings>>
    BY <2>1, <2>2
  <2>3. CASE Linking(c)
    <3>1. CASE Link(c)
      BY <2>1, <3>1 DEF Link
    <3>2. CASE BackfillInsert(c)
      <4>1. PICK p \in todo[c] : /\ Live(p[1]) /\ Live(p[2])
                                 /\ links' = links \cup {p}
        BY <3>2 DEF BackfillInsert
      <4>2. p \in Ids \X Ids
        BY <4>1, TypeParts DEF Typed, Locals
      <4>3. p \in LiveIds \X LiveIds
        BY <4>1, <4>2 DEF LiveIds
      <4> QED
        BY <2>1, <3>2, <4>1, <4>3 DEF BackfillInsert
    <3>3. ASSUME NEW i \in Ids, StoreEmbedding(c, i) PROVE ReferencesLive'
      BY <2>1, <3>3 DEF StoreEmbedding, LiveIds
    <3>4. CASE LinkBump(c) \/ BackfillSelect(c) \/ BackfillRefused(c)
      BY <2>2, <3>4 DEF LinkBump, BackfillSelect, BackfillRefused, db
    <3> QED
      BY <2>3, <3>1, <3>2, <3>3, <3>4 DEF Linking
  <2>4. CASE Connection(c)
    BY <2>2, <2>4 DEF Connection, Open, Close, Crash, Fail, db
  <2>5. CASE QuietWrite(c)
    BY <2>2, <2>5 DEF QuietWrite, CaptureNoise, CaptureTwin, CaptureNew, Strengthen,
       CheckSimilar, CountSkip, WriteCurated, DeleteFts, RefuseWrite, db
  <2>6. CASE QuietRemoval(c)
    BY <2>2, <2>6 DEF QuietRemoval, PurgeSelect, PurgeConflict, db
  <2>7. CASE Cursor(c)
    BY <2>2, <2>7 DEF Cursor, MarkSynced, ResetSynced, ClearTombstones, RecordTombstone
  <2> QED
    BY <1>1, <2>3, <2>4, <2>5, <2>6, <2>7 DEF Quiet
<1>2. ASSUME NEW c \in Conns, CommitWrite(c) PROVE ReferencesLive'
  <2> DEFINE i == arg[c].id
  <2>1. LiveIds' = LiveIds \cup {i}
    BY <1>2, CommitRows
  <2>2. embeddings' \subseteq LiveIds'
    BY <1>2, <2>1 DEF CommitWrite
  <2>3. PICK out \in SUBSET (LiveIds \cup {i}) :
           \E near \in SUBSET (out \cap VectorsBut(i)) :
              links' = links \cup LinksFrom(i, out) \cup SemanticLinks(i, near)
    BY <1>2 DEF CommitWrite
  <2>4. links' \subseteq LiveIds' \X LiveIds'
    BY <2>1, <2>3 DEF LinksFrom, SemanticLinks
  <2> QED
    BY <2>2, <2>4
<1>3. ASSUME NEW S \in SUBSET Ids, Removes(S) PROVE ReferencesLive'
  <2>1. LiveIds' = LiveIds \ S
    BY <1>3, RemovedRows
  <2>2. /\ links' = {l \in links : l[1] \notin S /\ l[2] \notin S}
        /\ embeddings' = embeddings \ S
    BY <1>3 DEF Removes, Cascade
  <2> QED
    BY <2>1, <2>2
<1> QED
  BY <1>1, <1>2, <1>3, StepCases

\* No link and no vector of a memory that is gone, whatever is deleted while
\* a backfill or a write is under way (link, backfill_semantic_links,
\* store_embedding, ON DELETE CASCADE).
THEOREM References == Spec => []ReferencesLive
<1>1. Init => ReferencesLive
  BY DEF Init, ReferencesLive
<1>2. Typed /\ ReferencesLive /\ [Next]_vars => ReferencesLive'
  <2>1. CASE UNCHANGED vars
    BY <2>1 DEF vars, db, ReferencesLive, LiveIds, Live
  <2> QED
    BY <2>1, ReferencesStep
<1> QED
  BY <1>1, <1>2, AlwaysTyped, PTL DEF Spec

-----------------------------------------------------------------------------
(***************************************************************************)
(* Purges that nothing interleaves                                         *)
(*                                                                         *)
(* A purge reads the ids it will announce before the transaction that      *)
(* deletes. What follows holds where no other connection can get between   *)
(* the two: the vault is open once, or no client purges.                   *)
(***************************************************************************)
NoPurgeRace == "purge" \notin Calls \/ \A c, d \in Conns : c = d

\* The ids a pending purge collected are the ones its WHERE clause matches.
PurgeFresh == \A c \in Conns : pc[c] = "purge" =>
                  "purge" \in Calls /\ batch[c].ids = Matching(batch[c].where)

\* A removal that cleans up for exactly the rows it deletes.
CleanRemoval(c, S) ==
    /\ Removes(S)
    /\ fts' = fts \ FtsOf(S)
    /\ \/ S \subseteq LiveIds /\ InsertTombstones(S)
       \/ \E i \in Ids : S = {i} /\ ApplyTombstone(c, i)
    /\ UNCHANGED <<pc, arg>> \/ (pc[c] = "purge" /\ Return(c))

LEMMA FreshCases ==
    ASSUME TypeOK, PurgeFresh, Next
    PROVE  \E c \in Conns : \/ Quiet(c) \/ CommitWrite(c)
                            \/ \E S \in SUBSET Ids : CleanRemoval(c, S)
<1>1. PICK c \in Conns : Connection(c) \/ Write(c) \/ Removal(c) \/ Linking(c) \/ Cursor(c)
  BY DEF Next
<1>2. CASE Write(c)
  BY <1>2 DEF Write, Quiet, QuietWrite
<1>3. CASE Removal(c)
  <2>1. ASSUME NEW i \in Ids, Delete(c, i) \/ ApplyTombstone(c, i) PROVE CleanRemoval(c, {i})
    BY <2>1, DeleteRemoves DEF Delete, ApplyTombstone, CleanRemoval, LiveIds, local
  <2>2. ASSUME Consolidate(c) PROVE \E S \in SUBSET Ids : CleanRemoval(c, S)
    <3>1. UNCHANGED <<pc, arg>>
      BY <2>2 DEF Consolidate, local
    <3> QED
      BY <2>2, <3>1, ConsolidateRemoves DEF CleanRemoval
  <2>3. Matching(batch[c].where) \in SUBSET Ids
    BY DEF Matching, LiveIds
  <2>4. ASSUME PurgeCommit(c) PROVE CleanRemoval(c, Matching(batch[c].where))
    <3>1. batch[c].ids = Matching(batch[c].where) /\ Matching(batch[c].where) \subseteq LiveIds
      BY <2>4 DEF PurgeCommit, PurgeFresh, Matching
    <3> QED
      BY <2>3, <2>4, <3>1, DeleteRemoves DEF PurgeCommit, CleanRemoval
  <2> QED
    BY <1>3, <2>1, <2>2, <2>3, <2>4 DEF Removal, Quiet, QuietRemoval
<1> QED
  BY <1>1, <1>2, <1>3 DEF Quiet

\* Only PurgeSelect brings a connection to its purge, and no step of that
\* connection leaves it there.
LEMMA ToPurge ==
    ASSUME TypeOK, NEW c \in Conns, NEW d \in Conns, pc'[d] = "purge",
           Connection(c) \/ Write(c) \/ Removal(c) \/ Linking(c) \/ Cursor(c)
    PROVE  (c # d /\ pc[d] = "purge") \/ (c = d /\ PurgeSelect(c))
<1>0. pc \in [Conns -> PCs]
  BY TypeParts DEF Locals
<1>1. CASE Connection(c)
  BY <1>0, <1>1 DEF Connection, Open, Close, Crash, Fail, Called, Return, Goto
<1>2. CASE Write(c)
  BY <1>0, <1>2 DEF Write, CaptureNoise, CaptureTwin, CaptureNew, Strengthen, CheckSimilar,
     CountSkip, WriteCurated, DeleteFts, CommitWrite, RefuseWrite, Called, Return, Goto, local
<1>3. CASE Removal(c)
  BY <1>0, <1>3 DEF Removal, Delete, ApplyTombstone, PurgeSelect, PurgeCommit, PurgeConflict,
     Consolidate, Called, Return, Goto, local
<1>4. CASE Linking(c)
  <2>1. CASE BackfillInsert(c)
    BY <1>0, <2>1 DEF BackfillInsert, Return, Goto
  <2> QED
    BY <1>0, <1>4, <2>1 DEF Linking, Link, LinkBump, BackfillSelect, BackfillRefused,
       StoreEmbedding, Called, Return, Goto, local
<1>5. CASE Cursor(c)
  BY <1>0, <1>5 DEF Cursor, MarkSynced, ResetSynced, ClearTombstones, RecordTombstone,
     Called, local
<1> QED
  BY <1>1, <1>2, <1>3, <1>4, <1>5

LEMMA FreshStep ==
    ASSUME NoPurgeRace, Typed, PurgeFresh, Next
    PROVE  PurgeFresh'
<1> SUFFICES ASSUME NEW d \in Conns, pc'[d] = "purge"
             PROVE  "purge" \in Calls /\ batch'[d].ids = Matching(batch[d].where)'
  BY DEF PurgeFresh
<1>1. PICK c \in Conns : Connection(c) \/ Write(c) \/ Removal(c) \/ Linking(c) \/ Cursor(c)
  BY DEF Next
<1>2. CASE c # d /\ pc[d] = "purge"
  BY <1>2 DEF NoPurgeRace, PurgeFresh
<1>3. CASE c = d /\ PurgeSelect(c)
  <2>1. PICK W \in SUBSET Kinds :
          batch' = [batch EXCEPT ![d] = [where |-> W, ids |-> Matching(W)]]
    BY <1>3 DEF PurgeSelect
  <2>2. batch'[d] = [where |-> W, ids |-> Matching(W)]
    BY <2>1, TypeParts DEF Typed, Locals
  <2>3. UNCHANGED engrams /\ "purge" \in Calls
    BY <1>3 DEF PurgeSelect, Called, db
  <2> QED
    BY <2>2, <2>3 DEF Matching, LiveIds, Live
<1> QED
  BY <1>1, <1>2, <1>3, ToPurge DEF Typed

LEMMA AlwaysFresh == ASSUME NoPurgeRace PROVE Spec => [](Typed /\ PurgeFresh)
<1>1. Init => PurgeFresh
  BY DEF Init, PurgeFresh
<1>2. Typed /\ PurgeFresh /\ [Next]_vars => PurgeFresh'
  <2>1. CASE UNCHANGED vars
    BY <2>1 DEF vars, db, local, PurgeFresh, Matching, LiveIds, Live
  <2> QED
    BY <2>1, FreshStep
<1> QED
  BY <1>1, <1>2, AlwaysTyped, PTL DEF Spec

LEMMA SoundStep ==
    ASSUME Typed, PurgeFresh, IndexSound, Next
    PROVE  IndexSound'
<1>1. SUFFICES ASSUME NEW f \in fts' PROVE Live(f.id)' /\ engrams'[f.id].rowid = f.rowid
  BY DEF IndexSound
<1>2. \A g \in fts : g.id \in Ids /\ Live(g.id) /\ engrams[g.id].rowid = g.rowid
  BY TypeParts DEF IndexSound, Typed, Tables
<1>3. ASSUME NEW c \in Conns, Quiet(c) PROVE Live(f.id)' /\ engrams'[f.id].rowid = f.rowid
  <2>1. f \in fts
    BY <1>1, <1>3, QuietEffects DEF DeleteFts
  <2> QED
    BY <1>2, <1>3, <2>1, QuietKeepsRowids DEF Live
<1>4. ASSUME NEW c \in Conns, CommitWrite(c)
      PROVE  Live(f.id)' /\ engrams'[f.id].rowid = f.rowid
  <2> DEFINE i == arg[c].id
  <2>1. CASE f = [rowid |-> engrams'[i].rowid, id |-> i]
    BY <1>4, <2>1, CommitRows DEF Live
  <2>2. CASE f \in fts
    <3>1. CASE f.id = i
      BY <1>2, <1>4, <2>2, <3>1, CommitRows DEF RowidFor, Live
    <3>2. CASE f.id # i
      BY <1>2, <1>4, <2>2, <3>2, CommitRows DEF Live
    <3> QED
      BY <3>1, <3>2
  <2> QED
    BY <1>1, <1>4, <2>1, <2>2, CommitRows
<1>5. ASSUME NEW c \in Conns, NEW S \in SUBSET Ids, CleanRemoval(c, S)
      PROVE  Live(f.id)' /\ engrams'[f.id].rowid = f.rowid
  <2>1. f \in fts /\ f.id \notin S
    BY <1>1, <1>5 DEF CleanRemoval, FtsOf
  <2> QED
    BY <1>2, <1>5, <2>1, RemovedRows DEF CleanRemoval, Live
<1>6. PICK c \in Conns : \/ Quiet(c) \/ CommitWrite(c)
                         \/ \E S \in SUBSET Ids : CleanRemoval(c, S)
  BY FreshCases DEF Typed
<1> QED
  BY <1>3, <1>4, <1>5, <1>6

\* Full-text search never shows a memory that is gone, and never one at the
\* rowid of another (write_inner, delete_inner, purge_by_criteria,
\* apply_weekly_consolidation), unless a purge races another connection.
THEOREM NoGhosts == ASSUME NoPurgeRace PROVE Spec => []IndexSound
<1>1. Init => IndexSound
  BY DEF Init, IndexSound
<1>2. Typed /\ PurgeFresh /\ IndexSound /\ [Next]_vars => IndexSound'
  <2>1. CASE UNCHANGED vars
    BY <2>1 DEF vars, db, IndexSound, Live
  <2> QED
    BY <2>1, SoundStep
<1> QED
  BY <1>1, <1>2, AlwaysFresh, PTL DEF Spec

\* Why memory i may be missing from the index.
Excused(i) == i \in interrupted \/ \E c \in Conns : pc[c] = "insert" /\ arg[c].id = i

LEMMA CompleteStep ==
    ASSUME Typed, PurgeFresh, IndexComplete, Next
    PROVE  IndexComplete'
<1>0. \A i \in LiveIds : Indexed(i) \/ Excused(i)
  BY DEF IndexComplete, Excused
<1>1. SUFFICES ASSUME NEW i \in LiveIds' PROVE Indexed(i)' \/ Excused(i)'
  BY DEF IndexComplete, Excused
<1>2. i \in Ids /\ pc \in [Conns -> PCs] /\ arg \in [Conns -> Arg]
  BY TypeParts DEF LiveIds, Typed, Locals
\* A step that keeps row i and its index entries keeps i indexed.
<1>3. ASSUME Indexed(i), engrams'[i].rowid = engrams[i].rowid, fts \ fts' \subseteq fts \ FtsOf({i})
      PROVE  Indexed(i)'
  BY <1>3 DEF Indexed, FtsOf
<1>4. ASSUME NEW c \in Conns, Quiet(c) PROVE Indexed(i)' \/ Excused(i)'
  <2>1. i \in LiveIds /\ engrams'[i].rowid = engrams[i].rowid
    BY <1>2, <1>4, QuietKeepsRowids
  <2>2. CASE pc[c] = "insert" /\ arg[c].id = i
    <3>1. CASE UNCHANGED <<pc, arg>>
      BY <2>2, <3>1 DEF Excused
    <3>2. CASE ~UNCHANGED <<pc, arg>>
      <4>1. Crash(c) \/ Fail(c) \/ RefuseWrite(c)
        BY <1>4, <2>2, <3>2 DEF Quiet, Connection, Open, Close, Called, QuietWrite, CaptureNoise,
           CaptureTwin, CaptureNew, Strengthen, CheckSimilar, CountSkip, WriteCurated, DeleteFts,
           QuietRemoval, PurgeSelect, PurgeConflict, Linking, Link, LinkBump, BackfillSelect,
           BackfillInsert, BackfillRefused, StoreEmbedding, Cursor, MarkSynced, ResetSynced,
           ClearTombstones, RecordTombstone, local
      <4>2. LoseIndex(c) /\ UNCHANGED fts
        BY <4>1 DEF Crash, Fail, RefuseWrite, db
      <4>3. CASE Indexed(i)
        BY <1>3, <2>1, <4>2, <4>3
      <4>4. CASE ~Indexed(i)
        BY <2>1, <2>2, <4>2, <4>4 DEF LoseIndex, Excused
      <4> QED
        BY <4>3, <4>4
    <3> QED
      BY <3>1, <3>2
  <2>3. CASE ~(pc[c] = "insert" /\ arg[c].id = i)
    <3>1. CASE Excused(i)
      BY <1>2, <1>4, <2>3, <3>1, QuietEffects DEF Excused
    <3>2. CASE Indexed(i) /\ fts' = fts
      BY <1>3, <2>1, <3>2
    <3>3. CASE Indexed(i) /\ DeleteFts(c)
      <4>1. CASE arg[c].id = i
        BY <1>2, <3>3, <4>1 DEF DeleteFts, Goto, Excused
      <4>2. CASE arg[c].id # i
        BY <1>3, <2>1, <3>3, <4>2 DEF DeleteFts, FtsOf
      <4> QED
        BY <4>1, <4>2
    <3> QED
      BY <1>0, <1>4, <2>1, <3>1, <3>2, <3>3, QuietEffects
  <2> QED
    BY <2>2, <2>3
<1>5. ASSUME NEW c \in Conns, CommitWrite(c) PROVE Indexed(i)' \/ Excused(i)'
  <2>1. CASE i = arg[c].id
    <3> DEFINE f == [rowid |-> engrams'[i].rowid, id |-> i]
    <3>1. f \in fts' /\ f.id = i /\ f.rowid = engrams'[i].rowid
      BY <1>5, <2>1, CommitRows
    <3> QED
      BY <3>1 DEF Indexed
  <2>2. CASE i # arg[c].id
    <3>1. i \in LiveIds /\ engrams'[i] = engrams[i]
      BY <1>2, <1>5, <2>2, CommitRows
    <3>2. CASE Indexed(i)
      BY <1>3, <1>5, <3>1, <3>2, CommitRows
    <3>3. CASE Excused(i)
      BY <1>2, <1>5, <2>2, <3>3 DEF Excused, CommitWrite, Return, Goto
    <3> QED
      BY <1>0, <3>1, <3>2, <3>3
  <2> QED
    BY <2>1, <2>2
<1>6. ASSUME NEW c \in Conns, NEW S \in SUBSET Ids, CleanRemoval(c, S)
      PROVE  Indexed(i)' \/ Excused(i)'
  <2>1. i \in LiveIds /\ i \notin S /\ engrams'[i].rowid = engrams[i].rowid
    BY <1>2, <1>6, RemovedRows DEF CleanRemoval
  <2>2. CASE Indexed(i)
    BY <1>6, <2>1, <2>2 DEF CleanRemoval, Indexed, FtsOf
  <2>3. CASE Excused(i)
    <3>1. interrupted' = interrupted \ S
      BY <1>6 DEF CleanRemoval, Removes, Cascade
    <3> QED
      BY <1>2, <1>6, <2>1, <2>3, <3>1 DEF Excused, CleanRemoval, Return, Goto
  <2> QED
    BY <1>0, <2>1, <2>2, <2>3
<1>7. PICK c \in Conns : \/ Quiet(c) \/ CommitWrite(c)
                         \/ \E S \in SUBSET Ids : CleanRemoval(c, S)
  BY FreshCases DEF Typed
<1> QED
  BY <1>4, <1>5, <1>6, <1>7

\* Whatever fails or crashes, a memory is missing from full-text search only
\* while a write of it is between its FTS cleanup and its transaction, or
\* because such a write died there (write_inner, delete_inner,
\* purge_by_criteria), unless a purge races another connection: an edit that
\* takes a memory out of the WHERE clause then costs it its entry.
THEOREM Searchable == ASSUME NoPurgeRace PROVE Spec => []IndexComplete
<1>1. Init => IndexComplete
  BY DEF Init, IndexComplete, LiveIds, Live, NoRow
<1>2. Typed /\ PurgeFresh /\ IndexComplete /\ [Next]_vars => IndexComplete'
  <2>1. CASE UNCHANGED vars
    BY <2>1 DEF vars, db, local, IndexComplete, Indexed, LiveIds, Live
  <2> QED
    BY <2>1, CompleteStep
<1> QED
  BY <1>1, <1>2, AlwaysFresh, PTL DEF Spec

LEMMA SoundFits == TypeOK /\ IndexSound => NewRowFits
<1> SUFFICES ASSUME TypeOK, IndexSound, NEW i \in Ids, ~Live(i), RowidTaken(i) PROVE FALSE
  BY DEF NewRowFits
<1>1. PICK r \in 1..MaxRowid, f \in fts : RowidFor(i, r) /\ f.rowid = r
  BY DEF RowidTaken
<1>2. f.id \in Ids /\ engrams[f.id].rowid = r
  BY <1>1, TypeParts DEF IndexSound, Tables
<1>3. engrams[f.id].rowid < r
  BY <1>1, <1>2 DEF RowidFor, NextRowid
<1> QED
  BY <1>2, <1>3

\* No index entry ever blocks the rowid the next new memory gets.
THEOREM CaptureFits == ASSUME NoPurgeRace PROVE Spec => []NewRowFits
<1>1. Spec => []TypeOK
  BY TypeCorrect
<1> QED
  BY <1>1, NoGhosts, SoundFits, PTL

\* Every deletion is announced to the replicas by the step that makes it,
\* except a deletion the replicas ordered (delete, purge_by_criteria,
\* apply_weekly_consolidation against delete_without_tombstone).
THEOREM Announced == ASSUME NoPurgeRace PROVE Spec => DeletionsAnnounced
<1> DEFINE A == \A i \in Ids : Live(i) /\ ~Live(i)' =>
                  i \in tombstones' \/ \E c \in Conns : ApplyTombstone(c, i)
<1>1. Typed /\ PurgeFresh /\ [Next]_vars => [A]_vars
  <2> SUFFICES ASSUME Typed, PurgeFresh, Next, NEW i \in Ids, Live(i), ~Live(i)'
               PROVE  i \in tombstones' \/ \E c \in Conns : ApplyTombstone(c, i)
    OBVIOUS
  <2>1. i \in LiveIds /\ i \notin LiveIds'
    BY DEF LiveIds
  <2>2. PICK c \in Conns : \/ Quiet(c) \/ CommitWrite(c)
                           \/ \E S \in SUBSET Ids : CleanRemoval(c, S)
    BY FreshCases DEF Typed
  <2>3. PICK S \in SUBSET Ids : CleanRemoval(c, S)
    BY <2>1, <2>2, QuietKeepsRowids, CommitRows
  <2>4. i \in S
    BY <2>1, <2>3, RemovedRows DEF CleanRemoval
  <2> QED
    BY <2>3, <2>4 DEF CleanRemoval, InsertTombstones
<1> QED
  BY <1>1, AlwaysFresh, PTL DEF Spec, DeletionsAnnounced

-----------------------------------------------------------------------------
(***************************************************************************)
(* The capture gate, where the vault is open once                          *)
(***************************************************************************)
OneConnection == \A c, d \in Conns : c = d

\* What B2 found is still so while the capture is under way.
GateFresh == \A c \in Conns : pc[c] \in Carrying /\ arg[c].gated => Twins(arg[c]) = {}

LEMMA GateStep ==
    ASSUME OneConnection, TypeOK, GateFresh, Next
    PROVE  GateFresh'
<1> SUFFICES ASSUME NEW d \in Conns, pc'[d] \in Carrying, arg'[d].gated
             PROVE  Twins(arg[d])' = {}
  BY DEF GateFresh
<1>0. pc \in [Conns -> PCs] /\ arg \in [Conns -> Arg]
  BY TypeParts DEF Locals
<1>1. PICK c \in Conns : Connection(c) \/ Write(c) \/ Removal(c) \/ Linking(c) \/ Cursor(c)
  BY DEF Next
<1>2. c = d
  BY <1>1 DEF OneConnection
<1>3. CASE CaptureNew(d)
  <2>1. PICK e \in Arg : Twins(e) = {} /\ arg' = [arg EXCEPT ![d] = e]
    BY <1>3 DEF CaptureNew
  <2>2. arg'[d] = e
    BY <1>0, <2>1
  <2> QED
    BY <1>3, <2>1, <2>2 DEF CaptureNew, db, Twins, LiveIds, Live
<1>4. CASE CheckSimilar(d) \/ DeleteFts(d)
  <2>1. pc[d] \in Carrying /\ UNCHANGED <<engrams, arg>>
    BY <1>4 DEF CheckSimilar, DeleteFts, Carrying, db
  <2> QED
    BY <2>1 DEF GateFresh, Twins, LiveIds, Live
<1>5. CASE WriteCurated(d)
  BY <1>0, <1>5 DEF WriteCurated
<1>6. CASE Connection(d)
  BY <1>0, <1>6 DEF Connection, Open, Close, Crash, Fail, Return, Goto, Carrying
<1>7. CASE Write(d) /\ ~(CaptureNew(d) \/ CheckSimilar(d) \/ DeleteFts(d) \/ WriteCurated(d))
  BY <1>0, <1>7 DEF Write, CaptureNoise, CaptureTwin, Strengthen, CountSkip, CommitWrite,
     RefuseWrite, Called, Return, Goto, Carrying, local
<1>8. CASE Removal(d)
  BY <1>0, <1>8 DEF Removal, Delete, ApplyTombstone, PurgeSelect, PurgeCommit, PurgeConflict,
     Consolidate, Called, Return, Goto, Carrying, local
<1>9. CASE Linking(d)
  <2>1. CASE BackfillInsert(d)
    BY <1>0, <2>1 DEF BackfillInsert, Return, Goto, Carrying
  <2> QED
    BY <1>0, <1>9, <2>1 DEF Linking, Link, LinkBump, BackfillSelect, BackfillRefused,
       StoreEmbedding, Called, Return, Goto, Carrying, local
<1>10. CASE Cursor(d)
  BY <1>0, <1>10 DEF Cursor, MarkSynced, ResetSynced, ClearTombstones, RecordTombstone,
     Called, Carrying, local
<1> QED
  BY <1>1, <1>2, <1>3, <1>4, <1>5, <1>6, <1>7, <1>8, <1>9, <1>10

\* On a vault that is open once, a gated capture never stores a second row
\* with the content of another one (write_inner's B2 dedupe by content_hash).
THEOREM Dedupe == ASSUME OneConnection PROVE Spec => DedupeHolds
<1> DEFINE A == \A c \in Conns : (pc[c] = "insert" /\ arg[c].gated /\ CommitWrite(c))
                                   => Twins(arg[c]) = {}
<1>1. Init => GateFresh
  BY DEF Init, GateFresh, Carrying
<1>2. TypeOK /\ GateFresh /\ [Next]_vars => GateFresh'
  <2>1. CASE UNCHANGED vars
    BY <2>1 DEF vars, db, local, GateFresh, Twins, LiveIds, Live
  <2> QED
    BY <2>1, GateStep
<1>3. GateFresh => A
  BY DEF GateFresh, Carrying
<1>4. Spec => []TypeOK
  BY TypeCorrect
<1> QED
  BY <1>1, <1>2, <1>3, <1>4, PTL DEF Spec, DedupeHolds

-----------------------------------------------------------------------------
(***************************************************************************)
(* Rowids are a key of the table, and the index mirrors the table          *)
(***************************************************************************)

\* No two memories share a rowid: the index entry found at a memory's rowid
\* cannot be another memory's (SQLite hands out a rowid above all in use).
RowidsApart == \A i, j \in LiveIds : engrams[i].rowid = engrams[j].rowid => i = j

LEMMA RowidsStep ==
    ASSUME Typed, RowidsApart, Next
    PROVE  RowidsApart'
<1> SUFFICES ASSUME NEW i \in LiveIds', NEW j \in LiveIds',
                    engrams'[i].rowid = engrams'[j].rowid
             PROVE  i = j
  BY DEF RowidsApart
<1>1. i \in Ids /\ j \in Ids
  BY DEF LiveIds
<1>2. ASSUME NEW c \in Conns, Quiet(c) PROVE i = j
  BY <1>1, <1>2, QuietKeepsRowids DEF RowidsApart
<1>3. ASSUME NEW c \in Conns, CommitWrite(c) PROVE i = j
  <2> DEFINE w == arg[c].id
  <2>1. \A k \in LiveIds' : k # w => k \in LiveIds /\ engrams'[k] = engrams[k]
    BY <1>3, CommitRows DEF LiveIds
\* The rowid of the row written is its old one, or above every row's.
  <2>2. ASSUME NEW k \in LiveIds', k # w PROVE engrams'[k].rowid # engrams'[w].rowid
    <3>1. k \in LiveIds /\ engrams'[k] = engrams[k] /\ k \in Ids
      BY <2>1, <2>2 DEF LiveIds
    <3>2. RowidFor(w, engrams'[w].rowid) /\ w \in Ids
      BY <1>3, CommitRows
    <3>3. CASE Live(w)
      BY <2>2, <3>1, <3>2, <3>3 DEF RowidFor, RowidsApart, LiveIds
    <3>4. CASE ~Live(w)
      <4>1. engrams[k].rowid < engrams'[w].rowid /\ engrams'[w].rowid \in 1..MaxRowid
        BY <1>3, <3>1, <3>2, <3>4, CommitRows DEF RowidFor, NextRowid
      <4>2. engrams[k].rowid \in 0..MaxRowid
        BY <3>1, RowCases, TypeParts DEF Typed, Tables
      <4> QED
        BY <3>1, <4>1, <4>2, BoundAssumption
    <3> QED
      BY <3>3, <3>4
  <2> QED
    BY <2>1, <2>2 DEF RowidsApart
<1>4. ASSUME NEW S \in SUBSET Ids, Removes(S) PROVE i = j
  BY <1>1, <1>4, RemovedRows DEF RowidsApart
<1> QED
  BY <1>2, <1>3, <1>4, StepCases

\* Rowids stay a key of engrams through any mix of calls, failures and racing
\* purges (the upsert of write_inner, and every DELETE).
THEOREM RowidsAreKeys == Spec => []RowidsApart
<1>1. Init => RowidsApart
  BY DEF Init, RowidsApart, LiveIds, Live, NoRow
<1>2. Typed /\ RowidsApart /\ [Next]_vars => RowidsApart'
  <2>1. CASE UNCHANGED vars
    BY <2>1 DEF vars, db, RowidsApart, LiveIds, Live
  <2> QED
    BY <2>1, RowidsStep
<1> QED
  BY <1>1, <1>2, AlwaysTyped, PTL DEF Spec

\* An entry that blocks the rowid of a live memory is the memory's own.
LEMMA TakenByItself ==
    ASSUME TypeOK, IndexSound, RowidsApart, NEW i \in Ids, RowidTaken(i)
    PROVE  Live(i) /\ Indexed(i)
<1>1. Live(i)
  BY SoundFits DEF NewRowFits
<1>2. PICK f \in fts : f.rowid = engrams[i].rowid
  BY <1>1 DEF RowidTaken, RowidFor
<1>3. f.id \in LiveIds /\ engrams[f.id].rowid = f.rowid
  BY TypeParts DEF IndexSound, Tables, LiveIds
<1>4. f.id = i
  BY <1>1, <1>2, <1>3 DEF RowidsApart, LiveIds
<1> QED
  BY <1>1, <1>2, <1>4 DEF Indexed

\* Only a crash, an error or a refused transaction interrupts a write.
LEMMA QuietHistory ==
    ASSUME NEW c \in Conns, Quiet(c)
    PROVE  interrupted' = interrupted \/ Crash(c) \/ Fail(c) \/ RefuseWrite(c)
<1>1. CASE Connection(c)
  BY <1>1 DEF Connection, Open, Close
<1>2. CASE QuietWrite(c)
  BY <1>2 DEF QuietWrite, CaptureNoise, CaptureTwin, CaptureNew, Strengthen, CheckSimilar,
     CountSkip, WriteCurated, DeleteFts
<1>3. CASE QuietRemoval(c)
  BY <1>3 DEF QuietRemoval, PurgeSelect, PurgeConflict
<1>4. CASE Linking(c)
  BY <1>4 DEF Linking, Link, LinkBump, BackfillSelect, BackfillInsert, BackfillRefused,
     StoreEmbedding
<1>5. CASE Cursor(c)
  BY <1>5 DEF Cursor, MarkSynced, ResetSynced, ClearTombstones, RecordTombstone
<1> QED
  BY <1>1, <1>2, <1>3, <1>4, <1>5 DEF Quiet

\* Nothing fails but, at most, the FTS cleanup whose error the code ignores.
NothingFails == Faults \subseteq {"busy"}

LEMMA UninterruptedStep ==
    ASSUME NothingFails, Typed, IndexSound, RowidsApart, interrupted = {}, Next
    PROVE  interrupted' = {}
<1>1. ASSUME NEW c \in Conns, RefuseWrite(c) PROVE interrupted' = {}
  <2>1. arg[c].id \in Ids /\ RowidTaken(arg[c].id)
    BY <1>1 DEF RefuseWrite, Typed, ArgsGiven, Carrying
  <2>2. Indexed(arg[c].id)
    BY <2>1, TakenByItself DEF Typed
  <2> QED
    BY <1>1, <2>2 DEF RefuseWrite, LoseIndex
<1>2. ASSUME NEW c \in Conns PROVE ~Crash(c) /\ ~Fail(c)
  BY DEF NothingFails, Crash, Fail
<1>3. ASSUME NEW c \in Conns, Quiet(c) PROVE interrupted' = {}
  BY <1>1, <1>2, <1>3, QuietHistory
<1>4. ASSUME NEW c \in Conns, CommitWrite(c) PROVE interrupted' = {}
  BY <1>4 DEF CommitWrite
<1>5. ASSUME NEW S \in SUBSET Ids, Removes(S) PROVE interrupted' = {}
  BY <1>5 DEF Removes, Cascade
<1> QED
  BY <1>3, <1>4, <1>5, StepCases

\* With no write between its FTS cleanup and its transaction, the index holds
\* one entry per memory, at the memory's rowid, and no other.
IndexMirrors ==
    (\A c \in Conns : pc[c] # "insert") =>
        fts = {[rowid |-> engrams[i].rowid, id |-> i] : i \in LiveIds}

LEMMA SoundAndComplete ==
    TypeOK /\ IndexSound /\ IndexComplete /\ interrupted = {} => IndexMirrors
<1> SUFFICES ASSUME TypeOK, IndexSound, IndexComplete, interrupted = {},
                    \A c \in Conns : pc[c] # "insert"
             PROVE  fts = {[rowid |-> engrams[i].rowid, id |-> i] : i \in LiveIds}
  BY DEF IndexMirrors
<1>0. fts \subseteq [rowid: 1..MaxRowid, id: Ids]
  BY TypeParts DEF Tables
<1>1. ASSUME NEW f \in fts
      PROVE  f.id \in LiveIds /\ f = [rowid |-> engrams[f.id].rowid, id |-> f.id]
  BY <1>0 DEF IndexSound, LiveIds
<1>2. ASSUME NEW i \in LiveIds PROVE [rowid |-> engrams[i].rowid, id |-> i] \in fts
  <2>1. PICK f \in fts : f.id = i /\ f.rowid = engrams[i].rowid
    BY DEF IndexComplete, Indexed
  <2>2. f = [rowid |-> engrams[i].rowid, id |-> i]
    BY <1>0, <2>1
  <2> QED
    BY <2>2
<1> QED
  BY <1>1, <1>2

\* The index kept by hand mirrors the table whenever no write is under way,
\* however connections interleave and even when a cleanup's ignored error
\* left the old entry: a refused transaction costs no memory its entry
\* (write_inner's DELETE FROM engrams_fts .ok() before the transaction).
THEOREM MirrorKept ==
    ASSUME NoPurgeRace, NothingFails
    PROVE  Spec => [](IndexMirrors /\ interrupted = {})
<1>1. Init => interrupted = {}
  BY DEF Init
<1>2. /\ Typed /\ IndexSound /\ RowidsApart /\ interrupted = {} /\ [Next]_vars
      => (interrupted = {})'
  <2>1. CASE UNCHANGED vars
    BY <2>1 DEF vars
  <2> QED
    BY <2>1, UninterruptedStep
<1>3. Typed => TypeOK
  BY DEF Typed
<1>4. Spec => []IndexSound
  BY NoGhosts
<1> QED
  BY <1>1, <1>2, <1>3, <1>4, AlwaysTyped, RowidsAreKeys, Searchable, SoundAndComplete, PTL
     DEF Spec

-----------------------------------------------------------------------------
(***************************************************************************)
(* A write is never refused, where the vault is open once                  *)
(***************************************************************************)

\* A write about to commit finds no entry of its memory left in the index.
Cleaned == \A c \in Conns : pc[c] = "insert" => FtsOf({arg[c].id}) = {}

\* Only DeleteFts brings a connection to its insert.
LEMMA ToInsert ==
    ASSUME TypeOK, NEW c \in Conns, pc'[c] = "insert",
           Connection(c) \/ Write(c) \/ Removal(c) \/ Linking(c) \/ Cursor(c)
    PROVE  DeleteFts(c)
<1>0. pc \in [Conns -> PCs]
  BY TypeParts DEF Locals
<1>1. CASE Connection(c)
  BY <1>0, <1>1 DEF Connection, Open, Close, Crash, Fail, Called, Return, Goto
<1>2. CASE Write(c)
  <2>1. ASSUME NEW e \in Arg, Goto(c, IF e.vector THEN "similar" ELSE "index") PROVE FALSE
    BY <1>0, <2>1 DEF Goto
  <2> QED
    BY <1>0, <1>2, <2>1 DEF Write, CaptureNoise, CaptureTwin, CaptureNew, Strengthen,
       CheckSimilar, CountSkip, WriteCurated, CommitWrite, RefuseWrite, Called, Return, Goto, local
<1>3. CASE Removal(c)
  BY <1>0, <1>3 DEF Removal, Delete, ApplyTombstone, PurgeSelect, PurgeCommit, PurgeConflict,
     Consolidate, Called, Return, Goto, local
<1>4. CASE Linking(c)
  <2>1. CASE BackfillInsert(c)
    BY <1>0, <2>1 DEF BackfillInsert, Return, Goto
  <2> QED
    BY <1>0, <1>4, <2>1 DEF Linking, Link, LinkBump, BackfillSelect, BackfillRefused,
       StoreEmbedding, Called, Return, Goto, local
<1>5. CASE Cursor(c)
  BY <1>0, <1>5 DEF Cursor, MarkSynced, ResetSynced, ClearTombstones, RecordTombstone,
     Called, local
<1> QED
  BY <1>1, <1>2, <1>3, <1>4, <1>5

LEMMA CleanedStep ==
    ASSUME OneConnection, "busy" \notin Faults, TypeOK, Cleaned, Next
    PROVE  Cleaned'
<1> SUFFICES ASSUME NEW d \in Conns, pc'[d] = "insert" PROVE FtsOf({arg[d].id})' = {}
  BY DEF Cleaned
<1>1. PICK c \in Conns : Connection(c) \/ Write(c) \/ Removal(c) \/ Linking(c) \/ Cursor(c)
  BY DEF Next
<1>2. c = d
  BY <1>1 DEF OneConnection
<1>3. DeleteFts(d)
  BY <1>1, <1>2, ToInsert
<1> QED
  BY <1>3 DEF DeleteFts, FtsOf

\* A transaction about to write a memory finds its rowid free in the index.
WritesAdmitted == \A c \in Conns : pc[c] = "insert" => ~RowidTaken(arg[c].id)

\* On a vault that is open once, FTS5 never refuses a write, of a new memory
\* or a known one, unless the ignored error of the cleanup left an entry
\* (write_inner). With two connections a refusal is possible: both may clean up
\* before both commit.
THEOREM WritesFit ==
    ASSUME OneConnection, "busy" \notin Faults
    PROVE  Spec => []WritesAdmitted
<1>1. Init => Cleaned
  BY DEF Init, Cleaned
<1>2. TypeOK /\ Cleaned /\ [Next]_vars => Cleaned'
  <2>1. CASE UNCHANGED vars
    BY <2>1 DEF vars, db, local, Cleaned, FtsOf
  <2> QED
    BY <2>1, CleanedStep
<1>3. Typed /\ IndexSound /\ RowidsApart /\ Cleaned => WritesAdmitted
  <2> SUFFICES ASSUME Typed, IndexSound, RowidsApart, Cleaned,
                      NEW c \in Conns, pc[c] = "insert", RowidTaken(arg[c].id)
               PROVE  FALSE
    BY DEF WritesAdmitted
  <2>1. arg[c].id \in Ids
    BY DEF Typed, ArgsGiven, Carrying
  <2>2. Indexed(arg[c].id)
    BY <2>1, TakenByItself DEF Typed
  <2> QED
    BY <2>2 DEF Cleaned, Indexed, FtsOf
<1>4. NoPurgeRace
  BY DEF NoPurgeRace, OneConnection
<1>5. Spec => []IndexSound
  BY <1>4, NoGhosts
<1>6. Typed => TypeOK
  BY DEF Typed
<1> QED
  BY <1>1, <1>2, <1>3, <1>5, <1>6, AlwaysTyped, RowidsAreKeys, PTL DEF Spec

=============================================================================
