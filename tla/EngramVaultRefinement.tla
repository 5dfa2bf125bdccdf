----------------------- MODULE EngramVaultRefinement -----------------------
(***************************************************************************)
(* EngramVault implements MemoryVault: each of its steps is one step of    *)
(* the abstract vault or changes nothing the abstract vault shows.         *)
(***************************************************************************)
EXTENDS EngramVaultProofs

LEMMA InitMaps == Init => MV!Init
BY DEF Init, MV!Init, Memories, NoRow, MV!Gone, MV!Never, Never

\* What the abstract vault sees of a row.
Shown(r) == [hash |-> r.hash, modified |-> r.modified, synced |-> r.synced]

LEMMA MemoryOf ==
    ASSUME TypeOK, NEW i \in Ids
    PROVE  /\ Memories[i] = Shown(engrams[i])
           /\ Memories'[i] = Shown(engrams'[i])
           /\ engrams[i] \in Row \cup {NoRow}
BY TypeParts DEF Memories, Shown, Tables

LEMMA GoneIsNoRow == Shown(NoRow) = MV!Gone
BY DEF Shown, NoRow, MV!Gone, MV!Never, Never

\* What the abstract vault sees of a row that is restamped or whose cursor moves.
LEMMA ChangedRow ==
    ASSUME NEW r \in Row, NEW m
    PROVE  /\ Shown([r EXCEPT !.modified = m]) = [Shown(r) EXCEPT !.modified = m]
           /\ Shown([r EXCEPT !.synced = m]) = [Shown(r) EXCEPT !.synced = m]
BY DEF Row, Shown

LEMMA PresentIsLive == TypeOK => MV!Present = LiveIds
<1> SUFFICES ASSUME TypeOK, NEW i \in Ids PROVE Memories[i].modified # 0 <=> Live(i)
  BY DEF MV!Present, LiveIds
<1>0. Memories[i] = Shown(engrams[i])
  BY MemoryOf
<1>1. Memories[i].modified = engrams[i].modified
  BY <1>0 DEF Shown
<1>2. CASE Live(i)
  <2>1. engrams[i] \in Row
    BY <1>2, MemoryOf, RowCases DEF Live
  <2> QED
    BY <1>1, <1>2, <2>1, BoundAssumption DEF Row, Times
<1>3. CASE ~Live(i)
  <2>1. engrams[i] = NoRow
    BY <1>3, MemoryOf, RowCases DEF Live
  <2> QED
    BY <1>1, <1>3, <2>1 DEF NoRow
<1> QED
  BY <1>2, <1>3

\* A step that shows in neither the rows nor the tombstones is a stutter.
LEMMA StutterMaps ==
    ASSUME UNCHANGED <<engrams, tombstones>>
    PROVE  UNCHANGED MV!mvars
BY DEF MV!mvars, Memories

LEMMA RestampMaps ==
    ASSUME TypeOK, NEW i \in Ids, Restamp(i), now + 1 \in Times, UNCHANGED tombstones
    PROVE  MV!Next \/ UNCHANGED MV!mvars
<1>1. CASE ~Live(i)
  <2>1. engrams' = engrams
    BY <1>1, TypeParts DEF Restamp, Tables
  <2> QED
    BY <2>1, StutterMaps
<1>2. CASE Live(i)
  <2>1. /\ \A j \in Ids \ {i} : engrams'[j] = engrams[j]
        /\ engrams'[i] = [engrams[i] EXCEPT !.modified = now + 1]
    BY <1>2, TypeParts DEF Restamp, Tables
  <2>2. engrams[i] \in Row
    BY <1>2, MemoryOf, RowCases DEF Live
  <2>3. Memories'[i] = [Memories[i] EXCEPT !.modified = now + 1]
    <3>1. Memories[i] = Shown(engrams[i]) /\ Memories'[i] = Shown(engrams'[i])
      BY MemoryOf
    <3>2. Shown([engrams[i] EXCEPT !.modified = now + 1])
            = [Shown(engrams[i]) EXCEPT !.modified = now + 1]
      BY <2>2, ChangedRow
    <3> QED
      BY <2>1, <3>1, <3>2
  <2>4. \A j \in Ids \ {i} : Memories'[j] = Memories[j]
    BY <2>1, MemoryOf
  <2>5. Memories' = [Memories EXCEPT ![i].modified = now + 1]
    BY <2>3, <2>4 DEF Memories
  <2>6. i \in MV!Present
    BY <1>2, PresentIsLive DEF LiveIds
  <2>7. MV!Restamp(i, now + 1)
    BY <2>5, <2>6 DEF MV!Restamp
  <2> QED
    BY <2>7 DEF MV!Next, MV!Times, Times
<1> QED
  BY <1>1, <1>2

\* Moving the cursors of some live rows is MoveCursors.
LEMMA CursorsMap ==
    ASSUME TypeOK, NEW S \in SUBSET LiveIds, NEW at \in [S -> Never..MaxTime],
           \A i \in S : engrams'[i] = [engrams[i] EXCEPT !.synced = at[i]],
           \A i \in Ids \ S : engrams'[i] = engrams[i],
           UNCHANGED tombstones
    PROVE  MV!Next
<1>1. S \subseteq Ids
  BY DEF LiveIds
<1>2. ASSUME NEW i \in S PROVE Memories'[i] = [Memories[i] EXCEPT !.synced = at[i]]
  <2>1. engrams[i] \in Row
    BY <1>2, <1>1, MemoryOf, RowCases DEF LiveIds, Live
  <2>2. Memories[i] = Shown(engrams[i]) /\ Memories'[i] = Shown(engrams'[i])
    BY <1>1, <1>2, MemoryOf
  <2>3. Shown([engrams[i] EXCEPT !.synced = at[i]])
          = [Shown(engrams[i]) EXCEPT !.synced = at[i]]
    BY <2>1, ChangedRow
  <2> QED
    BY <1>2, <2>2, <2>3
<1>3. \A i \in Ids \ S : Memories'[i] = Memories[i]
  BY MemoryOf
<1>4. Memories' = [i \in Ids |-> IF i \in S THEN [Memories[i] EXCEPT !.synced = at[i]]
                                            ELSE Memories[i]]
  BY <1>1, <1>2, <1>3 DEF Memories
<1>5. MV!MoveCursors(S, at)
  BY <1>4 DEF MV!MoveCursors
<1> QED
  BY <1>5, PresentIsLive DEF MV!Next, MV!Never, Never

LEMMA QuietMaps ==
    ASSUME Typed, NEW c \in Conns, Quiet(c)
    PROVE  MV!Next \/ UNCHANGED MV!mvars
<1>1. TypeOK /\ Tables /\ Counters /\ Locals
  BY TypeParts DEF Typed
<1>2. ASSUME UNCHANGED <<engrams, tombstones>> PROVE UNCHANGED MV!mvars
  BY <1>2, StutterMaps
<1>3. CASE Open(c)
  <2> DEFINE S == {i \in LiveIds : engrams[i].synced = Never}
             at == [i \in S |-> engrams[i].modified]
  <2>1. \A i \in S : i \in Ids /\ engrams[i].modified \in Never..MaxTime
    <3>1. ASSUME NEW i \in S PROVE i \in Ids /\ engrams[i].modified \in Never..MaxTime
      <4>1. i \in Ids /\ engrams[i] \in Row
        BY <1>1, MemoryOf, RowCases DEF LiveIds, Live
      <4> QED
        BY <4>1, BoundAssumption DEF Row, Times, Never
    <3> QED
      BY <3>1
  <2>2. \A i \in S : engrams'[i] = [engrams[i] EXCEPT !.synced = at[i]]
    BY <1>3 DEF Open, LiveIds
  <2>3. \A i \in Ids \ S : engrams'[i] = engrams[i]
    BY <1>3 DEF Open, LiveIds
  <2>4. at \in [S -> Never..MaxTime] /\ S \in SUBSET LiveIds /\ UNCHANGED tombstones
    BY <1>3, <2>1 DEF Open
  <2> QED
    BY <1>1, <2>2, <2>3, <2>4, CursorsMap
<1>4. CASE Strengthen(c) \/ LinkBump(c)
  <2>1. now + 1 \in Times /\ Restamp(arg[c].id) /\ UNCHANGED tombstones
    BY <1>1, <1>4, StampTypes DEF Strengthen, LinkBump
  <2>2. CASE arg[c].id \in Ids
    BY <1>1, <2>1, <2>2, RestampMaps
  <2>3. CASE arg[c].id \notin Ids
    BY <1>1, <1>2, <2>1, <2>3 DEF Restamp, Tables
  <2> QED
    BY <2>2, <2>3
<1>5. CASE MarkSynced(c)
  <2>1. PICK U \in SUBSET Ids : \E p \in [U -> 1..now] :
          engrams' = [i \in Ids |-> IF i \in U /\ Live(i)
                                    THEN [engrams[i] EXCEPT !.synced = p[i]]
                                    ELSE engrams[i]]
    BY <1>5 DEF MarkSynced
  <2>2. PICK p \in [U -> 1..now] :
          engrams' = [i \in Ids |-> IF i \in U /\ Live(i)
                                    THEN [engrams[i] EXCEPT !.synced = p[i]]
                                    ELSE engrams[i]]
    BY <2>1
  <2> DEFINE S == U \cap LiveIds
             at == [i \in S |-> p[i]]
  <2>3. \A i \in S : p[i] \in Never..MaxTime
    BY <1>1, <2>2, BoundAssumption DEF Counters, Never
  <2>4. at \in [S -> Never..MaxTime] /\ S \in SUBSET LiveIds /\ UNCHANGED tombstones
    BY <1>5, <2>3 DEF MarkSynced
  <2>5. \A i \in S : engrams'[i] = [engrams[i] EXCEPT !.synced = at[i]]
    BY <2>2 DEF LiveIds
  <2>6. \A i \in Ids \ S : engrams'[i] = engrams[i]
    BY <2>2 DEF LiveIds
  <2> QED
    BY <1>1, <2>4, <2>5, <2>6, CursorsMap
<1>6. CASE ResetSynced(c)
  <2> DEFINE at == [i \in LiveIds |-> Never]
  <2>1. at \in [LiveIds -> Never..MaxTime] /\ UNCHANGED tombstones
    BY <1>6, BoundAssumption DEF ResetSynced, Never
  <2>2. \A i \in LiveIds : engrams'[i] = [engrams[i] EXCEPT !.synced = at[i]]
    BY <1>6 DEF ResetSynced, LiveIds
  <2>3. ASSUME NEW i \in Ids \ LiveIds PROVE engrams'[i] = engrams[i]
    <3>1. engrams[i] = NoRow
      BY <1>1, <2>3, MemoryOf, RowCases DEF LiveIds, Live
    <3> QED
      BY <1>6, <2>3, <3>1, ResetNoRow DEF ResetSynced
  <2> QED
    <3>1. LiveIds \in SUBSET LiveIds
      OBVIOUS
    <3> QED
      BY <1>1, <2>1, <2>2, <2>3, <3>1, CursorsMap
<1>7. CASE ClearTombstones(c)
  <2>1. PICK S \in SUBSET tombstones : tombstones' = tombstones \ S
    BY <1>7 DEF ClearTombstones
  <2>2. S \in SUBSET Ids /\ Memories' = Memories
    BY <1>1, <1>7, <2>1 DEF Tables, ClearTombstones, Memories
  <2>3. MV!Acknowledge(S)
    BY <2>1, <2>2 DEF MV!Acknowledge
  <2> QED
    BY <2>2, <2>3 DEF MV!Next
<1>8. ASSUME NEW i \in Ids, RecordTombstone(c, i) PROVE MV!Next
  <2>1. MV!Announce(i)
    BY <1>8 DEF RecordTombstone, MV!Announce, Memories
  <2> QED
    BY <2>1 DEF MV!Next
<1>9. CASE Connection(c) /\ ~Open(c)
  BY <1>2, <1>9 DEF Connection, Close, Crash, Fail, db
<1>10. CASE QuietWrite(c) /\ ~Strengthen(c)
  BY <1>2, <1>10 DEF QuietWrite, CaptureNoise, CaptureTwin, CaptureNew, CheckSimilar, CountSkip,
     WriteCurated, DeleteFts, RefuseWrite, db
<1>11. CASE QuietRemoval(c)
  BY <1>2, <1>11 DEF QuietRemoval, PurgeSelect, PurgeConflict, db
<1>12. CASE Linking(c) /\ ~LinkBump(c)
  BY <1>2, <1>12 DEF Linking, Link, BackfillSelect, BackfillInsert, BackfillRefused,
     StoreEmbedding, db
<1> QED
  BY <1>3, <1>4, <1>5, <1>6, <1>7, <1>8, <1>9, <1>10, <1>11, <1>12
     DEF Quiet, QuietWrite, Connection, Linking, Cursor

LEMMA CommitMaps ==
    ASSUME Typed, NEW c \in Conns, CommitWrite(c)
    PROVE  MV!Next
<1> DEFINE i == arg[c].id
           new == [hash |-> arg[c].hash, modified |-> arg[c].modified,
                   synced |-> engrams[i].synced]
<1>1. TypeOK /\ i \in Ids /\ arg[c].hash \in Hashes /\ arg[c].modified \in Times
  BY DEF Typed, CommitWrite, ArgsGiven, Carrying
<1>2. PICK r \in 1..MaxRowid :
        engrams' = [engrams EXCEPT ![i] =
                      [rowid |-> r, hash |-> arg[c].hash, kind |-> arg[c].kind,
                       modified |-> arg[c].modified, synced |-> @.synced]]
  BY DEF CommitWrite
<1>3. \A j \in Ids \ {i} : engrams'[j] = engrams[j]
  BY <1>1, <1>2, TypeParts DEF Tables
<1>4. engrams'[i] = [rowid |-> r, hash |-> arg[c].hash, kind |-> arg[c].kind,
                     modified |-> arg[c].modified, synced |-> engrams[i].synced]
  BY <1>1, <1>2, TypeParts DEF Tables
<1>5. Memories'[i] = new /\ Memories[i].synced = engrams[i].synced
  <2>1. Memories[i] = Shown(engrams[i]) /\ Memories'[i] = Shown(engrams'[i])
    BY <1>1, MemoryOf
  <2> QED
    BY <1>4, <2>1 DEF Shown
<1>6. \A j \in Ids \ {i} : Memories'[j] = Memories[j]
  BY <1>1, <1>3, MemoryOf
<1>7. Memories' = [Memories EXCEPT ![i] =
                     [hash |-> arg[c].hash, modified |-> arg[c].modified,
                      synced |-> @.synced]]
  BY <1>1, <1>5, <1>6 DEF Memories
<1>8. MV!Store(i, arg[c].hash, arg[c].modified)
  BY <1>7 DEF MV!Store, CommitWrite
<1> QED
  BY <1>1, <1>8 DEF MV!Next, MV!Times, Times

LEMMA RemovalMaps ==
    ASSUME Typed, NEW c \in Conns, NEW S \in SUBSET Ids, CleanRemoval(c, S)
    PROVE  MV!Next
<1>1. TypeOK
  BY DEF Typed
<1>2. \A i \in S : engrams'[i] = NoRow
  BY DEF CleanRemoval, Removes
<1>3. \A i \in Ids \ S : Shown(engrams'[i]) = Shown(engrams[i])
  BY DEF CleanRemoval, Removes, AlikeButKind, Shown
<1>4. \A i \in Ids : Memories'[i] = IF i \in S THEN MV!Gone ELSE Memories[i]
  BY <1>1, <1>2, <1>3, MemoryOf, GoneIsNoRow
<1>5. Memories' = [i \in Ids |-> IF i \in S THEN MV!Gone ELSE Memories[i]]
  BY <1>4 DEF Memories
<1>6. CASE S \subseteq LiveIds /\ InsertTombstones(S)
  <2>1. MV!Remove(S)
    BY <1>1, <1>5, <1>6, PresentIsLive DEF MV!Remove, InsertTombstones
  <2> QED
    BY <2>1 DEF MV!Next
<1>7. ASSUME NEW i \in Ids, S = {i}, ApplyTombstone(c, i) PROVE MV!Next
  <2>1. Memories' = [Memories EXCEPT ![i] = MV!Gone]
    BY <1>5, <1>7 DEF Memories
  <2>2. MV!ApplyRemote(i)
    BY <1>7, <2>1 DEF MV!ApplyRemote, ApplyTombstone
  <2> QED
    BY <2>2 DEF MV!Next
<1> QED
  BY <1>6, <1>7 DEF CleanRemoval

\* Where no purge races another connection, clients of the statement-by-
\* statement store see a vault in which every call is one atomic step: a
\* stored memory keeps its sync cursor, and a removal announces what it removes.
THEOREM Refinement == ASSUME NoPurgeRace PROVE Spec => ImplementsMemoryVault
<1>1. Typed /\ PurgeFresh /\ [Next]_vars => [MV!Next]_(MV!mvars)
  <2>1. CASE UNCHANGED vars
    BY <2>1, StutterMaps DEF vars, db
  <2>2. ASSUME Typed, PurgeFresh, Next PROVE MV!Next \/ UNCHANGED MV!mvars
    BY <2>2, FreshCases, QuietMaps, CommitMaps, RemovalMaps DEF Typed
  <2> QED
    BY <2>1, <2>2
<1> QED
  BY <1>1, InitMaps, AlwaysFresh, PTL DEF Spec, ImplementsMemoryVault, MV!Spec

=============================================================================
