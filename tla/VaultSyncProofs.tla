-------------------------- MODULE VaultSyncProofs --------------------------
(***************************************************************************)
(* What holds of a device and its sync loop for any memories, batch limit, *)
(* faults and number of writes.                                            *)
(*                                                                         *)
(* The argument is about time: every stamp lies in the past, so a write    *)
(* made now is newer than any cursor, and than any blob in flight.  Hence  *)
(* a row no newer than the blob that is being marked is the very row that  *)
(* was pushed, unless its stamp is not its own (a backdated write) or does *)
(* not cover its links (a cut link): the excused.  Nor does the relay give *)
(* up what it holds of a live memory that is not due, but for a deletion   *)
(* that waited longer than that version: the buried.                       *)
(***************************************************************************)
EXTENDS VaultSync, TLAPS

\* Every stamp lies in the past.
Past ==
    /\ \A i \in Ids : rows[i].modified <= now /\ rows[i].synced <= now
    /\ \A i \in Ids : batch[i].modified <= now
    /\ \A i \in Ids : inbox[i].modified <= now

\* Only a link of a memory that exists is waiting for its bump.
LinkingLive == \A i \in linking : Live(i)

Typed == TypeOK /\ Past /\ LinkingLive

LEMMA Numbers == MaxTime \in Nat /\ Times = 1..MaxTime /\ Never = 0
BY SyncAssumption DEF Times, Never

\* A row is a row of the table or none at all; the same for blobs.
LEMMA Kinds ==
    ASSUME TypeOK, NEW i \in Ids
    PROVE  /\ Live(i) => rows[i] \in Row
           /\ ~Live(i) => rows[i] = NoRow
           /\ InBatch(i) => batch[i] \in Entry
           /\ ~InBatch(i) => batch[i] = NoEntry
           /\ ~Fresh(i) => inbox[i] \in Blob
<1>1. /\ rows[i] \in Row \cup {NoRow}
      /\ batch[i] \in Entry \cup {NoEntry}
      /\ inbox[i] \in Blob \cup {NoBlob}
  BY DEF TypeOK
<1>2. ASSUME NEW r \in Row PROVE r.version # 0
  BY Numbers DEF Row
<1>3. ASSUME NEW e \in Entry PROVE e.version # 0
  BY Numbers DEF Entry
<1>4. NoRow.version = 0 /\ NoEntry.version = 0
  BY DEF NoRow, NoEntry
<1> QED
  BY <1>1, <1>2, <1>3, <1>4 DEF Live, InBatch, Fresh

LEMMA InitTyped == Init => Typed
<1> SUFFICES ASSUME Init PROVE Typed
  OBVIOUS
<1>1. TypeOK
  BY Numbers DEF Init, TypeOK, PCs
<1>2. Past
  BY DEF Init, Past, NoRow, NoEntry, NoBlob, Never
<1>3. LinkingLive
  BY DEF Init, LinkingLive
<1> QED
  BY <1>1, <1>2, <1>3 DEF Typed

\* Putting a row with past stamps into the table keeps it a table.
LEMMA PutRow ==
    ASSUME Typed, NEW i \in Ids, NEW r \in Row \cup {NoRow},
           now' \in Nat, now <= now', now' <= MaxTime,
           r.modified <= now', r.synced <= now',
           rows' = [rows EXCEPT ![i] = r]
    PROVE  /\ rows' \in [Ids -> Row \cup {NoRow}]
           /\ \A j \in Ids : rows'[j].modified <= now' /\ rows'[j].synced <= now'
<1>1. rows \in [Ids -> Row \cup {NoRow}] /\ now \in Nat
  BY Numbers DEF Typed, TypeOK
<1>2. \A j \in Ids : rows[j].modified <= now /\ rows[j].synced <= now
  BY DEF Typed, Past
<1>3. \A j \in Ids : rows[j].modified \in Nat /\ rows[j].synced \in Nat
  <2> TAKE j \in Ids
  <2>1. rows[j] \in Row \cup {NoRow}
    BY <1>1
  <2> QED
    BY <2>1, Numbers DEF Row, NoRow
<1>4. r.modified \in Nat /\ r.synced \in Nat
  BY Numbers DEF Row, NoRow
<1>5. ASSUME NEW j \in Ids PROVE rows'[j].modified <= now' /\ rows'[j].synced <= now'
  <2>1. CASE j = i
    BY <1>1, <2>1
  <2>2. CASE j # i
    BY <1>1, <1>2, <1>3, <2>2
  <2> QED
    BY <2>1, <2>2
<1> QED
  BY <1>1, <1>5

\* What lies in the past still does when the clock has moved on.
LEMMA StillPast ==
    ASSUME Typed, now' \in Nat, now <= now'
    PROVE  /\ now \in Nat
           /\ \A i \in Ids : rows[i].modified <= now' /\ rows[i].synced <= now'
           /\ \A i \in Ids : batch[i].modified <= now'
           /\ \A i \in Ids : inbox[i].modified <= now'
<1>0. now \in Nat
  BY Numbers DEF Typed, TypeOK
<1>1. ASSUME NEW i \in Ids
      PROVE  /\ rows[i].modified \in Nat /\ rows[i].synced \in Nat
             /\ batch[i].modified \in Nat /\ inbox[i].modified \in Nat
  <2>1. /\ rows[i] \in Row \cup {NoRow}
        /\ batch[i] \in Entry \cup {NoEntry}
        /\ inbox[i] \in Blob \cup {NoBlob}
    BY DEF Typed, TypeOK
  <2>2. rows[i].modified \in Nat /\ rows[i].synced \in Nat
    BY <2>1, Numbers DEF Row, NoRow
  <2>3. batch[i].modified \in Nat
    BY <2>1, Numbers DEF Entry, NoEntry
  <2>4. inbox[i].modified \in Nat
    BY <2>1, Numbers DEF Blob, NoBlob
  <2> QED
    BY <2>2, <2>3, <2>4
<1> QED
  BY <1>0, <1>1 DEF Typed, Past

\* An upsert puts a live row with past stamps where it says.
LEMMA UpsertRow ==
    ASSUME Typed, NEW i \in Ids, NEW v \in Times, NEW m \in Times,
           now' \in Nat, now <= now', now' <= MaxTime, m <= now',
           Upsert(i, v, m)
    PROVE  /\ rows' \in [Ids -> Row \cup {NoRow}]
           /\ \A j \in Ids : rows'[j].modified <= now' /\ rows'[j].synced <= now'
           /\ \A j \in Ids \ {i} : rows'[j] = rows[j]
           /\ rows'[i] = [version |-> v, modified |-> m, synced |-> rows[i].synced]
<1> DEFINE r == [version |-> v, modified |-> m, synced |-> rows[i].synced]
<1>1. rows \in [Ids -> Row \cup {NoRow}]
  BY DEF Typed, TypeOK
<1>2. rows[i].synced \in Never..MaxTime /\ rows[i].synced <= now'
  <2>1. rows[i] \in Row \cup {NoRow}
    BY <1>1
  <2> QED
    BY <2>1, StillPast, Numbers DEF Row, NoRow
<1>3. r \in Row
  BY <1>2 DEF Row
<1>4. rows' = [rows EXCEPT ![i] = r]
  BY DEF Upsert
<1> HIDE DEF r
<1>5. r.modified <= now' /\ r.synced <= now'
  BY <1>2 DEF r
<1>6. rows'[i] = r /\ \A j \in Ids \ {i} : rows'[j] = rows[j]
  BY <1>1, <1>4
<1> QED
  BY <1>3, <1>4, <1>5, <1>6, PutRow DEF r

\* A step that leaves rows, links and requests alone.
LEMMA Elsewhere ==
    ASSUME Typed, TypeOK', UNCHANGED <<rows, linking>>, now' \in Nat, now <= now',
           \A i \in Ids : batch'[i].modified <= now',
           \A i \in Ids : inbox'[i].modified <= now'
    PROVE  Typed'
BY StillPast DEF Typed, Past, LinkingLive, Live

LEMMA ClockTyped == Typed => now \in Nat /\ now <= MaxTime
BY Numbers DEF Typed, TypeOK

\* The next tick is a time.
LEMMA TickTyped ==
    ASSUME Typed, Tick
    PROVE  /\ now' = now + 1 /\ now \in Nat /\ now' \in Nat /\ now <= now'
           /\ now' <= MaxTime /\ now' \in Times /\ now' \in 0..MaxTime
BY ClockTyped, Numbers DEF Tick

\* Each step of the device's users keeps the types.
LEMMA WriteTyped ==
    ASSUME Typed, NEW i \in Ids, Write(i) \/ WriteBackdated(i)
    PROVE  Typed'
<1>1. Tick /\ UNCHANGED <<tombstones, linking, inbox, pc, batch, deletions, relay, owed>>
      /\ excused' \subseteq excused \cup {i} /\ buried' \subseteq buried
  BY DEF Write, WriteBackdated, loop, Renew, Pardon, Excuse
<1>2. PICK m \in Times : m <= now' /\ Upsert(i, now + 1, m)
  <2>1. CASE Write(i)
    BY <2>1, <1>1, TickTyped DEF Write
  <2>2. CASE WriteBackdated(i)
    <3>1. PICK m \in 1..now : Upsert(i, now + 1, m)
      BY <2>2 DEF WriteBackdated
    <3>2. m \in Times /\ m <= now'
      BY <3>1, <1>1, TickTyped, Numbers
    <3> QED
      BY <3>1, <3>2
  <2> QED
    BY <2>1, <2>2
<1>3. /\ rows' \in [Ids -> Row \cup {NoRow}]
      /\ \A j \in Ids : rows'[j].modified <= now' /\ rows'[j].synced <= now'
      /\ \A j \in Ids \ {i} : rows'[j] = rows[j]
      /\ rows'[i] = [version |-> now + 1, modified |-> m, synced |-> rows[i].synced]
  BY <1>1, <1>2, TickTyped, UpsertRow
<1>4. TypeOK'
  BY <1>1, <1>3, TickTyped DEF Typed, TypeOK
<1>5. Past'
  BY <1>1, <1>3, TickTyped, StillPast DEF Past
<1>6. LinkingLive'
  <2>1. linking \subseteq Ids
    BY DEF Typed, TypeOK
  <2>2. rows'[i].version # 0
    BY <1>1, <1>3, TickTyped
  <2> QED
    BY <2>1, <2>2, <1>1, <1>3 DEF Typed, LinkingLive, Live
<1> QED
  BY <1>4, <1>5, <1>6 DEF Typed

LEMMA DeleteTyped ==
    ASSUME Typed, NEW i \in Ids, Delete(i)
    PROVE  Typed'
<1>1. NoRow \in Row \cup {NoRow} /\ NoRow.modified = 0 /\ NoRow.synced = 0
  BY Numbers DEF NoRow
<1>2. now' = now /\ now' \in Nat /\ now <= now' /\ now' <= MaxTime
  BY ClockTyped DEF Delete
<1>3. rows' = [rows EXCEPT ![i] = NoRow]
  BY DEF Delete
<1>4. /\ rows' \in [Ids -> Row \cup {NoRow}]
      /\ \A j \in Ids : rows'[j].modified <= now' /\ rows'[j].synced <= now'
  <2>1. NoRow.modified <= now' /\ NoRow.synced <= now'
    BY <1>1, <1>2
  <2> QED
    BY <1>1, <1>2, <1>3, <2>1, PutRow
<1>5. TypeOK'
  BY <1>4 DEF Typed, TypeOK, Delete, Renew, loop
<1>6. Past'
  BY <1>2, <1>4, StillPast DEF Past, Delete, loop
<1>7. LinkingLive'
  BY <1>3 DEF Typed, TypeOK, LinkingLive, Live, Delete
<1> QED
  BY <1>5, <1>6, <1>7 DEF Typed

LEMMA LinkTyped ==
    ASSUME Typed, NEW i \in Ids, Link(i) \/ LinkBump(i) \/ LinkCut(i)
    PROVE  Typed'
<1>0. rows \in [Ids -> Row \cup {NoRow}] /\ linking \subseteq Ids /\ rows[i] \in Row \cup {NoRow}
  BY DEF Typed, TypeOK
<1>1. CASE Link(i)
  <2> DEFINE r == [rows[i] EXCEPT !.version = now + 1]
  <2>1. Live(i) /\ Tick
    BY <1>1 DEF Link
  <2>2. rows[i] \in Row
    BY <2>1, Kinds DEF Typed
  <2>3. rows' = [rows EXCEPT ![i] = r]
    BY <1>1 DEF Link
  <2>4. r \in Row /\ r.version = now + 1 /\ r.modified <= now' /\ r.synced <= now'
    BY <2>1, <2>2, TickTyped, StillPast DEF Row
  <2> HIDE DEF r
  <2>5. /\ rows' \in [Ids -> Row \cup {NoRow}]
        /\ \A j \in Ids : rows'[j].modified <= now' /\ rows'[j].synced <= now'
    BY <2>1, <2>3, <2>4, TickTyped, PutRow
  <2>6. TypeOK'
    BY <1>1, <2>1, <2>5, TickTyped DEF Typed, TypeOK, Link, loop, accounts
  <2>7. Past'
    BY <1>1, <2>1, <2>5, TickTyped, StillPast DEF Past, Link, loop
  <2>8. LinkingLive'
    <3>1. rows'[i].version # 0
      BY <1>0, <2>1, <2>3, <2>4, TickTyped
    <3>2. \A j \in Ids \ {i} : rows'[j] = rows[j]
      BY <1>0, <2>3
    <3> QED
      BY <1>0, <1>1, <3>1, <3>2 DEF Typed, LinkingLive, Live, Link
  <2> QED
    BY <2>6, <2>7, <2>8 DEF Typed
<1>2. CASE LinkBump(i)
  <2> DEFINE r == [rows[i] EXCEPT !.modified = now + 1]
  <2>1. Live(i) /\ Tick
    BY <1>2 DEF LinkBump, Typed, LinkingLive
  <2>2. rows[i] \in Row
    BY <2>1, Kinds DEF Typed
  <2>3. rows' = [rows EXCEPT ![i] = r]
    BY <1>2 DEF LinkBump
  <2>4. r \in Row /\ r.version = rows[i].version /\ r.modified <= now' /\ r.synced <= now'
    BY <2>1, <2>2, TickTyped, StillPast DEF Row
  <2> HIDE DEF r
  <2>5. /\ rows' \in [Ids -> Row \cup {NoRow}]
        /\ \A j \in Ids : rows'[j].modified <= now' /\ rows'[j].synced <= now'
    BY <2>1, <2>3, <2>4, TickTyped, PutRow
  <2>6. TypeOK'
    BY <1>2, <2>1, <2>5, TickTyped DEF Typed, TypeOK, LinkBump, loop, Renew, Pardon
  <2>7. Past'
    BY <1>2, <2>1, <2>5, TickTyped, StillPast DEF Past, LinkBump, loop
  <2>8. LinkingLive'
    <3>1. \A j \in Ids \ {i} : rows'[j] = rows[j]
      BY <1>0, <2>3
    <3> QED
      BY <1>0, <1>2, <3>1 DEF Typed, LinkingLive, Live, LinkBump
  <2> QED
    BY <2>6, <2>7, <2>8 DEF Typed
<1>3. CASE LinkCut(i)
  <2>1. UNCHANGED <<now, rows, tombstones, inbox, pc, batch, deletions, relay, owed>>
        /\ linking' \subseteq linking /\ excused' = excused \cup {i} /\ buried' = buried
    BY <1>3 DEF LinkCut, device, loop, Excuse
  <2>2. TypeOK'
    BY <2>1 DEF Typed, TypeOK
  <2>3. Past'
    BY <2>1 DEF Typed, Past
  <2>4. LinkingLive'
    BY <2>1 DEF Typed, LinkingLive, Live
  <2> QED
    BY <2>2, <2>3, <2>4 DEF Typed
<1> QED
  BY <1>1, <1>2, <1>3

\* Moving cursors to stamps of the past keeps the types, and moves nothing else.
LEMMA CursorsTyped ==
    ASSUME Typed, NEW S \in SUBSET Ids, NEW at,
           \A i \in S : Live(i) /\ at[i] \in Times /\ at[i] <= now,
           rows' = [i \in Ids |-> IF i \in S THEN [rows[i] EXCEPT !.synced = at[i]]
                                             ELSE rows[i]],
           now' = now
    PROVE  /\ rows' \in [Ids -> Row \cup {NoRow}]
           /\ \A i \in Ids : rows'[i].modified <= now' /\ rows'[i].synced <= now'
           /\ \A i \in Ids : rows'[i].version = rows[i].version
                             /\ rows'[i].modified = rows[i].modified
<1>1. now \in Nat
  BY ClockTyped
<1> SUFFICES ASSUME NEW i \in Ids
             PROVE  /\ rows'[i] \in Row \cup {NoRow}
                    /\ rows'[i].modified <= now' /\ rows'[i].synced <= now'
                    /\ rows'[i].version = rows[i].version
                    /\ rows'[i].modified = rows[i].modified
  OBVIOUS
<1>2. rows[i] \in Row \cup {NoRow}
  BY DEF Typed, TypeOK
<1>3. rows[i].modified <= now /\ rows[i].synced <= now
  BY <1>1, StillPast
<1>4. CASE i \in S
  <2>1. rows[i] \in Row
    BY <1>4, Kinds DEF Typed
  <2>2. rows'[i] = [rows[i] EXCEPT !.synced = at[i]]
    BY <1>4
  <2>3. at[i] \in Never..MaxTime
    BY <1>4, Numbers
  <2> QED
    BY <1>3, <1>4, <2>1, <2>2, <2>3 DEF Row
<1>5. CASE i \notin S
  BY <1>2, <1>3, <1>5
<1> QED
  BY <1>4, <1>5

LEMMA ReopenTyped ==
    ASSUME Typed, Reopen
    PROVE  Typed'
<1> DEFINE S == {i \in Ids : Live(i) /\ rows[i].synced = Never}
           at == [i \in Ids |-> rows[i].modified]
<1>1. ASSUME NEW i \in S PROVE Live(i) /\ at[i] \in Times /\ at[i] <= now
  <2>1. rows[i] \in Row
    BY Kinds DEF Typed
  <2> QED
    BY <2>1 DEF Row, Typed, Past
<1>2. rows' = [i \in Ids |-> IF i \in S THEN [rows[i] EXCEPT !.synced = at[i]] ELSE rows[i]]
  BY DEF Reopen
<1>3. /\ S \in SUBSET Ids /\ now' = now
      /\ UNCHANGED <<tombstones, linking, inbox, pc, batch, deletions, relay, owed>>
      /\ excused' = excused \cup S /\ buried' = buried
  BY DEF Reopen, loop, Excuse
<1> HIDE DEF S, at
<1>4. /\ rows' \in [Ids -> Row \cup {NoRow}]
      /\ \A i \in Ids : rows'[i].modified <= now' /\ rows'[i].synced <= now'
      /\ \A i \in Ids : rows'[i].version = rows[i].version
  BY <1>1, <1>2, <1>3, CursorsTyped
<1>5. TypeOK'
  BY <1>3, <1>4 DEF Typed, TypeOK
<1>6. Past'
  BY <1>3, <1>4 DEF Typed, Past
<1>7. LinkingLive'
  BY <1>3, <1>4 DEF Typed, TypeOK, LinkingLive, Live
<1> QED
  BY <1>5, <1>6, <1>7 DEF Typed

\* What the answer stamps the rows with lies in the past.
LEMMA MarkStamps ==
    ASSUME Typed, NEW i \in Ids, InBatch(i)
    PROVE  batch[i].modified \in Times /\ batch[i].modified <= now
<1>1. batch[i] \in Entry
  BY Kinds DEF Typed
<1> QED
  BY <1>1 DEF Entry, Typed, Past

LEMMA MarkTyped ==
    ASSUME Typed, MarkSynced
    PROVE  Typed'
<1> DEFINE S == {i \in Ids : InBatch(i) /\ Live(i)}
           at == [i \in Ids |-> batch[i].modified]
<1>1. ASSUME NEW i \in S PROVE Live(i) /\ at[i] \in Times /\ at[i] <= now
  BY MarkStamps
<1>2. rows' = [i \in Ids |-> IF i \in S THEN [rows[i] EXCEPT !.synced = at[i]] ELSE rows[i]]
  BY DEF MarkSynced
<1>3. /\ S \in SUBSET Ids /\ now' = now
      /\ UNCHANGED <<tombstones, linking, inbox, deletions, relay, owed, excused, buried>>
      /\ batch' = [i \in Ids |-> NoEntry] /\ pc' = "tombstones"
  BY DEF MarkSynced, NoBatch, Goto, accounts
<1> HIDE DEF S, at
<1>4. /\ rows' \in [Ids -> Row \cup {NoRow}]
      /\ \A i \in Ids : rows'[i].modified <= now' /\ rows'[i].synced <= now'
      /\ \A i \in Ids : rows'[i].version = rows[i].version
  BY <1>1, <1>2, <1>3, CursorsTyped
<1>5. TypeOK'
  BY <1>3, <1>4 DEF Typed, TypeOK, PCs
<1>6. Past'
  BY <1>3, <1>4, ClockTyped DEF Typed, Past, NoEntry
<1>7. LinkingLive'
  BY <1>3, <1>4 DEF Typed, TypeOK, LinkingLive, Live
<1> QED
  BY <1>5, <1>6, <1>7 DEF Typed

LEMMA PullTyped ==
    ASSUME Typed, NEW i \in Ids, Pull(i)
    PROVE  Typed'
<1>1. inbox[i] \in Blob /\ inbox[i].modified <= now
  BY Kinds, StillPast, ClockTyped DEF Typed, Pull
<1>2. /\ now' = now /\ now' \in Nat /\ now <= now' /\ now' <= MaxTime
      /\ UNCHANGED <<tombstones, pc, batch, deletions, relay, owed>>
      /\ excused' \subseteq excused /\ buried' \subseteq buried /\ linking' = linking \ {i}
      /\ inbox' = [inbox EXCEPT ![i] = NoBlob]
  BY ClockTyped DEF Pull, loop, Renew, Pardon
<1>3. /\ rows' \in [Ids -> Row \cup {NoRow}]
      /\ \A j \in Ids : rows'[j].modified <= now' /\ rows'[j].synced <= now'
      /\ \A j \in Ids \ {i} : rows'[j] = rows[j]
  <2>1. CASE inbox[i].deleted
    <3>1. rows' = [rows EXCEPT ![i] = NoRow]
      BY <2>1 DEF Pull
    <3>2. NoRow \in Row \cup {NoRow} /\ NoRow.modified <= now' /\ NoRow.synced <= now'
      BY <1>2, Numbers DEF NoRow
    <3>3. rows \in [Ids -> Row \cup {NoRow}]
      BY DEF Typed, TypeOK
    <3> QED
      BY <1>2, <3>1, <3>2, <3>3, PutRow
  <2>2. CASE ~inbox[i].deleted
    <3>1. Upsert(i, inbox[i].version, inbox[i].modified)
      BY <2>2 DEF Pull
    <3>2. inbox[i].version \in Times /\ inbox[i].modified \in Times
      BY <1>1 DEF Blob
    <3> QED
      BY <1>1, <1>2, <3>1, <3>2, UpsertRow
  <2> QED
    BY <2>1, <2>2
<1>4. TypeOK'
  BY <1>2, <1>3 DEF Typed, TypeOK
<1>5. \A j \in Ids : inbox'[j].modified <= now'
  <2>1. inbox \in [Ids -> Blob \cup {NoBlob}]
    BY DEF Typed, TypeOK
  <2> QED
    BY <1>2, <2>1 DEF Typed, Past, NoBlob
<1>6. Past'
  BY <1>2, <1>3, <1>5 DEF Typed, Past
<1>7. LinkingLive'
  BY <1>2, <1>3 DEF Typed, TypeOK, LinkingLive, Live
<1> QED
  BY <1>4, <1>6, <1>7 DEF Typed

LEMMA ListTyped ==
    ASSUME Typed, ListUnsynced
    PROVE  Typed'
<1>1. PICK S \in SUBSET Ids :
         /\ OldestDue(S)
         /\ batch' = [i \in Ids |-> IF i \in S THEN [version |-> rows[i].version,
                                                     modified |-> rows[i].modified]
                                               ELSE NoEntry]
  BY DEF ListUnsynced
<1>2. /\ UNCHANGED <<now, rows, tombstones, linking, inbox, deletions, relay, owed, excused, buried>>
      /\ pc' = "push"
  BY DEF ListUnsynced, device, accounts, Goto
<1>3. ASSUME NEW i \in Ids
      PROVE  batch'[i] \in Entry \cup {NoEntry} /\ batch'[i].modified <= now'
  <2>1. CASE i \in S
    <3>1. Live(i)
      BY <1>1, <2>1 DEF OldestDue, Due
    <3>2. rows[i] \in Row /\ rows[i].modified <= now
      BY <3>1, Kinds DEF Typed, Past
    <3> QED
      BY <1>1, <1>2, <2>1, <3>2 DEF Row, Entry
  <2>2. CASE i \notin S
    BY <1>1, <1>2, <2>2, ClockTyped DEF NoEntry
  <2> QED
    BY <2>1, <2>2
<1>4. batch' \in [Ids -> Entry \cup {NoEntry}]
  BY <1>1, <1>3
<1>5. TypeOK'
  BY <1>2, <1>4 DEF Typed, TypeOK, PCs
<1> QED
  BY <1>2, <1>3, <1>5 DEF Typed, Past, LinkingLive, Live

LEMMA AcceptTyped ==
    ASSUME Typed, RelayAccepts
    PROVE  Typed'
<1>1. /\ relay' = [i \in Ids |-> IF InBatch(i) /\ Fresh(i) THEN batch[i].version ELSE relay[i]]
      /\ batch' = [i \in Ids |-> IF Fresh(i) THEN batch[i] ELSE NoEntry]
      /\ pc' = "mark"
      /\ UNCHANGED <<now, rows, tombstones, linking, inbox, deletions, owed, excused, buried>>
  BY DEF RelayAccepts, device, Goto
<1>2. ASSUME NEW i \in Ids, InBatch(i) PROVE batch[i].version \in Times
  BY <1>2, Kinds DEF Typed, Entry
<1>3. relay' \in [Ids -> 0..MaxTime]
  BY <1>1, <1>2, Numbers DEF Typed, TypeOK
<1>4. \A i \in Ids : batch'[i].modified <= now' /\ batch'[i] \in Entry \cup {NoEntry}
  BY <1>1, ClockTyped DEF Typed, TypeOK, Past, NoEntry
<1>5. TypeOK'
  BY <1>1, <1>3, <1>4 DEF Typed, TypeOK, PCs
<1> QED
  BY <1>1, <1>4, <1>5 DEF Typed, Past, LinkingLive, Live

LEMMA PeerTyped ==
    ASSUME Typed, NEW i \in Ids, PeerPush(i)
    PROVE  Typed'
<1>1. PICK m \in Times, gone \in BOOLEAN :
         /\ m <= now + 1
         /\ inbox' = [inbox EXCEPT ![i] = [version |-> now + 1, modified |-> m,
                                           deleted |-> gone]]
         /\ relay' = [relay EXCEPT ![i] = IF gone THEN 0 ELSE now + 1]
  BY DEF PeerPush
<1>2. /\ Tick /\ UNCHANGED <<rows, tombstones, linking, pc, batch, deletions, owed, excused, buried>>
  BY DEF PeerPush, device, loop
<1>3. inbox \in [Ids -> Blob \cup {NoBlob}] /\ \A j \in Ids : inbox[j].modified <= now'
  BY <1>2, TickTyped, StillPast DEF Typed, TypeOK
<1>4. [version |-> now + 1, modified |-> m, deleted |-> gone] \in Blob
  BY <1>2, TickTyped DEF Blob
<1>5. \A j \in Ids : inbox'[j].modified <= now'
  BY <1>1, <1>2, <1>3, TickTyped
<1>6. relay' \in [Ids -> 0..MaxTime]
  <2>1. relay \in [Ids -> 0..MaxTime] /\ now + 1 \in 0..MaxTime /\ 0 \in 0..MaxTime
    BY <1>2, TickTyped, Numbers DEF Typed, TypeOK
  <2> QED
    BY <1>1, <2>1
<1>7. TypeOK'
  BY <1>1, <1>2, <1>3, <1>4, <1>6, TickTyped DEF Typed, TypeOK
<1> QED
  BY <1>2, <1>5, <1>7, TickTyped, StillPast DEF Typed, Past, LinkingLive, Live

\* Listing and pushing deletions, clearing them, losing a request and ending
\* a pull leave the rows alone and put nothing new into the batch.
LEMMA RestTyped ==
    ASSUME Typed,
           \/ ListTombstones \/ RelayAcceptsDeletions \/ ClearTombstones
           \/ Lose \/ PullDone
    PROVE  Typed'
<1>0. relay' \in [Ids -> 0..MaxTime] /\ buried' \subseteq Ids
  <2>1. relay \in [Ids -> 0..MaxTime] /\ buried \subseteq Ids /\ deletions \subseteq Ids /\ 0 \in 0..MaxTime
    BY Numbers DEF Typed, TypeOK
  <2>2. CASE RelayAcceptsDeletions
    <3>1. /\ relay' = [i \in Ids |-> IF i \in deletions' THEN 0 ELSE relay[i]]
          /\ buried' = buried \cup {i \in deletions' : Live(i) /\ ~Due(i)}
          /\ deletions' \subseteq deletions
      BY <2>2 DEF RelayAcceptsDeletions
    <3> QED
      BY <2>1, <3>1
  <2>3. CASE ~RelayAcceptsDeletions
    BY <2>1, <2>3 DEF ListTombstones, ClearTombstones, Lose, PullDone, accounts
  <2> QED
    BY <2>2, <2>3
<1>1. /\ UNCHANGED <<now, rows, linking, inbox, excused>>
      /\ tombstones' \subseteq tombstones /\ owed' \subseteq owed
      /\ deletions' \subseteq tombstones \cup deletions
      /\ batch' = batch \/ batch' = [i \in Ids |-> NoEntry]
      /\ pc' \in PCs
  BY DEF ListTombstones, RelayAcceptsDeletions, ClearTombstones, Lose, PullDone,
         device, accounts, NoBatch, Goto, PCs
<1>2. TypeOK'
  BY <1>0, <1>1 DEF Typed, TypeOK
<1>3. \A i \in Ids : batch'[i].modified <= now'
  BY <1>1, ClockTyped DEF Typed, Past, NoEntry
<1> QED
  BY <1>1, <1>2, <1>3 DEF Typed, Past, LinkingLive, Live

LEMMA StepTyped == Typed /\ [Next]_vars => Typed'
<1> SUFFICES ASSUME Typed, [Next]_vars PROVE Typed'
  OBVIOUS
<1>1. ASSUME NEW i \in Ids, User(i) PROVE Typed'
  BY <1>1, WriteTyped, DeleteTyped, LinkTyped DEF User
<1>2. ASSUME NEW i \in Ids, PeerPush(i) PROVE Typed'
  BY <1>2, PeerTyped
<1>3. CASE Reopen
  BY <1>3, ReopenTyped
<1>4. CASE Loop
  BY <1>4, ListTyped, AcceptTyped, MarkTyped, PullTyped, RestTyped DEF Loop
<1>5. CASE Lose
  BY <1>5, RestTyped
<1>6. CASE UNCHANGED vars
  BY <1>6 DEF vars, device, loop, accounts, Typed, TypeOK, Past, LinkingLive, Live
<1> QED
  BY <1>1, <1>2, <1>3, <1>4, <1>5, <1>6 DEF Next

\* The device's tables, its loop and the relay's answers hold values of their
\* kinds, for any memories, batch limit, faults and number of writes.
THEOREM TypeCorrect == Spec => []TypeOK
<1>1. Typed => TypeOK
  BY DEF Typed
<1> QED
  BY <1>1, InitTyped, StepTyped, PTL DEF Spec

-----------------------------------------------------------------------------
(***************************************************************************)
(* Deletions                                                               *)
(***************************************************************************)

\* What is being pushed is still queued, and what an answer lets the loop
\* clear is no longer owed. A deletion made meanwhile is of an id with no
\* pending tombstone, so it is neither.
Queued ==
    /\ owed \subseteq tombstones
    /\ deletions \subseteq tombstones
    /\ pc = "clear" => deletions \cap owed = {}

LEMMA InitQueued == Init => Queued
BY DEF Init, Queued

LEMMA StepQueued == Queued /\ [Next]_vars => Queued'
<1> SUFFICES ASSUME Queued, [Next]_vars PROVE Queued'
  OBVIOUS
<1>1. ASSUME NEW i \in Ids, User(i) PROVE Queued'
  <2>1. CASE Delete(i)
    BY <2>1 DEF Delete, Renew, Queued, loop
  <2>2. CASE Write(i)
    BY <2>2 DEF Write, Pardon, Queued, loop
  <2>3. CASE WriteBackdated(i)
    BY <2>3 DEF WriteBackdated, Excuse, Queued, loop
  <2>4. CASE Link(i)
    BY <2>4 DEF Link, accounts, Queued, loop
  <2>5. CASE LinkBump(i)
    BY <2>5 DEF LinkBump, Pardon, Queued, loop
  <2>6. CASE LinkCut(i)
    BY <2>6 DEF LinkCut, Excuse, device, Queued, loop
  <2> QED
    BY <1>1, <2>1, <2>2, <2>3, <2>4, <2>5, <2>6 DEF User
<1>2. ASSUME NEW i \in Ids, PeerPush(i) PROVE Queued'
  BY <1>2 DEF PeerPush, device, loop, Queued
<1>3. CASE Reopen
  BY <1>3 DEF Reopen, Excuse, loop, Queued
<1>4. CASE Loop
  <2>1. CASE ListUnsynced
    BY <2>1 DEF ListUnsynced, device, accounts, Goto, Queued
  <2>2. CASE RelayAccepts
    BY <2>2 DEF RelayAccepts, device, Goto, Queued
  <2>3. CASE MarkSynced
    BY <2>3 DEF MarkSynced, accounts, Goto, Queued
  <2>4. CASE ListTombstones
    BY <2>4 DEF ListTombstones, device, accounts, Goto, Queued
  <2>5. CASE RelayAcceptsDeletions
    BY <2>5 DEF RelayAcceptsDeletions, device, Goto, Queued
  <2>6. CASE ClearTombstones
    BY <2>6 DEF ClearTombstones, accounts, Goto, Queued
  <2>7. CASE PullDone
    BY <2>7 DEF PullDone, device, accounts, Goto, Queued
  <2>8. ASSUME NEW i \in Ids, Pull(i) PROVE Queued'
    BY <2>8 DEF Pull, Pardon, loop, Queued
  <2> QED
    BY <1>4, <2>1, <2>2, <2>3, <2>4, <2>5, <2>6, <2>7, <2>8 DEF Loop
<1>5. CASE Lose
  BY <1>5 DEF Lose, device, accounts, Goto, Queued
<1>6. CASE UNCHANGED vars
  BY <1>6 DEF vars, device, loop, accounts, Queued
<1> QED
  BY <1>1, <1>2, <1>3, <1>4, <1>5, <1>6 DEF Next

\* A local deletion stays in the queue until the relay has accepted it,
\* whatever is deleted, re-created, pulled or lost between listing, pushing
\* and clearing.
THEOREM Deletions == Spec => []DeletionsKept
<1>1. Queued => DeletionsKept
  BY DEF Queued, DeletionsKept
<1> QED
  BY <1>1, InitQueued, StepQueued, PTL DEF Spec

-----------------------------------------------------------------------------
(***************************************************************************)
(* Edits                                                                   *)
(***************************************************************************)

\* A memory outside excused, buried and linking: its stamp covers what a push
\* of it would carry.
Stamped(i) == Live(i) /\ i \notin excused \cup buried /\ i \notin linking

\* What is pushed is due until the answer comes; while a batch is on its way,
\* a row no newer than its blob is the row the blob was made of; and what the
\* relay has accepted, or another device pushed, it holds.
Safe(i) ==
    /\ Stamped(i) /\ ~Due(i) /\ Fresh(i) => rows[i].version = relay[i]
    /\ pc = "push" /\ InBatch(i) /\ Stamped(i) => Due(i)
    /\ pc \in {"push", "mark"} /\ InBatch(i) /\ Stamped(i)
         /\ rows[i].modified <= batch[i].modified => rows[i].version = batch[i].version
    /\ pc = "mark" /\ InBatch(i) /\ Fresh(i) => batch[i].version = relay[i]
    /\ ~Fresh(i) /\ ~inbox[i].deleted => inbox[i].version = relay[i]

Accounted == \A i \in Ids : Safe(i)

LEMMA InitAccounted == Init => Accounted
BY DEF Init, Accounted, Safe, Stamped, Live, InBatch, Fresh, NoRow, NoEntry

\* A step that does not touch a memory, its blobs or the loop keeps it safe;
\* it may excuse it.
LEMMA Undisturbed ==
    ASSUME NEW i \in Ids, Safe(i),
           rows'[i] = rows[i], inbox'[i] = inbox[i], batch'[i] = batch[i], pc' = pc,
           relay'[i] = relay[i],
           i \in excused \cup buried \cup linking => i \in excused' \cup buried' \cup linking'
    PROVE  Safe(i)'
BY DEF Safe, Stamped, Live, Due, InBatch, Fresh

\* A row that is written now, or whose stamp is not its own, is not taken
\* for the one that was pushed.
LEMMA Renewed ==
    ASSUME Typed, NEW i \in Ids, Safe(i), Tick,
           rows'[i].modified = now' \/ i \in excused' \cup linking',
           rows'[i].synced = rows[i].synced,
           inbox' = inbox, batch' = batch, pc' = pc, relay' = relay
    PROVE  Safe(i)'
<1>1. CASE i \in excused' \cup linking'
  BY <1>1 DEF Safe, Stamped, Live, Due, InBatch, Fresh
<1>2. CASE rows'[i].modified = now'
  <2>1. rows[i].synced <= now /\ batch[i].modified <= now /\ now' = now + 1 /\ now \in Nat
    BY TickTyped DEF Typed, Past
  <2>2. rows[i].synced \in Nat /\ batch[i].modified \in Nat
    <3>1. rows[i] \in Row \cup {NoRow} /\ batch[i] \in Entry \cup {NoEntry}
      BY DEF Typed, TypeOK
    <3> QED
      BY <3>1, Numbers DEF Row, NoRow, Entry, NoEntry
  <2>3. rows'[i].modified > rows'[i].synced /\ ~(rows'[i].modified <= batch'[i].modified)
    BY <1>2, <2>1, <2>2
  <2> QED
    BY <2>3 DEF Safe, Stamped, Live, Due, InBatch, Fresh
<1> QED
  BY <1>1, <1>2

LEMMA UserAccounted ==
    ASSUME Typed, Accounted, NEW i \in Ids, User(i)
    PROVE  Accounted'
<1>0. /\ rows \in [Ids -> Row \cup {NoRow}] /\ inbox \in [Ids -> Blob \cup {NoBlob}]
      /\ batch \in [Ids -> Entry \cup {NoEntry}]
  BY DEF Typed, TypeOK
<1> SUFFICES ASSUME NEW j \in Ids PROVE Safe(j)'
  BY DEF Accounted
<1>1. Safe(j)
  BY DEF Accounted
<1>2. UNCHANGED <<inbox, batch, pc, relay>>
  BY DEF User, Write, WriteBackdated, Delete, Link, LinkBump, LinkCut, loop, accounts,
         Renew, Pardon, Excuse
<1>3. CASE j # i
  <2>1. rows'[j] = rows[j]
    BY <1>0, <1>3 DEF User, Write, WriteBackdated, Upsert, Delete, Link, LinkBump, LinkCut, device
  <2>2. j \in excused \cup buried \cup linking => j \in excused' \cup buried' \cup linking'
    BY <1>3 DEF User, Write, WriteBackdated, Delete, Link, LinkBump, LinkCut, accounts,
                Renew, Pardon, Excuse
  <2> QED
    BY <1>1, <1>2, <2>1, <2>2, Undisturbed
<1>4. CASE j = i
  <2>1. CASE Write(i)
    <3>1. Tick /\ rows'[i].modified = now' /\ rows'[i].synced = rows[i].synced
      BY <1>0, <2>1, TickTyped DEF Write, Upsert
    <3> QED
      BY <1>1, <1>2, <1>4, <3>1, Renewed
  <2>2. CASE WriteBackdated(i)
    <3>1. Tick /\ i \in excused' /\ rows'[i].synced = rows[i].synced
      BY <1>0, <2>2 DEF WriteBackdated, Upsert, Excuse
    <3> QED
      BY <1>1, <1>2, <1>4, <3>1, Renewed
  <2>3. CASE Delete(i)
    <3>1. rows'[i] = NoRow
      BY <1>0, <2>3 DEF Delete
    <3>2. ~Live(i)'
      BY <3>1 DEF Live, NoRow
    <3> QED
      BY <1>1, <1>2, <1>4, <3>2 DEF Safe, Stamped, InBatch, Fresh
  <2>4. CASE Link(i)
    <3>1. Tick /\ i \in linking' /\ rows'[i].synced = rows[i].synced
      BY <1>0, <2>4 DEF Link
    <3> QED
      BY <1>1, <1>2, <1>4, <3>1, Renewed
  <2>5. CASE LinkBump(i)
    <3>1. Tick /\ rows'[i].modified = now' /\ rows'[i].synced = rows[i].synced
      BY <1>0, <2>5, TickTyped DEF LinkBump
    <3> QED
      BY <1>1, <1>2, <1>4, <3>1, Renewed
  <2>6. CASE LinkCut(i)
    <3>1. i \in excused' /\ rows' = rows /\ relay' = relay
      BY <2>6 DEF LinkCut, Excuse, device
    <3> QED
      BY <1>1, <1>2, <1>4, <3>1, Undisturbed
  <2> QED
    BY <2>1, <2>2, <2>3, <2>4, <2>5, <2>6 DEF User
<1> QED
  BY <1>3, <1>4

LEMMA PeerAccounted ==
    ASSUME Typed, Accounted, NEW i \in Ids, PeerPush(i)
    PROVE  Accounted'
<1>0. inbox \in [Ids -> Blob \cup {NoBlob}] /\ relay \in [Ids -> 0..MaxTime]
  BY DEF Typed, TypeOK
<1>1. PICK m \in Times, gone \in BOOLEAN :
         /\ inbox' = [inbox EXCEPT ![i] = [version |-> now + 1, modified |-> m, deleted |-> gone]]
         /\ relay' = [relay EXCEPT ![i] = IF gone THEN 0 ELSE now + 1]
  BY DEF PeerPush
<1>2. Tick /\ UNCHANGED <<rows, linking, pc, batch, excused, buried>>
  BY DEF PeerPush, device, loop
<1> SUFFICES ASSUME NEW j \in Ids PROVE Safe(j)'
  BY DEF Accounted
<1>3. Safe(j)
  BY DEF Accounted
<1>4. CASE j # i
  BY <1>0, <1>1, <1>2, <1>3, <1>4, Undisturbed
<1>5. CASE j = i
  <2>1. /\ inbox'[i].version = now + 1 /\ inbox'[i].deleted = gone
        /\ ~gone => relay'[i] = now + 1
    BY <1>0, <1>1
  <2>2. ~Fresh(i)'
    BY <1>2, <2>1, TickTyped DEF Fresh, NoBlob
  <2> QED
    BY <1>2, <1>3, <1>5, <2>1, <2>2 DEF Safe, Stamped, Live, Due, InBatch
<1> QED
  BY <1>4, <1>5

\* The v6 block moves cursors of memories it thereby excuses, and touches
\* neither stamps nor versions.
LEMMA ReopenAccounted ==
    ASSUME Typed, Accounted, Reopen
    PROVE  Accounted'
<1> SUFFICES ASSUME NEW j \in Ids PROVE Safe(j)'
  BY DEF Accounted
<1>1. Safe(j)
  BY DEF Accounted
<1>2. UNCHANGED <<linking, inbox, pc, batch, relay, buried>>
  BY DEF Reopen, loop, Excuse
<1>3. CASE Live(j) /\ rows[j].synced = Never
  <2>1. j \in excused'
    BY <1>3 DEF Reopen, Excuse
  <2> QED
    BY <1>1, <1>2, <2>1 DEF Safe, Stamped, InBatch, Fresh
<1>4. CASE ~(Live(j) /\ rows[j].synced = Never)
  <2>1. rows'[j] = rows[j] /\ (j \in excused => j \in excused')
    BY <1>4 DEF Reopen, Excuse
  <2> QED
    BY <1>1, <1>2, <2>1, Undisturbed
<1> QED
  BY <1>3, <1>4

LEMMA ListAccounted ==
    ASSUME Typed, Accounted, ListUnsynced
    PROVE  Accounted'
<1>1. PICK S \in SUBSET Ids :
         /\ OldestDue(S)
         /\ batch' = [i \in Ids |-> IF i \in S THEN [version |-> rows[i].version,
                                                     modified |-> rows[i].modified]
                                               ELSE NoEntry]
  BY DEF ListUnsynced
<1>2. /\ UNCHANGED <<rows, linking, inbox, relay, excused, buried>>
      /\ pc' = "push"
  BY DEF ListUnsynced, device, accounts, Goto
<1> SUFFICES ASSUME NEW j \in Ids PROVE Safe(j)'
  BY DEF Accounted
<1>3. InBatch(j)' => batch'[j].version = rows[j].version /\ Due(j)
  BY <1>1 DEF InBatch, NoEntry, OldestDue
<1> QED
  BY <1>2, <1>3 DEF Accounted, Safe, Stamped, Live, Due, Fresh

LEMMA AcceptAccounted ==
    ASSUME Typed, Accounted, RelayAccepts
    PROVE  Accounted'
<1>1. /\ relay' = [i \in Ids |-> IF InBatch(i) /\ Fresh(i) THEN batch[i].version ELSE relay[i]]
      /\ batch' = [i \in Ids |-> IF Fresh(i) THEN batch[i] ELSE NoEntry]
      /\ pc = "push" /\ pc' = "mark"
      /\ UNCHANGED <<rows, linking, inbox, excused, buried>>
  BY DEF RelayAccepts, device, Goto
<1> SUFFICES ASSUME NEW j \in Ids PROVE Safe(j)'
  BY DEF Accounted
<1>2. Safe(j)
  BY DEF Accounted
<1>3. InBatch(j)' => InBatch(j) /\ Fresh(j) /\ batch'[j] = batch[j]
  BY <1>1 DEF InBatch, NoEntry
<1>4. relay'[j] = IF InBatch(j) /\ Fresh(j) THEN batch[j].version ELSE relay[j]
  BY <1>1
<1>5. Stamped(j)' /\ ~Due(j)' /\ Fresh(j)' => rows'[j].version = relay'[j]
  BY <1>1, <1>2, <1>4 DEF Safe, Stamped, Live, Due, Fresh
<1> QED
  BY <1>1, <1>2, <1>3, <1>4, <1>5 DEF Safe, Stamped, Live, Due, Fresh

\* A marked row that is no longer due is the row that was pushed: its stamp
\* is no newer than the blob's.
LEMMA MarkAccounted ==
    ASSUME Typed, Accounted, MarkSynced
    PROVE  Accounted'
<1>1. /\ rows' = [i \in Ids |-> IF InBatch(i) /\ Live(i)
                              THEN [rows[i] EXCEPT !.synced = batch[i].modified] ELSE rows[i]]
      /\ pc = "mark" /\ pc' = "tombstones"
      /\ UNCHANGED <<linking, inbox, relay, excused, buried>>
  BY DEF MarkSynced, accounts, Goto
<1> SUFFICES ASSUME NEW j \in Ids PROVE Safe(j)'
  BY DEF Accounted
<1>2. Safe(j)
  BY DEF Accounted
<1>3. CASE InBatch(j) /\ Live(j)
  <2>1. rows[j] \in Row /\ batch[j] \in Entry
    BY <1>3, Kinds DEF Typed
  <2>2. /\ rows'[j].version = rows[j].version /\ rows'[j].modified = rows[j].modified
        /\ rows'[j].synced = batch[j].modified
    BY <1>1, <1>3, <2>1 DEF Row
  <2>3. batch[j].modified # Never /\ rows[j].modified \in Nat /\ batch[j].modified \in Nat
    BY <2>1, Numbers DEF Row, Entry
  <2>4. ASSUME Stamped(j)', ~Due(j)', Fresh(j)' PROVE rows'[j].version = relay'[j]
    <3>1. Stamped(j) /\ Fresh(j)
      BY <1>1, <1>3, <2>4 DEF Stamped, Fresh
    <3>2. rows[j].modified <= batch[j].modified
      BY <2>2, <2>3, <2>4 DEF Due, Stamped
    <3> QED
      BY <1>1, <1>2, <1>3, <2>2, <3>1, <3>2 DEF Safe
  <2> QED
    BY <1>1, <1>2, <2>4 DEF Safe, Fresh
<1>4. CASE ~(InBatch(j) /\ Live(j))
  <2>1. rows'[j] = rows[j]
    BY <1>1, <1>4
  <2>2. UNCHANGED <<linking, inbox, relay, excused, buried>> /\ pc' = "tombstones"
    BY <1>1
  <2> QED
    BY <1>2, <2>1, <2>2 DEF Safe, Stamped, Live, Due, Fresh
<1> QED
  BY <1>3, <1>4

\* What is pulled is what the relay holds, for it refuses the device's own
\* blobs until it has been pulled.
LEMMA PullAccounted ==
    ASSUME Typed, Accounted, NEW i \in Ids, Pull(i)
    PROVE  Accounted'
<1>0. rows \in [Ids -> Row \cup {NoRow}] /\ inbox \in [Ids -> Blob \cup {NoBlob}]
  BY DEF Typed, TypeOK
<1>1. /\ UNCHANGED <<pc, batch, relay>> /\ pc = "pull" /\ ~Fresh(i)
      /\ inbox' = [inbox EXCEPT ![i] = NoBlob]
      /\ linking' = linking \ {i} /\ excused' = excused \ {i} /\ buried' = buried \ {i}
  BY DEF Pull, loop, Renew, Pardon
<1> SUFFICES ASSUME NEW j \in Ids PROVE Safe(j)'
  BY DEF Accounted
<1>2. Safe(j) /\ Safe(i)
  BY DEF Accounted
<1>3. CASE j # i
  <2>1. rows'[j] = rows[j] /\ inbox'[j] = inbox[j]
    BY <1>0, <1>1, <1>3 DEF Pull, Upsert
  <2> QED
    BY <1>1, <1>2, <1>3, <2>1, Undisturbed
<1>4. CASE j = i
  <2>1. Live(i)' => ~inbox[i].deleted /\ rows'[i].version = inbox[i].version
    BY <1>0, <1>1 DEF Pull, Upsert, Live, NoRow
  <2>2. inbox'[i] = NoBlob
    BY <1>0, <1>1
  <2> QED
    BY <1>1, <1>2, <1>4, <2>1, <2>2 DEF Safe, Stamped, Fresh
<1> QED
  BY <1>3, <1>4

\* The relay deletes no memory that another device has written since, and
\* what it deletes of a live one is due or buried.
LEMMA DeletionsAccounted ==
    ASSUME Typed, Accounted, RelayAcceptsDeletions
    PROVE  Accounted'
<1>1. /\ deletions' = {i \in deletions : Fresh(i)}
      /\ relay' = [i \in Ids |-> IF i \in deletions' THEN 0 ELSE relay[i]]
      /\ buried' = buried \cup {i \in deletions' : Live(i) /\ ~Due(i)}
      /\ UNCHANGED <<rows, linking, inbox, excused>> /\ pc' = "clear"
  BY DEF RelayAcceptsDeletions, device, Goto
<1> SUFFICES ASSUME NEW j \in Ids PROVE Safe(j)'
  BY DEF Accounted
<1>2. Safe(j)
  BY DEF Accounted
<1>3. CASE j \in deletions'
  <2>1. Fresh(j)' /\ ~(Stamped(j)' /\ ~Due(j)')
    BY <1>1, <1>3 DEF Fresh, Stamped, Live, Due
  <2> QED
    BY <1>1, <2>1 DEF Safe
<1>4. CASE j \notin deletions'
  BY <1>1, <1>2, <1>4 DEF Safe, Stamped, Live, Due, Fresh
<1> QED
  BY <1>3, <1>4

LEMMA RestAccounted ==
    ASSUME Typed, Accounted, ListTombstones \/ ClearTombstones \/ Lose \/ PullDone
    PROVE  Accounted'
<1>1. /\ UNCHANGED <<rows, linking, inbox, relay, excused, buried>>
      /\ pc' \notin {"push", "mark"}
  BY DEF ListTombstones, ClearTombstones, Lose, PullDone, device, accounts, Goto
<1> QED
  BY <1>1 DEF Accounted, Safe, Stamped, Live, Due, Fresh

LEMMA StepAccounted == Typed /\ Accounted /\ [Next]_vars => Accounted'
<1> SUFFICES ASSUME Typed, Accounted, [Next]_vars PROVE Accounted'
  OBVIOUS
<1>1. ASSUME NEW i \in Ids, User(i) \/ PeerPush(i) PROVE Accounted'
  BY <1>1, UserAccounted, PeerAccounted
<1>2. CASE Reopen
  BY <1>2, ReopenAccounted
<1>3. CASE Loop
  BY <1>3, ListAccounted, AcceptAccounted, MarkAccounted, DeletionsAccounted, PullAccounted,
     RestAccounted DEF Loop
<1>4. CASE Lose
  BY <1>4, RestAccounted
<1>5. CASE UNCHANGED vars
  BY <1>5, Undisturbed DEF vars, device, loop, accounts, Accounted
<1> QED
  BY <1>1, <1>2, <1>3, <1>4, <1>5 DEF Next

\* A memory that list_unsynced passes over is held by the relay in its
\* present version, unless its link is half made, another device's blob of it
\* is still to be pulled, a fault has kept its edit back or the relay has
\* given it up for the deletion of an earlier memory of the same id.
THEOREM OnlyKnown == Spec => []OnlyKnownStrand
<1>1. Accounted => OnlyKnownStrand
  BY DEF Accounted, Safe, Stamped, OnlyKnownStrand, Stranded
<1> QED
  BY <1>1, InitTyped, StepTyped, InitAccounted, StepAccounted, PTL DEF Spec

\* Where nothing but requests and answers is lost, nothing is excused.
LEMMA NothingExcused ==
    ASSUME Faults \subseteq {"lost"}
    PROVE  Spec => [](excused = {})
<1>1. Init => excused = {}
  BY DEF Init
<1>2. excused = {} /\ [Next]_vars => (excused = {})'
  <2> SUFFICES ASSUME excused = {}, [Next]_vars PROVE excused' = {}
    OBVIOUS
  <2>1. ASSUME NEW i \in Ids, User(i) \/ PeerPush(i) PROVE excused' = {}
    BY <2>1 DEF User, PeerPush, Write, WriteBackdated, Delete, Link, LinkBump, LinkCut, Renew,
       Pardon, accounts
  <2>2. CASE Reopen
    BY <2>2 DEF Reopen
  <2>3. CASE Loop
    BY <2>3 DEF Loop, ListUnsynced, RelayAccepts, MarkSynced, ListTombstones,
       RelayAcceptsDeletions, ClearTombstones, PullDone, Pull, Renew, Pardon, accounts
  <2>4. CASE Lose \/ UNCHANGED vars
    BY <2>4 DEF Lose, accounts, vars
  <2> QED
    BY <2>1, <2>2, <2>3, <2>4 DEF Next
<1> QED
  BY <1>1, <1>2, PTL DEF Spec

\* On a device whose vault is opened once, whose links are made whole and
\* whose edits carry the time they are made, only a tombstone strands a
\* memory: one that waited while its id was written again and pushed, and
\* then deleted that at the relay. No other order of edits, deletions, links
\* and pulls with a list, its push and its mark does, and no lost request or
\* answer.
THEOREM Unfaulted ==
    ASSUME Faults \subseteq {"lost"}
    PROVE  Spec => []NothingStranded
<1>1. OnlyKnownStrand /\ excused = {} => NothingStranded
  BY DEF OnlyKnownStrand, NothingStranded
<1> QED
  BY <1>1, NothingExcused, OnlyKnown, PTL

-----------------------------------------------------------------------------
(***************************************************************************)
(* The device is a vault as MemoryVault describes it                       *)
(***************************************************************************)

\* The map of the abstract vault.
Memories == [i \in Ids |-> [hash |-> rows[i].version,
                           modified |-> rows[i].modified, synced |-> rows[i].synced]]

\* A memory of the map is present exactly if its row is live.
LEMMA PresentLive ==
    ASSUME Typed, NEW i \in Ids
    PROVE  /\ Memories[i].modified # 0 <=> Live(i)
           /\ ~Live(i) => Memories[i] = [hash |-> 0, modified |-> 0, synced |-> Never]
<1>1. CASE Live(i)
  <2>1. rows[i] \in Row
    BY <1>1, Kinds DEF Typed
  <2>2. rows[i].modified # 0
    BY <2>1, Numbers DEF Row
  <2> QED
    BY <1>1, <2>2 DEF Memories
<1>2. CASE ~Live(i)
  BY <1>2, Kinds DEF Typed, Memories, NoRow, Never
<1> QED
  BY <1>1, <1>2

\* The other rows of the map do not change with one row of the table.
LEMMA OneMemory ==
    ASSUME Typed, NEW i \in Ids, NEW r \in Row \cup {NoRow}, rows' = [rows EXCEPT ![i] = r]
    PROVE  Memories' = [Memories EXCEPT ![i] =
             [hash |-> r.version, modified |-> r.modified, synced |-> r.synced]]
<1>1. rows \in [Ids -> Row \cup {NoRow}]
  BY DEF Typed, TypeOK
<1> QED
  BY <1>1 DEF Memories

LEMMA InitRefines == Init => MV!Init
BY DEF Init, MV!Init, MV!Gone, NoRow, MV!Never, Never

\* A row that is put into the table is stored in the map.
LEMMA StoreRefines ==
    ASSUME Typed, NEW i \in Ids, NEW v \in Times, NEW m \in Times,
           rows' = [rows EXCEPT ![i] = [version |-> v, modified |-> m, synced |-> @.synced]],
           tombstones' = tombstones
    PROVE  MV!Next
<1>1. rows \in [Ids -> Row \cup {NoRow}]
  BY DEF Typed, TypeOK
<1>2. Memories' = [Memories EXCEPT ![i] = [hash |-> v, modified |-> m, synced |-> @.synced]]
  BY <1>1 DEF Memories
<1>3. MV!Store(i, v, m)
  BY <1>2 DEF MV!Store, Memories
<1> QED
  BY <1>3 DEF MV!Next, MV!Times, Times

LEMMA GoneRefines ==
    ASSUME Typed, NEW i \in Ids, rows' = [rows EXCEPT ![i] = NoRow]
    PROVE  Memories' = [Memories EXCEPT ![i] = MV!Gone]
<1>1. rows \in [Ids -> Row \cup {NoRow}]
  BY DEF Typed, TypeOK
<1> QED
  BY <1>1 DEF Memories, NoRow, MV!Gone, MV!Never, Never

\* Moving the cursors of live rows moves those of present memories.
LEMMA CursorsRefine ==
    ASSUME Typed, NEW S \in SUBSET Ids, NEW at,
           \A i \in S : Live(i) /\ at[i] \in Times,
           rows' = [i \in Ids |-> IF i \in S THEN [rows[i] EXCEPT !.synced = at[i]]
                                             ELSE rows[i]],
           tombstones' = tombstones
    PROVE  MV!Next
<1> DEFINE to == [i \in S |-> at[i]]
<1>1. Memories' = [i \in Ids |-> IF i \in S THEN [Memories[i] EXCEPT !.synced = to[i]]
                                            ELSE Memories[i]]
  <2> SUFFICES ASSUME NEW i \in Ids
               PROVE  Memories'[i] = IF i \in S THEN [Memories[i] EXCEPT !.synced = to[i]]
                                                ELSE Memories[i]
    BY DEF Memories
  <2>1. CASE i \in S
    <3>1. rows[i] \in Row
      BY <2>1, Kinds DEF Typed
    <3>2. rows'[i] = [rows[i] EXCEPT !.synced = to[i]]
      BY <2>1
    <3> QED
      BY <2>1, <3>1, <3>2 DEF Memories, Row
  <2>2. CASE i \notin S
    BY <2>2 DEF Memories
  <2> QED
    BY <2>1, <2>2
<1>2. S \in SUBSET MV!Present
  BY PresentLive DEF MV!Present, Memories
<1>3. to \in [S -> MV!Never..MaxTime]
  BY Numbers DEF MV!Never
<1> HIDE DEF to
<1>4. MV!MoveCursors(S, to)
  BY <1>1 DEF MV!MoveCursors, Memories
<1> QED
  BY <1>2, <1>3, <1>4 DEF MV!Next

\* Each step of the users maps to a step of the vault, or to none.
LEMMA UserRefines ==
    ASSUME Typed, NEW i \in Ids, User(i)
    PROVE  MV!Next \/ UNCHANGED <<Memories, tombstones>>
<1>0. rows \in [Ids -> Row \cup {NoRow}]
  BY DEF Typed, TypeOK
<1>1. CASE Write(i)
  BY <1>1, TickTyped, StoreRefines DEF Write, Upsert
<1>2. CASE WriteBackdated(i)
  <2>1. Tick /\ tombstones' = tombstones
    BY <1>2 DEF WriteBackdated
  <2>2. PICK m \in 1..now : Upsert(i, now + 1, m)
    BY <1>2 DEF WriteBackdated
  <2>3. m \in Times /\ now + 1 \in Times
    BY <2>1, <2>2, TickTyped, Numbers
  <2> QED
    BY <2>1, <2>2, <2>3, StoreRefines DEF Upsert
<1>3. CASE Delete(i)
  <2>1. Memories' = [Memories EXCEPT ![i] = MV!Gone]
    BY <1>3, GoneRefines DEF Delete
  <2>2. Memories' = [j \in Ids |-> IF j \in {i} THEN MV!Gone ELSE Memories[j]]
    BY <2>1 DEF Memories
  <2>3. {i} \subseteq MV!Present /\ {i} \cap tombstones = {} /\ tombstones' = tombstones \cup {i}
    BY <1>3, PresentLive DEF Delete, MV!Present, Memories
  <2>4. MV!Remove({i})
    BY <2>2, <2>3 DEF MV!Remove, Memories
  <2> QED
    BY <2>4 DEF MV!Next
<1>4. CASE Link(i)
  <2>1. Tick /\ tombstones' = tombstones /\ Live(i) /\ rows' = [rows EXCEPT ![i].version = now + 1]
    BY <1>4 DEF Link
  <2>2. rows[i] \in Row
    BY <2>1, Kinds DEF Typed
  <2>3. [rows[i] EXCEPT !.version = now + 1] = [version |-> now + 1, modified |-> rows[i].modified,
                 synced |-> rows[i].synced]
    BY <2>2 DEF Row
  <2>4. rows' = [rows EXCEPT ![i] = [version |-> now + 1, modified |-> rows[i].modified,
                                     synced |-> @.synced]]
    BY <2>1, <2>3
  <2>5. rows[i].modified \in Times /\ now + 1 \in Times
    BY <2>1, <2>2, TickTyped DEF Row
  <2> QED
    BY <2>1, <2>4, <2>5, StoreRefines
<1>5. CASE LinkBump(i)
  <2>1. /\ Tick /\ tombstones' = tombstones /\ rows' = [rows EXCEPT ![i].modified = now + 1]
        /\ Live(i)
    BY <1>5 DEF LinkBump, Typed, LinkingLive
  <2>2. rows[i] \in Row
    BY <2>1, Kinds DEF Typed
  <2>3. [rows[i] EXCEPT !.modified = now + 1] = [version |-> rows[i].version, modified |-> now + 1,
                 synced |-> rows[i].synced]
    BY <2>2 DEF Row
  <2>4. rows' = [rows EXCEPT ![i] = [version |-> rows[i].version, modified |-> now + 1,
                                     synced |-> @.synced]]
    BY <2>1, <2>3
  <2>5. rows[i].version \in Times /\ now + 1 \in Times
    BY <2>1, <2>2, TickTyped DEF Row
  <2> QED
    BY <2>1, <2>4, <2>5, StoreRefines
<1>6. CASE LinkCut(i)
  BY <1>6 DEF LinkCut, device, Memories
<1> QED
  BY <1>1, <1>2, <1>3, <1>4, <1>5, <1>6 DEF User

LEMMA PullRefines ==
    ASSUME Typed, NEW i \in Ids, Pull(i)
    PROVE  MV!Next
<1>1. CASE inbox[i].deleted
  <2>1. Memories' = [Memories EXCEPT ![i] = MV!Gone] /\ tombstones' = tombstones
    BY <1>1, GoneRefines DEF Pull
  <2>2. MV!ApplyRemote(i)
    BY <2>1 DEF MV!ApplyRemote, Memories
  <2> QED
    BY <2>2 DEF MV!Next
<1>2. CASE ~inbox[i].deleted
  <2>1. inbox[i].version \in Times /\ inbox[i].modified \in Times
    BY Kinds DEF Typed, Pull, Blob
  <2> QED
    BY <1>2, <2>1, StoreRefines DEF Pull, Upsert
<1> QED
  BY <1>1, <1>2

LEMMA LoopRefines ==
    ASSUME Typed, Reopen \/ Loop \/ Lose
    PROVE  MV!Next \/ UNCHANGED <<Memories, tombstones>>
<1>1. CASE Reopen
  <2> DEFINE S == {i \in Ids : Live(i) /\ rows[i].synced = Never}
             at == [i \in Ids |-> rows[i].modified]
  <2>1. ASSUME NEW i \in S PROVE Live(i) /\ at[i] \in Times
    BY Kinds DEF Typed, Row
  <2>2. rows' = [i \in Ids |-> IF i \in S THEN [rows[i] EXCEPT !.synced = at[i]] ELSE rows[i]]
    BY <1>1 DEF Reopen
  <2>3. S \in SUBSET Ids /\ tombstones' = tombstones
    BY <1>1 DEF Reopen
  <2> HIDE DEF S, at
  <2> QED
    BY <2>1, <2>2, <2>3, CursorsRefine
<1>2. CASE MarkSynced
  <2> DEFINE S == {i \in Ids : InBatch(i) /\ Live(i)}
             at == [i \in Ids |-> batch[i].modified]
  <2>1. ASSUME NEW i \in S PROVE Live(i) /\ at[i] \in Times
    BY MarkStamps
  <2>2. rows' = [i \in Ids |-> IF i \in S THEN [rows[i] EXCEPT !.synced = at[i]] ELSE rows[i]]
    BY <1>2 DEF MarkSynced
  <2>3. S \in SUBSET Ids /\ tombstones' = tombstones
    BY <1>2 DEF MarkSynced
  <2> HIDE DEF S, at
  <2> QED
    BY <2>1, <2>2, <2>3, CursorsRefine
<1>3. CASE ClearTombstones
  <2>1. tombstones' = tombstones \ deletions /\ rows' = rows
    BY <1>3 DEF ClearTombstones
  <2>2. MV!Acknowledge(deletions)
    BY <2>1 DEF MV!Acknowledge, Memories
  <2>3. deletions \in SUBSET Ids
    BY DEF Typed, TypeOK
  <2> QED
    BY <2>2, <2>3 DEF MV!Next
<1>4. ASSUME NEW i \in Ids, Pull(i) PROVE MV!Next
  BY <1>4, PullRefines
<1>5. CASE ListUnsynced \/ RelayAccepts \/ ListTombstones \/ RelayAcceptsDeletions \/ PullDone \/ Lose
  <2>1. UNCHANGED <<rows, tombstones>>
    BY <1>5 DEF ListUnsynced, RelayAccepts, ListTombstones, RelayAcceptsDeletions, PullDone,
                Lose, device
  <2> QED
    BY <2>1 DEF Memories
<1> QED
  BY <1>1, <1>2, <1>3, <1>4, <1>5 DEF Loop

\* Users and sync loop do to the vault only what the abstract vault allows:
\* they store, remove and announce, apply, move the cursors of memories that
\* exist, and acknowledge.
THEOREM Refinement == Spec => DeviceIsMemoryVault
<1>1. Typed /\ [Next]_vars => [MV!Next]_MV!mvars
  <2> SUFFICES ASSUME Typed, [Next]_vars
               PROVE  MV!Next \/ UNCHANGED <<Memories, tombstones>>
    BY DEF MV!mvars, Memories
  <2>1. ASSUME NEW i \in Ids, User(i) PROVE MV!Next \/ UNCHANGED <<Memories, tombstones>>
    BY <2>1, UserRefines
  <2>2. ASSUME NEW i \in Ids, PeerPush(i) PROVE UNCHANGED <<Memories, tombstones>>
    BY <2>2 DEF PeerPush, device, Memories
  <2>3. CASE Reopen \/ Loop \/ Lose
    BY <2>3, LoopRefines
  <2>4. CASE UNCHANGED vars
    BY <2>4 DEF vars, device, Memories
  <2> QED
    BY <2>1, <2>2, <2>3, <2>4 DEF Next
<1> QED
  BY <1>1, InitTyped, StepTyped, InitRefines, PTL
  DEF Spec, DeviceIsMemoryVault, MV!Spec

=============================================================================
