----------------------- MODULE MemoryLifecycleProofs -----------------------
(***************************************************************************)
(* What holds of the ageing of memories and of the access ledger for any   *)
(* memories, callers, workloads and bounds.                                *)
(*                                                                         *)
(* Three arguments, each with an invariant of its own: what a row or a     *)
(* copy of one claims, was read (Backed); a row that has decayed to what   *)
(* consolidation prunes was left alone for a day, or an edit has undone    *)
(* what its use gave it (Earned); and, as long as one connection records,  *)
(* the events an integrator's cursor has passed are the first ones of the  *)
(* ledger (Passed).                                                        *)
(***************************************************************************)
EXTENDS MemoryLifecycle, FiniteSetTheorems, TLAPS

\* Days and the strengths of rows lie in the past, and what a caller holds
\* is the copy of a row.
Dated ==
    /\ \A i \in Ids : rows[i].created <= today
    /\ \A c \in Callers : copies[c].row.created <= today
    /\ \A c \in Callers : copies[c] # NoCopy => copies[c].of \in Ids /\ copies[c].row \in Row

\* The ledger numbers its events.
Ordered ==
    /\ Recorded \in Nat /\ Recorded <= MaxEvents
    /\ DOMAIN events = 1..Recorded
    /\ \A e \in 1..Recorded : events[e] \in 1..MaxEvents

Kinds ==
    /\ calls \in Workloads
    /\ today \in Days
    /\ rows \in [Ids -> Row \cup {NoRow}]
    /\ copies \in [Callers -> [of: Ids \cup {NoId}, row: Row \cup {NoRow}]]
    /\ clock \in 0..MaxEvents
    /\ stamping \in [Conns -> [at: 0..MaxEvents, count: 0..2]]
    /\ poll \in [cursor: 0..MaxEvents, seen: SUBSET (1..MaxEvents), full: BOOLEAN]
    /\ reads \in [Ids -> 0..PromoteAt]
    /\ lastUse \in [Ids -> Never..MaxDay]
    /\ foreign \subseteq Ids /\ neglected \subseteq Ids /\ undone \subseteq Ids

\* Whoever is about to insert has a timestamp.
Stamped == \A w \in Conns : stamping[w] # NotStamping => stamping[w].at \in 1..clock

Typed == Kinds /\ Dated /\ Stamped /\ Ordered

LEMMA Numbers ==
    /\ IsFiniteSet(Ids) /\ NoId \notin Ids
    /\ PromoteAt \in Nat \ {0} /\ Top \in Nat \ {0} /\ PollLimit \in Nat \ {0}
    /\ MaxDay \in Nat \ {0} /\ MaxEvents \in Nat
    /\ Never = 0 /\ Days = 1..MaxDay /\ Levels = 0..Top
BY LifecycleAssumption DEF Never, Days, Levels

\* A row is a row of the table or none at all.
LEMMA RowKinds ==
    ASSUME Kinds, NEW i \in Ids
    PROVE  /\ Stored(i) => rows[i] \in Row
           /\ ~Stored(i) => rows[i] = NoRow
<1>1. rows[i] \in Row \cup {NoRow}
  BY DEF Kinds
<1>2. ASSUME NEW r \in Row PROVE r.created # 0
  BY Numbers DEF Row
<1>3. NoRow.created = 0
  BY DEF NoRow
<1> QED
  BY <1>1, <1>2, <1>3 DEF Stored

\* The fields of a row.
LEMMA Fields ==
    ASSUME NEW r \in Row
    PROVE  /\ r.layer \in {"episodic", "semantic"}
           /\ r.imagined \in BOOLEAN /\ r.grounded \in BOOLEAN
           /\ r.created \in Nat /\ r.created # 0
           /\ r.retrieved \in Nat /\ r.retrieved \in Never..MaxDay
           /\ r.retrievals \in Nat /\ r.retrievals \in 0..PromoteAt
           /\ r.strength \in Nat /\ r.strength \in Levels
BY Numbers DEF Row

LEMMA StrongerLevel ==
    ASSUME NEW n \in Levels
    PROVE  Stronger(n) \in Levels /\ Stronger(n) # 0
BY Numbers DEF Stronger

LEMMA OneMoreCount ==
    ASSUME NEW n \in 0..PromoteAt
    PROVE  OneMore(n) \in 0..PromoteAt /\ n <= OneMore(n)
BY Numbers DEF OneMore

LEMMA InitTyped == Init => Typed
<1> SUFFICES ASSUME Init PROVE Typed
  OBVIOUS
<1>1. DOMAIN events = {} /\ Recorded = 0
  BY FS_EmptySet DEF Init, Recorded
<1>2. Kinds
  BY Numbers DEF Init, Kinds, NoCopy, NotStamping
<1>3. Dated
  BY DEF Init, Dated, NoRow, NoCopy
<1>4. Ordered /\ Stamped
  BY <1>1, Numbers DEF Ordered, Stamped, Init
<1> QED
  BY <1>2, <1>3, <1>4 DEF Typed

\* A step that leaves day and ledger alone keeps the types if it puts rows
\* of the past where it puts rows.
LEMMA RowsTyped ==
    ASSUME Typed, UNCHANGED <<calls, today, ledger>>,
           rows' \in [Ids -> Row \cup {NoRow}],
           \A i \in Ids : rows'[i].created <= today,
           copies' \in [Callers -> [of: Ids \cup {NoId}, row: Row \cup {NoRow}]],
           \A c \in Callers : copies'[c].row.created <= today,
           \A c \in Callers : copies'[c] # NoCopy => copies'[c].of \in Ids /\ copies'[c].row \in Row,
           reads' \in [Ids -> 0..PromoteAt], lastUse' \in [Ids -> Never..MaxDay],
           foreign' \subseteq Ids, neglected' \subseteq Ids, undone' \subseteq Ids
    PROVE  Typed'
<1>1. Kinds'
  BY DEF Typed, Kinds, ledger
<1>2. Dated'
  BY DEF Dated
<1>3. Ordered' /\ Stamped'
  BY DEF Typed, Ordered, Recorded, Stamped, ledger
<1> QED
  BY <1>1, <1>2, <1>3 DEF Typed

\* One row of the past is put where another was.
LEMMA OneRow ==
    ASSUME Typed, NEW i \in Ids, NEW r \in Row \cup {NoRow}, r.created <= today,
           rows' = [rows EXCEPT ![i] = r]
    PROVE  /\ rows' \in [Ids -> Row \cup {NoRow}]
           /\ \A j \in Ids : rows'[j].created <= today
           /\ rows'[i] = r /\ \A j \in Ids \ {i} : rows'[j] = rows[j]
<1>1. rows \in [Ids -> Row \cup {NoRow}] /\ \A j \in Ids : rows[j].created <= today
  BY DEF Typed, Kinds, Dated
<1>2. rows'[i] = r /\ \A j \in Ids \ {i} : rows'[j] = rows[j]
  BY <1>1
<1>3. \A j \in Ids : rows'[j].created <= today
  BY <1>1, <1>2
<1> QED
  BY <1>1, <1>2, <1>3

LEMMA Used1 ==
    ASSUME Typed, NEW i \in Ids, Used(i)
    PROVE  lastUse' \in [Ids -> Never..MaxDay] /\ lastUse'[i] = today
           /\ \A j \in Ids \ {i} : lastUse'[j] = lastUse[j]
<1>1. lastUse \in [Ids -> Never..MaxDay] /\ today \in Never..MaxDay
  BY Numbers DEF Typed, Kinds
<1> QED
  BY <1>1 DEF Used

LEMMA CaptureTyped ==
    ASSUME Typed, NEW i \in Ids, Capture(i)
    PROVE  Typed'
<1>1. PICK d \in 1..today, im \in BOOLEAN, s \in 1..Top :
         rows' = [rows EXCEPT ![i] = [layer |-> "episodic", imagined |-> im,
                    grounded |-> FALSE, created |-> d, retrieved |-> Never,
                    retrievals |-> 0, strength |-> s]]
  BY DEF Capture
<1> DEFINE r == [layer |-> "episodic", imagined |-> im, grounded |-> FALSE, created |-> d,
                 retrieved |-> Never, retrievals |-> 0, strength |-> s]
<1>2. today \in 1..MaxDay
  BY Numbers DEF Typed, Kinds
<1>3. r \in Row /\ r.created <= today
  BY <1>2, Numbers DEF Row
<1>4. rows' = [rows EXCEPT ![i] = r]
  BY <1>1
<1> HIDE DEF r
<1>5. rows' \in [Ids -> Row \cup {NoRow}] /\ \A j \in Ids : rows'[j].created <= today
  BY <1>3, <1>4, OneRow
<1>6. UNCHANGED <<calls, today, copies, ledger, reads, lastUse, foreign, neglected, undone>>
  BY DEF Capture, history
<1> QED
  BY <1>5, <1>6, RowsTyped DEF Typed, Kinds, Dated

LEMMA ImportTyped ==
    ASSUME Typed, NEW i \in Ids, Import(i)
    PROVE  Typed'
<1>1. PICK r \in Row :
         /\ r.created <= today /\ r.retrieved <= today
         /\ rows' = [rows EXCEPT ![i] = r]
         /\ reads' = [reads EXCEPT ![i] = IF @ < r.retrievals THEN r.retrievals ELSE @]
         /\ lastUse' = [lastUse EXCEPT ![i] = r.retrieved]
         /\ foreign' = IF r.layer = "semantic" THEN foreign \cup {i} ELSE foreign
         /\ neglected' = IF r.strength = 0 THEN neglected \cup {i} ELSE neglected
  BY DEF Import
<1>2. rows' \in [Ids -> Row \cup {NoRow}] /\ \A j \in Ids : rows'[j].created <= today
  BY <1>1, OneRow
<1>3. r.retrievals \in 0..PromoteAt /\ r.retrieved \in Never..MaxDay
  BY Fields
<1>4. /\ reads' \in [Ids -> 0..PromoteAt] /\ lastUse' \in [Ids -> Never..MaxDay]
      /\ foreign' \subseteq Ids /\ neglected' \subseteq Ids
  BY <1>1, <1>3 DEF Typed, Kinds
<1>5. UNCHANGED <<calls, today, copies, ledger, undone>>
  BY DEF Import
<1> QED
  BY <1>2, <1>4, <1>5, RowsTyped DEF Typed, Kinds, Dated

LEMMA CaptureAgainTyped ==
    ASSUME Typed, NEW i \in Ids, CaptureAgain(i)
    PROVE  Typed'
<1> DEFINE r == [rows[i] EXCEPT !.strength = Stronger(@), !.retrieved = today]
<1>1. rows[i] \in Row /\ rows[i].created <= today /\ today \in Never..MaxDay
  BY RowKinds, Numbers DEF Typed, Kinds, Dated, CaptureAgain
<1>2. Stronger(rows[i].strength) \in Levels
  BY <1>1, Fields, StrongerLevel
<1>3. r \in Row /\ r.created = rows[i].created
  BY <1>1, <1>2 DEF Row
<1>4. rows' = [rows EXCEPT ![i] = r]
  BY DEF CaptureAgain
<1> HIDE DEF r
<1>5. rows' \in [Ids -> Row \cup {NoRow}] /\ \A j \in Ids : rows'[j].created <= today
  BY <1>1, <1>3, <1>4, OneRow
<1>6. UNCHANGED <<calls, today, copies, ledger, reads, foreign, neglected, undone>> /\ Used(i)
  BY DEF CaptureAgain
<1> QED
  BY <1>5, <1>6, Used1, RowsTyped DEF Typed, Kinds, Dated

LEMMA GetTyped ==
    ASSUME Typed, NEW c \in Callers, NEW i \in Ids, Get(c, i)
    PROVE  Typed'
<1> DEFINE r == [rows[i] EXCEPT !.retrievals = OneMore(@), !.retrieved = today]
<1>1. rows[i] \in Row /\ rows[i].created <= today /\ today \in Never..MaxDay
  BY RowKinds, Numbers DEF Typed, Kinds, Dated, Get
<1>2. OneMore(rows[i].retrievals) \in 0..PromoteAt
  BY <1>1, Fields, OneMoreCount
<1>3. r \in Row /\ r.created = rows[i].created
  BY <1>1, <1>2 DEF Row
<1>4. rows' = [rows EXCEPT ![i] = r]
  BY DEF Get
<1> HIDE DEF r
<1>5. rows' \in [Ids -> Row \cup {NoRow}] /\ \A j \in Ids : rows'[j].created <= today
  BY <1>1, <1>3, <1>4, OneRow
<1>6. UNCHANGED <<calls, today, ledger, foreign, neglected, undone>> /\ Used(i)
      /\ reads' = [reads EXCEPT ![i] = OneMore(@)]
      /\ copies' = [copies EXCEPT ![c] = IF "edit" \in calls THEN [of |-> i, row |-> rows[i]]
                                                             ELSE NoCopy]
  BY DEF Get
<1>7. reads' \in [Ids -> 0..PromoteAt]
  BY <1>6, OneMoreCount DEF Typed, Kinds
<1>8. \A d \in Callers : /\ copies'[d] \in [of: Ids \cup {NoId}, row: Row \cup {NoRow}]
                         /\ copies'[d].row.created <= today
                         /\ copies'[d] # NoCopy => copies'[d].of \in Ids /\ copies'[d].row \in Row
  <2> TAKE d \in Callers
  <2>1. CASE copies'[d] = copies[d]
    BY <2>1 DEF Typed, Kinds, Dated
  <2>2. CASE copies'[d] = [of |-> i, row |-> rows[i]]
    BY <1>1, <2>2
  <2>3. CASE copies'[d] = NoCopy
    BY <1>1, <2>3, Numbers DEF NoCopy, NoRow
  <2> QED
    BY <1>6, <2>1, <2>2, <2>3 DEF Typed, Kinds
<1>9. copies' \in [Callers -> [of: Ids \cup {NoId}, row: Row \cup {NoRow}]]
  BY <1>6, <1>8 DEF Typed, Kinds
<1> QED
  BY <1>5, <1>6, <1>7, <1>8, <1>9, Used1, RowsTyped DEF Typed, Kinds

\* The last_retrieved that a written copy leaves.
Kept(c) == IF copies[c].row.retrieved = Never THEN rows[copies[c].of].retrieved
                                              ELSE copies[c].row.retrieved

\* What write_curated makes of a copy: the row it puts, and where.
LEMMA EditedRow ==
    ASSUME Typed, NEW c \in Callers, Edit(c)
    PROVE  /\ copies[c].of \in Ids /\ copies[c].row \in Row
           /\ \E r \in Row :
                /\ r.created <= today /\ r.retrieved = Kept(c)
                /\ r.layer = copies[c].row.layer /\ r.retrievals = copies[c].row.retrievals
                /\ r.strength = copies[c].row.strength
                /\ rows' = [rows EXCEPT ![copies[c].of] = r]
<1> DEFINE i == copies[c].of
           copy == copies[c].row
<1>1. i \in Ids /\ copy \in Row /\ copy.created <= today
  BY DEF Typed, Dated, Edit
<1>2. rows[i].retrieved \in Never..MaxDay
  <2>1. rows[i] \in Row \cup {NoRow}
    BY <1>1 DEF Typed, Kinds
  <2> QED
    BY <2>1, Numbers DEF Row, NoRow
<1>3. Kept(c) \in Never..MaxDay
  BY <1>1, <1>2, Fields DEF Kept
<1>4. PICK im \in BOOLEAN, gr \in BOOLEAN :
         rows' = [rows EXCEPT ![i] = [copy EXCEPT !.imagined = im, !.grounded = gr,
                                                  !.retrieved = Kept(c)]]
  BY DEF Edit, Kept
<1> HIDE DEF i, copy
<1> DEFINE r == [copy EXCEPT !.imagined = im, !.grounded = gr, !.retrieved = Kept(c)]
<1>5. /\ r \in Row /\ r.created <= today
      /\ r.layer = copy.layer /\ r.retrievals = copy.retrievals
      /\ r.strength = copy.strength /\ r.retrieved = Kept(c)
  BY <1>1, <1>3 DEF Row
<1>6. rows' = [rows EXCEPT ![i] = r]
  BY <1>4
<1> HIDE DEF r
<1> QED
  BY <1>1, <1>5, <1>6 DEF i, copy

LEMMA EditTyped ==
    ASSUME Typed, NEW c \in Callers, Edit(c)
    PROVE  Typed'
<1> DEFINE i == copies[c].of
<1>1. i \in Ids /\ \E r \in Row : r.created <= today /\ rows' = [rows EXCEPT ![i] = r]
  BY EditedRow
<1>2. rows' \in [Ids -> Row \cup {NoRow}] /\ \A j \in Ids : rows'[j].created <= today
  BY <1>1, OneRow
<1>3. /\ UNCHANGED <<calls, today, ledger, reads, lastUse, foreign, neglected>>
      /\ copies' = [copies EXCEPT ![c] = NoCopy]
  BY DEF Edit
<1> HIDE DEF i
<1>4. undone' \subseteq Ids
  BY DEF Edit, Typed, Kinds, Dated
<1>5. NoCopy \in [of: Ids \cup {NoId}, row: Row \cup {NoRow}] /\ NoCopy.row.created <= today
  BY Numbers DEF NoCopy, NoRow, Typed, Kinds
<1>6. \A d \in Callers : copies'[d] = copies[d] \/ copies'[d] = NoCopy
  BY <1>3 DEF Typed, Kinds
<1>7. copies' \in [Callers -> [of: Ids \cup {NoId}, row: Row \cup {NoRow}]]
  BY <1>3, <1>5 DEF Typed, Kinds
<1>8. \A d \in Callers : /\ copies'[d].row.created <= today
                         /\ copies'[d] # NoCopy => copies'[d].of \in Ids /\ copies'[d].row \in Row
  BY <1>5, <1>6 DEF Typed, Dated
<1> QED
  BY <1>2, <1>3, <1>4, <1>7, <1>8, RowsTyped DEF Typed, Kinds

LEMMA DeleteTyped ==
    ASSUME Typed, NEW i \in Ids, Delete(i)
    PROVE  Typed'
<1>1. NoRow.created <= today /\ rows' = [rows EXCEPT ![i] = NoRow]
  BY Numbers DEF Delete, NoRow, Typed, Kinds
<1>2. rows' \in [Ids -> Row \cup {NoRow}] /\ \A j \in Ids : rows'[j].created <= today
  BY <1>1, OneRow
<1>3. /\ UNCHANGED <<calls, today, copies, ledger, reads, foreign>>
      /\ neglected' \subseteq neglected /\ undone' \subseteq undone
      /\ lastUse' = [j \in Ids |-> IF j \in {i} THEN Never ELSE lastUse[j]]
  BY DEF Delete, Forgotten
<1>4. lastUse' \in [Ids -> Never..MaxDay]
  BY <1>3, Numbers DEF Typed, Kinds
<1> QED
  BY <1>2, <1>3, <1>4, RowsTyped DEF Typed, Kinds, Dated

LEMMA NextDayTyped ==
    ASSUME Typed, NextDay
    PROVE  Typed'
<1>1. /\ today \in 1..MaxDay /\ today' = today + 1 /\ today' \in Days
      /\ UNCHANGED <<calls, rows, copies, clock, stamping, events, poll>>
      /\ UNCHANGED <<reads, lastUse, foreign, neglected, undone>>
  BY Numbers DEF Typed, Kinds, NextDay, ledger, history
<1>2. Kinds'
  BY <1>1 DEF Typed, Kinds
<1>3. \A i \in Ids : rows[i].created \in Nat
  <2> TAKE i \in Ids
  <2>1. rows[i] \in Row \cup {NoRow}
    BY DEF Typed, Kinds
  <2> QED
    BY <2>1, Numbers DEF Row, NoRow
<1>4. \A c \in Callers : copies[c].row.created \in Nat
  <2> TAKE c \in Callers
  <2>1. copies[c].row \in Row \cup {NoRow}
    BY DEF Typed, Kinds
  <2> QED
    BY <2>1, Numbers DEF Row, NoRow
<1>5. Dated'
  BY <1>1, <1>3, <1>4 DEF Typed, Dated
<1>6. Ordered' /\ Stamped'
  BY <1>1 DEF Typed, Ordered, Recorded, Stamped
<1> QED
  BY <1>2, <1>5, <1>6 DEF Typed

\* What the daily hygiene does to one memory.
LEMMA AgedRow ==
    ASSUME Typed, Hygiene, NEW i \in Ids
    PROVE  /\ ~Stored(i) => rows'[i] = NoRow
           /\ Stored(i) =>
                /\ rows'[i] = [rows[i] EXCEPT !.strength = rows'[i].strength]
                /\ rows'[i] \in Row /\ rows'[i].created = rows[i].created
                /\ rows'[i].layer = rows[i].layer /\ rows'[i].retrievals = rows[i].retrievals
                /\ rows'[i].retrieved = rows[i].retrieved
                /\ IF Recent(rows[i]) THEN rows'[i].strength = Stronger(rows[i].strength)
                   ELSE /\ rows'[i].strength <= rows[i].strength
                        /\ LastAccess(rows[i]) = today => rows'[i].strength = rows[i].strength
                /\ rows'[i].strength < rows[i].strength /\ lastUse[i] + 1 < today
                     => i \in neglected'
<1>1. PICK to \in [{j \in Ids : Stored(j)} -> Levels] :
         /\ \A j \in DOMAIN to :
              IF Recent(rows[j]) THEN to[j] = Stronger(rows[j].strength)
              ELSE /\ to[j] <= rows[j].strength
                   /\ LastAccess(rows[j]) = today => to[j] = rows[j].strength
         /\ rows' = [j \in Ids |-> IF Stored(j) THEN [rows[j] EXCEPT !.strength = to[j]]
                                               ELSE NoRow]
         /\ neglected' = neglected \cup {j \in DOMAIN to : to[j] < rows[j].strength
                                           /\ lastUse[j] + 1 < today}
  BY DEF Hygiene
<1>2. CASE ~Stored(i)
  BY <1>1, <1>2
<1>3. CASE Stored(i)
  <2>1. rows[i] \in Row /\ to[i] \in Levels /\ i \in DOMAIN to
    BY <1>1, <1>3, RowKinds DEF Typed
  <2>2. rows'[i] = [rows[i] EXCEPT !.strength = to[i]]
    BY <1>1, <1>3
  <2>3. /\ rows'[i] \in Row /\ rows'[i].created = rows[i].created
        /\ rows'[i].layer = rows[i].layer /\ rows'[i].retrievals = rows[i].retrievals
        /\ rows'[i].retrieved = rows[i].retrieved /\ rows'[i].strength = to[i]
    BY <2>1, <2>2 DEF Row
  <2>4. IF Recent(rows[i]) THEN to[i] = Stronger(rows[i].strength)
        ELSE /\ to[i] <= rows[i].strength
             /\ LastAccess(rows[i]) = today => to[i] = rows[i].strength
    BY <1>1, <2>1
  <2>5. to[i] < rows[i].strength /\ lastUse[i] + 1 < today => i \in neglected'
    BY <1>1, <2>1
  <2> QED
    BY <1>3, <2>2, <2>3, <2>4, <2>5
<1> QED
  BY <1>2, <1>3

LEMMA HygieneTyped ==
    ASSUME Typed, Hygiene
    PROVE  Typed'
<1>1. /\ UNCHANGED <<calls, today, copies, ledger, reads, lastUse, foreign, undone>>
      /\ neglected' \subseteq Ids
  BY DEF Hygiene, Typed, Kinds
<1>2. \A i \in Ids : rows'[i] \in Row \cup {NoRow} /\ rows'[i].created <= today
  <2> TAKE i \in Ids
  <2>1. CASE Stored(i)
    BY <2>1, AgedRow DEF Typed, Dated
  <2>2. CASE ~Stored(i)
    <3>1. rows'[i] = NoRow
      BY <2>2, AgedRow
    <3>2. NoRow.created <= today
      BY Numbers DEF NoRow, Typed, Kinds
    <3> QED
      BY <3>1, <3>2
  <2> QED
    BY <2>1, <2>2
<1>3. rows' \in [Ids -> Row \cup {NoRow}]
  <2>1. rows' = [i \in Ids |-> rows'[i]]
    BY DEF Hygiene
  <2> QED
    BY <1>2, <2>1
<1> QED
  BY <1>1, <1>2, <1>3, RowsTyped DEF Typed, Kinds, Dated

\* What the weekly consolidation does to one memory.
LEMMA SettledRow ==
    ASSUME Typed, Consolidate, NEW i \in Ids
    PROVE  /\ rows'[i] \in Row \cup {NoRow} /\ rows'[i].created <= today
           /\ Faded(rows[i]) => rows'[i] = NoRow /\ lastUse'[i] = Never
           /\ ~Faded(rows[i]) =>
                /\ rows'[i].created = rows[i].created /\ rows'[i].strength = rows[i].strength
                /\ rows'[i].retrieved = rows[i].retrieved
                /\ rows'[i].retrievals = rows[i].retrievals
                /\ \/ rows'[i].layer = rows[i].layer
                   \/ rows'[i].layer = "semantic" /\ rows[i].retrievals >= PromoteAt
                /\ lastUse'[i] = lastUse[i]
                /\ i \in neglected \cup undone => i \in neglected' \cup undone'
<1>1. /\ rows' = [j \in Ids |-> IF Faded(rows[j]) THEN NoRow ELSE Promoted(rows[j])]
      /\ Forgotten({j \in Ids : Faded(rows[j])})
  BY DEF Consolidate
<1>2. rows[i] \in Row \cup {NoRow} /\ rows[i].created <= today
  BY DEF Typed, Kinds, Dated
<1>3. CASE Faded(rows[i])
  <2>1. NoRow.created <= today
    BY Numbers DEF NoRow, Typed, Kinds
  <2> QED
    BY <1>1, <1>3, <2>1 DEF Forgotten
<1>4. CASE ~Faded(rows[i])
  <2>1. rows'[i] = Promoted(rows[i])
    BY <1>1, <1>4
  <2>2. CASE rows[i].layer = "episodic" /\ rows[i].retrievals >= PromoteAt
    <3>1. rows[i] \in Row
      BY <1>2, <2>2 DEF NoRow
    <3>2. rows'[i] = [rows[i] EXCEPT !.layer = "semantic"]
      BY <2>1, <2>2 DEF Promoted
    <3>3. /\ rows'[i] \in Row /\ rows'[i].created = rows[i].created
          /\ rows'[i].strength = rows[i].strength /\ rows'[i].retrieved = rows[i].retrieved
          /\ rows'[i].retrievals = rows[i].retrievals /\ rows'[i].layer = "semantic"
      BY <3>1, <3>2 DEF Row
    <3> QED
      BY <1>1, <1>2, <1>4, <2>2, <3>3 DEF Forgotten
  <2>3. CASE ~(rows[i].layer = "episodic" /\ rows[i].retrievals >= PromoteAt)
    <3>1. rows'[i] = rows[i]
      BY <2>1, <2>3 DEF Promoted
    <3> QED
      BY <1>1, <1>2, <1>4, <3>1 DEF Forgotten
  <2> QED
    BY <2>2, <2>3
<1> QED
  BY <1>3, <1>4

LEMMA ConsolidateTyped ==
    ASSUME Typed, Consolidate
    PROVE  Typed'
<1>1. /\ UNCHANGED <<calls, today, copies, ledger, reads, foreign>>
      /\ neglected' \subseteq neglected /\ undone' \subseteq undone
      /\ lastUse' = [j \in Ids |-> IF j \in {k \in Ids : Faded(rows[k])} THEN Never ELSE lastUse[j]]
      /\ rows' = [i \in Ids |-> rows'[i]]
  BY DEF Consolidate, Forgotten
<1>2. rows' \in [Ids -> Row \cup {NoRow}] /\ \A i \in Ids : rows'[i].created <= today
  BY <1>1, SettledRow
<1>3. lastUse' \in [Ids -> Never..MaxDay]
  BY <1>1, Numbers DEF Typed, Kinds
<1> QED
  BY <1>1, <1>2, <1>3, RowsTyped DEF Typed, Kinds, Dated

LEMMA StampTyped ==
    ASSUME Typed, NEW w \in Conns, Stamp(w)
    PROVE  Typed'
<1>1. PICK n \in {1, 2} : stamping' = [stamping EXCEPT ![w] = [at |-> clock', count |-> n]]
  BY DEF Stamp
<1>2. clock' \in 0..MaxEvents
  BY Numbers DEF Stamp, Typed, Kinds
<1>3. stamping' \in [Conns -> [at: 0..MaxEvents, count: 0..2]]
  BY <1>1, <1>2 DEF Typed, Kinds
<1>4. /\ UNCHANGED <<calls, today, rows, copies, events, poll>>
      /\ UNCHANGED <<reads, lastUse, foreign, neglected, undone>>
  BY DEF Stamp, history
<1>5. Kinds'
  BY <1>2, <1>3, <1>4 DEF Typed, Kinds
<1>6. Dated' /\ Ordered'
  BY <1>4 DEF Typed, Dated, Ordered, Recorded
<1>7. clock \in Nat /\ clock' = clock + 1
  BY Numbers DEF Stamp, Typed, Kinds
<1>8. Stamped'
  BY <1>1, <1>7 DEF Stamped, Typed, Kinds
<1> QED
  BY <1>5, <1>6, <1>8 DEF Typed

LEMMA GiveUpTyped ==
    ASSUME Typed, NEW w \in Conns, GiveUp(w)
    PROVE  Typed'
<1>1. stamping' \in [Conns -> [at: 0..MaxEvents, count: 0..2]]
  BY Numbers DEF GiveUp, Typed, Kinds, NotStamping
<1>2. /\ UNCHANGED <<calls, today, rows, copies, clock, events, poll>>
      /\ UNCHANGED <<reads, lastUse, foreign, neglected, undone>>
  BY DEF GiveUp, history
<1>3. Kinds'
  BY <1>1, <1>2 DEF Typed, Kinds
<1>4. Dated' /\ Ordered' /\ Stamped'
  BY <1>2 DEF Typed, Kinds, Dated, Ordered, Recorded, Stamped, GiveUp
<1> QED
  BY <1>3, <1>4 DEF Typed

\* An access puts its events behind those recorded, all with its timestamp.
LEMMA Inserting ==
    ASSUME Typed, NEW w \in Conns, Insert(w)
    PROVE  /\ Recorded <= Recorded' /\ Recorded' \in Nat /\ Recorded' <= MaxEvents
           /\ DOMAIN events' = 1..Recorded'
           /\ \A e \in 1..Recorded : events'[e] = events[e]
           /\ \A e \in (Recorded + 1)..Recorded' : events'[e] = stamping[w].at
<1> DEFINE n == stamping[w].count
<1>1. n \in Nat
  BY DEF Typed, Kinds
<1>2. /\ Recorded \in Nat /\ Recorded + n <= MaxEvents /\ DOMAIN events = 1..Recorded
      /\ events' = [e \in 1..(Recorded + n) |-> IF e \in DOMAIN events THEN events[e]
                                                                       ELSE stamping[w].at]
  BY DEF Typed, Ordered, Insert, Append
<1> HIDE DEF n
<1>3. DOMAIN events' = 1..(Recorded + n)
  BY <1>2
<1>4. Cardinality(1..(Recorded + n)) = Recorded + n
  BY <1>1, <1>2, FS_Interval
<1>5. Recorded' = Recorded + n
  BY <1>3, <1>4 DEF Recorded
<1> QED
  BY <1>1, <1>2, <1>3, <1>5

LEMMA InsertTyped ==
    ASSUME Typed, NEW w \in Conns, Insert(w)
    PROVE  Typed'
<1>1. /\ UNCHANGED <<calls, today, rows, copies, clock, poll>>
      /\ UNCHANGED <<reads, lastUse, foreign, neglected, undone>>
  BY DEF Insert, history
<1>2. stamping' \in [Conns -> [at: 0..MaxEvents, count: 0..2]]
  BY Numbers DEF Insert, Typed, Kinds, NotStamping
<1>3. stamping[w].at \in 1..MaxEvents
  BY Numbers DEF Insert, Stamped, Typed, Kinds
<1>4. Stamped'
  BY <1>1 DEF Insert, Stamped, Typed, Kinds
<1>5. \A e \in 1..Recorded' : events'[e] \in 1..MaxEvents
  <2> TAKE e \in 1..Recorded'
  <2>1. CASE e \in 1..Recorded
    BY <2>1, Inserting DEF Typed, Ordered
  <2>2. CASE e \notin 1..Recorded
    <3>1. e \in (Recorded + 1)..Recorded'
      BY <2>2, Inserting DEF Typed, Ordered
    <3> QED
      BY <1>3, <3>1, Inserting
  <2> QED
    BY <2>1, <2>2
<1>6. Ordered'
  BY <1>5, Inserting DEF Ordered
<1>7. Kinds' /\ Dated'
  BY <1>1, <1>2 DEF Typed, Kinds, Dated
<1> QED
  BY <1>4, <1>6, <1>7 DEF Typed

LEMMA PollTyped ==
    ASSUME Typed, NEW w \in Conns, Poll(w)
    PROVE  Typed'
<1>1. /\ UNCHANGED <<calls, today, rows, copies, clock, stamping, events>>
      /\ UNCHANGED <<reads, lastUse, foreign, neglected, undone>>
  BY DEF Poll, history
<1>2. DOMAIN events \subseteq 1..MaxEvents /\ \A e \in DOMAIN events : events[e] \in 0..MaxEvents
  BY Numbers DEF Typed, Ordered
<1>3. poll' \in [cursor: 0..MaxEvents, seen: SUBSET (1..MaxEvents), full: BOOLEAN]
  <2>1. \/ poll' = poll
        \/ \E got \in SUBSET DOMAIN events, last \in DOMAIN events :
             poll' = [cursor |-> events[last], seen |-> poll.seen \cup got,
                      full |-> poll.full \/ Cardinality(got) = PollLimit]
    BY DEF Poll
  <2>2. CASE poll' = poll
    BY <2>2 DEF Typed, Kinds
  <2>3. ASSUME NEW got \in SUBSET DOMAIN events, NEW last \in DOMAIN events,
               poll' = [cursor |-> events[last], seen |-> poll.seen \cup got,
                        full |-> poll.full \/ Cardinality(got) = PollLimit]
        PROVE  poll' \in [cursor: 0..MaxEvents, seen: SUBSET (1..MaxEvents), full: BOOLEAN]
    <3>1. poll.seen \cup got \subseteq 1..MaxEvents
      BY <1>2 DEF Typed, Kinds
    <3>2. (poll.full \/ Cardinality(got) = PollLimit) \in BOOLEAN
      OBVIOUS
    <3> QED
      BY <1>2, <2>3, <3>1, <3>2
  <2> QED
    BY <2>1, <2>2, <2>3
<1>4. Kinds'
  BY <1>1, <1>3 DEF Typed, Kinds
<1>5. Dated' /\ Ordered' /\ Stamped'
  BY <1>1 DEF Typed, Dated, Ordered, Recorded, Stamped
<1> QED
  BY <1>4, <1>5 DEF Typed

LEMMA StepTyped == Typed /\ [Next]_vars => Typed'
<1> SUFFICES ASSUME Typed, [Next]_vars PROVE Typed'
  OBVIOUS
<1>1. ASSUME NEW i \in Ids, Life(i) PROVE Typed'
  BY <1>1, CaptureTyped, ImportTyped, CaptureAgainTyped, DeleteTyped, GetTyped DEF Life
<1>2. ASSUME NEW c \in Callers, Edit(c) PROVE Typed'
  BY <1>2, EditTyped
<1>3. CASE Upkeep
  BY <1>3, NextDayTyped, HygieneTyped, ConsolidateTyped DEF Upkeep
<1>4. ASSUME NEW w \in Conns, Ledger(w) PROVE Typed'
  BY <1>4, StampTyped, InsertTyped, GiveUpTyped, PollTyped DEF Ledger
<1>5. CASE UNCHANGED vars
  BY <1>5 DEF vars, ledger, history, Typed, Kinds, Dated, Stamped, Ordered, Recorded
<1> QED
  BY <1>1, <1>2, <1>3, <1>4, <1>5 DEF Next

\* Rows, copies, ledger and cursor hold values of their kinds, for any
\* memories, callers, workloads and limits.
THEOREM TypeCorrect == Spec => []TypeOK
<1>1. ASSUME Typed PROVE TypeOK
  <2>1. DOMAIN events = 1..Cardinality(DOMAIN events)
    BY <1>1 DEF Typed, Ordered, Recorded
  <2>2. \A e \in DOMAIN events : events[e] \in 1..MaxEvents
    BY <1>1, Numbers DEF Typed, Ordered
  <2> QED
    BY <1>1, <2>1, <2>2 DEF Typed, Kinds, TypeOK
<1> QED
  BY <1>1, InitTyped, StepTyped, PTL DEF Spec

-----------------------------------------------------------------------------
(***************************************************************************)
(* Retrievals                                                              *)
(***************************************************************************)

\* What a row or a copy of memory i claims was read, here or elsewhere.
Claims(r, i) ==
    /\ r.retrievals <= reads[i]
    /\ r.layer = "semantic" => reads[i] = PromoteAt \/ i \in foreign

Backed ==
    /\ \A i \in Ids : Claims(rows[i], i)
    /\ \A c \in Callers : copies[c] # NoCopy => Claims(copies[c].row, copies[c].of)

LEMMA InitBacked == Init => Backed
BY DEF Init, Backed, Claims, NoRow

LEMMA CountsTyped ==
    ASSUME Typed
    PROVE  /\ \A i \in Ids : rows[i].retrievals \in 0..PromoteAt /\ reads[i] \in 0..PromoteAt
           /\ \A c \in Callers : copies[c].row.retrievals \in 0..PromoteAt
<1>1. ASSUME NEW r \in Row \cup {NoRow} PROVE r.retrievals \in 0..PromoteAt
  BY Numbers DEF Row, NoRow
<1> QED
  BY <1>1 DEF Typed, Kinds

\* A counted read never falsifies a claim, for no count falls.
LEMMA StepBacked == Typed /\ Backed /\ [Next]_vars => Backed'
<1> SUFFICES ASSUME Typed, Backed, [Next]_vars PROVE Backed'
  OBVIOUS
<1>0. rows \in [Ids -> Row \cup {NoRow}] /\ reads \in [Ids -> 0..PromoteAt]
      /\ copies \in [Callers -> [of: Ids \cup {NoId}, row: Row \cup {NoRow}]]
  BY DEF Typed, Kinds
<1>1. ASSUME NEW i \in Ids, Capture(i) PROVE Backed'
  <2>1. PICK r \in Row : rows' = [rows EXCEPT ![i] = r] /\ r.retrievals = 0 /\ r.layer = "episodic"
    <3>1. PICK d \in 1..today, im \in BOOLEAN, s \in 1..Top :
             rows' = [rows EXCEPT ![i] = [layer |-> "episodic", imagined |-> im,
                        grounded |-> FALSE, created |-> d, retrieved |-> Never,
                        retrievals |-> 0, strength |-> s]]
      BY <1>1 DEF Capture
    <3>2. [layer |-> "episodic", imagined |-> im, grounded |-> FALSE, created |-> d,
           retrieved |-> Never, retrievals |-> 0, strength |-> s] \in Row
      BY Numbers DEF Row, Typed, Kinds
    <3> QED
      BY <3>1, <3>2
  <2>2. UNCHANGED <<copies, reads, foreign>>
    BY <1>1 DEF Capture, history
  <2>3. ASSUME NEW j \in Ids PROVE Claims(rows[j], j)'
    <3>1. CASE j = i
      BY <1>0, <2>1, <2>2, <3>1, CountsTyped, Numbers DEF Claims
    <3>2. CASE j # i
      BY <1>0, <2>1, <2>2, <3>2 DEF Backed, Claims
    <3> QED
      BY <3>1, <3>2
  <2> QED
    BY <2>2, <2>3 DEF Backed, Claims
<1>2. ASSUME NEW i \in Ids, CaptureAgain(i) PROVE Backed'
  <2>1. UNCHANGED <<copies, reads, foreign>>
    BY <1>2 DEF CaptureAgain
  <2>2. rows[i] \in Row
    BY <1>2, RowKinds DEF Typed, CaptureAgain
  <2>3. rows'[i] = [rows[i] EXCEPT !.strength = Stronger(@), !.retrieved = today]
    BY <1>0, <1>2 DEF CaptureAgain
  <2>4. rows'[i].retrievals = rows[i].retrievals /\ rows'[i].layer = rows[i].layer
    BY <2>2, <2>3 DEF Row
  <2>5. \A j \in Ids \ {i} : rows'[j] = rows[j]
    BY <1>0, <1>2 DEF CaptureAgain
  <2> QED
    BY <2>1, <2>4, <2>5 DEF Backed, Claims
<1>3. ASSUME NEW i \in Ids, NEW c \in Callers, Get(c, i) PROVE Backed'
  <2>1. /\ reads' = [reads EXCEPT ![i] = OneMore(@)]
        /\ rows' = [rows EXCEPT ![i].retrievals = OneMore(@), ![i].retrieved = today]
        /\ copies' = [copies EXCEPT ![c] = IF "edit" \in calls THEN [of |-> i, row |-> rows[i]]
                                                               ELSE NoCopy]
        /\ foreign' = foreign
    BY <1>3 DEF Get
  <2>2. rows[i] \in Row
    BY <1>3, RowKinds DEF Typed, Get
  <2>3. /\ rows'[i].retrievals = OneMore(rows[i].retrievals) /\ rows'[i].layer = rows[i].layer
        /\ \A j \in Ids \ {i} : rows'[j] = rows[j]
    BY <1>0, <2>1, <2>2 DEF Row
  <2>4. ASSUME NEW j \in Ids
        PROVE  reads'[j] \in 0..PromoteAt /\ reads[j] <= reads'[j]
    BY <1>0, <2>1, OneMoreCount
  <2>5. OneMore(rows[i].retrievals) <= reads'[i]
    <3>1. rows[i].retrievals <= reads[i] /\ reads'[i] = OneMore(reads[i])
      BY <1>0, <2>1 DEF Backed, Claims
    <3> QED
      BY <3>1, CountsTyped, Numbers DEF OneMore
  <2>6. ASSUME NEW j \in Ids, NEW r \in Row \cup {NoRow}, Claims(r, j)
        PROVE  /\ r.retrievals <= reads'[j]
               /\ r.layer = "semantic" => reads'[j] = PromoteAt \/ j \in foreign'
    <3>1. r.retrievals \in Nat
      BY Numbers DEF Row, NoRow
    <3> QED
      BY <2>1, <2>4, <2>6, <3>1, CountsTyped, Numbers DEF Claims
  <2>7. ASSUME NEW j \in Ids PROVE Claims(rows[j], j)'
    <3>1. CASE j = i
      BY <2>3, <2>5, <2>6, <1>0, <3>1 DEF Backed, Claims
    <3>2. CASE j # i
      BY <2>3, <2>6, <1>0, <3>2 DEF Backed, Claims
    <3> QED
      BY <3>1, <3>2
  <2>8. ASSUME NEW d \in Callers, copies'[d] # NoCopy PROVE Claims(copies[d].row, copies[d].of)'
    <3>1. CASE copies'[d] = copies[d]
      <4>1. copies[d].of \in Ids /\ copies[d].row \in Row /\ Claims(copies[d].row, copies[d].of)
        BY <2>8, <3>1 DEF Typed, Dated, Backed
      <4> QED
        BY <2>6, <3>1, <4>1 DEF Claims
    <3>2. CASE copies'[d] = [of |-> i, row |-> rows[i]]
      BY <1>0, <2>6, <3>2 DEF Backed, Claims
    <3> QED
      BY <1>0, <2>1, <2>8, <3>1, <3>2
  <2> QED
    BY <2>7, <2>8 DEF Backed
<1>4. ASSUME NEW c \in Callers, Edit(c) PROVE Backed'
  <2>1. PICK r \in Row : /\ rows' = [rows EXCEPT ![copies[c].of] = r]
                         /\ r.retrievals = copies[c].row.retrievals
                         /\ r.layer = copies[c].row.layer
    BY <1>4, EditedRow
  <2>2. copies[c].of \in Ids /\ Claims(copies[c].row, copies[c].of)
    BY <1>4 DEF Edit, Backed, Typed, Dated
  <2>3. UNCHANGED <<reads, foreign>> /\ \A d \in Callers : copies'[d] = copies[d] \/ copies'[d] = NoCopy
    BY <1>0, <1>4 DEF Edit
  <2>4. ASSUME NEW j \in Ids PROVE Claims(rows[j], j)'
    BY <1>0, <2>1, <2>2, <2>3 DEF Backed, Claims
  <2> QED
    BY <2>3, <2>4 DEF Backed, Claims
<1>5. ASSUME NEW i \in Ids, Delete(i) PROVE Backed'
  <2>1. UNCHANGED <<copies, reads, foreign>> /\ rows' = [rows EXCEPT ![i] = NoRow]
    BY <1>5 DEF Delete
  <2>2. ASSUME NEW j \in Ids PROVE Claims(rows[j], j)'
    <3>1. CASE j = i
      <4>1. rows'[j] = NoRow /\ reads'[j] \in Nat
        BY <1>0, <2>1, <3>1, Numbers
      <4> QED
        BY <4>1 DEF Claims, NoRow
    <3>2. CASE j # i
      BY <1>0, <2>1, <3>2 DEF Backed, Claims
    <3> QED
      BY <3>1, <3>2
  <2> QED
    BY <2>1, <2>2 DEF Backed, Claims
<1>6. CASE Hygiene
  <2>1. UNCHANGED <<copies, reads, foreign>>
    BY <1>6 DEF Hygiene
  <2>2. ASSUME NEW j \in Ids PROVE Claims(rows[j], j)'
    <3>1. CASE Stored(j)
      BY <1>6, <2>1, <3>1, AgedRow DEF Backed, Claims
    <3>2. CASE ~Stored(j)
      <4>1. rows'[j] = NoRow
        BY <1>6, <3>2, AgedRow
      <4>2. reads'[j] \in Nat
        BY <1>0, <2>1, Numbers
      <4> QED
        BY <4>1, <4>2 DEF Claims, NoRow
    <3> QED
      BY <3>1, <3>2
  <2> QED
    BY <2>1, <2>2 DEF Backed, Claims
<1>7. CASE Consolidate
  <2>1. UNCHANGED <<copies, reads, foreign>>
    BY <1>7 DEF Consolidate
  <2>2. ASSUME NEW j \in Ids PROVE Claims(rows[j], j)'
    <3>1. CASE Faded(rows[j])
      <4>1. rows'[j] = NoRow
        BY <1>7, <3>1, SettledRow
      <4>2. reads'[j] \in Nat
        BY <1>0, <2>1, Numbers
      <4> QED
        BY <4>1, <4>2 DEF Claims, NoRow
    <3>2. CASE ~Faded(rows[j])
      <4>1. rows'[j].retrievals = rows[j].retrievals
            /\ (rows'[j].layer = rows[j].layer \/ rows[j].retrievals >= PromoteAt)
        BY <1>7, <3>2, SettledRow
      <4> QED
        BY <2>1, <4>1, CountsTyped, Numbers DEF Backed, Claims
    <3> QED
      BY <3>1, <3>2
  <2> QED
    BY <2>1, <2>2 DEF Backed, Claims
<1>8. ASSUME NEW i \in Ids, Import(i) PROVE Backed'
  <2>1. PICK r \in Row :
           /\ rows' = [rows EXCEPT ![i] = r]
           /\ reads' = [reads EXCEPT ![i] = IF @ < r.retrievals THEN r.retrievals ELSE @]
           /\ foreign' = IF r.layer = "semantic" THEN foreign \cup {i} ELSE foreign
    BY <1>8 DEF Import
  <2>2. copies' = copies /\ \A j \in foreign : j \in foreign'
    BY <1>8, <2>1 DEF Import
  <2>3. r.retrievals \in 0..PromoteAt
    BY Fields
  <2>4. \A j \in Ids : reads'[j] \in 0..PromoteAt /\ reads[j] <= reads'[j]
    BY <1>0, <2>1, <2>3, Numbers
  <2>5. r.retrievals <= reads'[i]
    BY <1>0, <2>1, <2>3, Numbers
  <2>6. ASSUME NEW j \in Ids, NEW q \in Row \cup {NoRow}, Claims(q, j)
        PROVE  /\ q.retrievals <= reads'[j]
               /\ q.layer = "semantic" => reads'[j] = PromoteAt \/ j \in foreign'
    <3>1. q.retrievals \in Nat
      BY Numbers DEF Row, NoRow
    <3> QED
      BY <2>2, <2>4, <2>6, <3>1, CountsTyped, Numbers DEF Claims
  <2>7. ASSUME NEW j \in Ids PROVE Claims(rows[j], j)'
    <3>1. CASE j = i
      BY <1>0, <2>1, <2>5, <3>1 DEF Claims
    <3>2. CASE j # i
      BY <1>0, <2>1, <2>6, <3>2 DEF Backed, Claims
    <3> QED
      BY <3>1, <3>2
  <2>8. ASSUME NEW d \in Callers, copies[d] # NoCopy PROVE Claims(copies[d].row, copies[d].of)'
    <3>1. copies[d].of \in Ids /\ copies[d].row \in Row /\ Claims(copies[d].row, copies[d].of)
      BY <2>8 DEF Typed, Dated, Backed
    <3> QED
      BY <2>2, <2>6, <3>1 DEF Claims
  <2> QED
    BY <2>2, <2>7, <2>8 DEF Backed
<1>9. CASE NextDay \/ (\E w \in Conns : Ledger(w)) \/ UNCHANGED vars
  <2>1. UNCHANGED <<rows, copies, reads, foreign>>
    BY <1>9 DEF NextDay, Ledger, Stamp, Insert, GiveUp, Poll, vars, history
  <2> QED
    BY <2>1 DEF Backed, Claims
<1> QED
  BY <1>1, <1>2, <1>3, <1>4, <1>5, <1>6, <1>7, <1>8, <1>9 DEF Next, Life, Upkeep

\* No memory claims more retrievals than it had, and none is promoted here on
\* fewer than PromoteAt, however old the copies that are written back.
THEOREM Retrievals == Spec => []RetrievalsBacked
<1>1. Backed => RetrievalsBacked
  BY DEF Backed, Claims, RetrievalsBacked
<1> QED
  BY <1>1, InitTyped, StepTyped, InitBacked, StepBacked, PTL DEF Spec

-----------------------------------------------------------------------------
(***************************************************************************)
(* Pruning                                                                 *)
(***************************************************************************)

\* Unless an edit undid it, a row knows of the last use of its memory; and a
\* row as weak as what consolidation prunes has got there by neglect.
Earns(i) ==
    /\ ~Stored(i) => lastUse[i] = Never
    /\ i \notin undone => lastUse[i] <= rows[i].retrieved
    /\ Stored(i) /\ rows[i].strength = 0 => i \in neglected \cup undone

Earned == \A i \in Ids : Earns(i)

LEMMA InitEarned == Init => Earned
BY Numbers DEF Init, Earned, Earns, Stored, NoRow

\* A memory whose row and history a step leaves alone.
LEMMA EarnsStill ==
    ASSUME NEW i \in Ids, Earns(i), rows'[i] = rows[i], lastUse'[i] = lastUse[i],
           i \in neglected => i \in neglected', i \in undone <=> i \in undone'
    PROVE  Earns(i)'
BY DEF Earns, Stored

\* A memory that is gone, and forgotten.
LEMMA EarnsGone ==
    ASSUME NEW i \in Ids, rows'[i] = NoRow, lastUse'[i] = Never
    PROVE  Earns(i)'
BY Numbers DEF Earns, Stored, NoRow

LEMMA CaptureEarned ==
    ASSUME Typed, Earned, NEW i \in Ids, Capture(i)
    PROVE  Earned'
<1>0. rows \in [Ids -> Row \cup {NoRow}]
  BY DEF Typed, Kinds
<1>1. UNCHANGED <<lastUse, neglected, undone>> /\ ~Stored(i)
  BY DEF Capture, history
<1>2. PICK d \in 1..today, im \in BOOLEAN, s \in 1..Top :
         rows' = [rows EXCEPT ![i] = [layer |-> "episodic", imagined |-> im,
                    grounded |-> FALSE, created |-> d, retrieved |-> Never,
                    retrievals |-> 0, strength |-> s]]
  BY DEF Capture
<1>3. rows'[i].strength # 0 /\ rows'[i].retrieved = Never /\ rows'[i].created # 0
  BY <1>0, <1>2, Numbers DEF Typed, Kinds
<1>4. Earns(i)'
  BY <1>1, <1>3, Numbers DEF Earned, Earns, Stored
<1>5. ASSUME NEW j \in Ids \ {i} PROVE Earns(j)'
  BY <1>0, <1>1, <1>2, EarnsStill DEF Earned
<1> QED
  BY <1>4, <1>5 DEF Earned

\* A memory that came from elsewhere brings its last use, or its neglect.
LEMMA ImportEarned ==
    ASSUME Typed, Earned, NEW i \in Ids, Import(i)
    PROVE  Earned'
<1>1. PICK r \in Row :
         /\ rows' = [rows EXCEPT ![i] = r]
         /\ lastUse' = [lastUse EXCEPT ![i] = r.retrieved]
         /\ neglected' = IF r.strength = 0 THEN neglected \cup {i} ELSE neglected
  BY DEF Import
<1>2. undone' = undone
  BY DEF Import
<1>3. rows'[i] = r /\ \A j \in Ids \ {i} : rows'[j] = rows[j]
  BY <1>1 DEF Typed, Kinds
<1>4. lastUse'[i] = r.retrieved /\ \A j \in Ids \ {i} : lastUse'[j] = lastUse[j]
  BY <1>1 DEF Typed, Kinds
<1>5. Earns(i)'
  BY <1>1, <1>3, <1>4, Fields DEF Earns, Stored
<1>6. ASSUME NEW j \in Ids \ {i} PROVE Earns(j)'
  BY <1>1, <1>2, <1>3, <1>4, EarnsStill DEF Earned
<1> QED
  BY <1>5, <1>6 DEF Earned

\* A use of a memory: its row and its history learn of it on the same day.
LEMMA UseEarned ==
    ASSUME Typed, Earned, NEW i \in Ids, CaptureAgain(i) \/ \E c \in Callers : Get(c, i)
    PROVE  Earned'
<1>0. rows \in [Ids -> Row \cup {NoRow}] /\ today \in Nat
  BY Numbers DEF Typed, Kinds
<1>1. Stored(i) /\ Used(i) /\ UNCHANGED <<neglected, undone>>
  BY DEF CaptureAgain, Get
<1>2. rows[i] \in Row
  BY <1>1, RowKinds DEF Typed
<1>3. /\ rows'[i].retrieved = today /\ rows'[i].created = rows[i].created
      /\ rows'[i].strength = rows[i].strength \/ rows'[i].strength # 0
      /\ \A j \in Ids \ {i} : rows'[j] = rows[j]
  <2>1. CASE CaptureAgain(i)
    <3>1. rows'[i] = [rows[i] EXCEPT !.strength = Stronger(@), !.retrieved = today]
          /\ \A j \in Ids \ {i} : rows'[j] = rows[j]
      BY <1>0, <2>1 DEF CaptureAgain
    <3>2. Stronger(rows[i].strength) # 0
      BY <1>2, Fields, StrongerLevel
    <3> QED
      BY <1>2, <3>1, <3>2 DEF Row
  <2>2. CASE \E c \in Callers : Get(c, i)
    <3>1. rows'[i] = [rows[i] EXCEPT !.retrievals = OneMore(@), !.retrieved = today]
          /\ \A j \in Ids \ {i} : rows'[j] = rows[j]
      BY <1>0, <2>2 DEF Get
    <3> QED
      BY <1>2, <3>1 DEF Row
  <2> QED
    BY <2>1, <2>2
<1>4. lastUse'[i] = today /\ \A j \in Ids \ {i} : lastUse'[j] = lastUse[j]
  BY <1>1, Used1
<1>5. Earns(i)'
  BY <1>0, <1>1, <1>3, <1>4 DEF Earned, Earns, Stored
<1>6. ASSUME NEW j \in Ids \ {i} PROVE Earns(j)'
  BY <1>1, <1>3, <1>4, EarnsStill DEF Earned
<1> QED
  BY <1>5, <1>6 DEF Earned

\* A copy that takes less than the row had is undoing.
LEMMA EditEarned ==
    ASSUME Typed, Earned, NEW c \in Callers, Edit(c)
    PROVE  Earned'
<1>0. PICK i \in Ids : i = copies[c].of
  BY EditedRow
<1>1. rows \in [Ids -> Row \cup {NoRow}]
  BY DEF Typed, Kinds
<1>2. PICK r \in Row : /\ r.retrieved = Kept(c) /\ r.strength = copies[c].row.strength
                       /\ rows' = [rows EXCEPT ![i] = r]
  BY <1>0, EditedRow
<1>3. /\ UNCHANGED <<lastUse, neglected>>
      /\ undone' = IF ~Stored(i) \/ Kept(c) < rows[i].retrieved
                      \/ copies[c].row.strength < rows[i].strength
                   THEN undone \cup {i} ELSE undone
  BY <1>0 DEF Edit, Kept
<1>4. rows'[i] = r /\ r.created # 0 /\ r.strength \in Nat /\ r.retrieved \in Nat
  BY <1>1, <1>2, Fields
<1>5. ASSUME i \in undone' PROVE Earns(i)'
  BY <1>4, <1>5 DEF Earns, Stored
<1>6. ASSUME i \notin undone' PROVE Earns(i)'
  <2>1. Stored(i) /\ i \notin undone /\ ~(r.retrieved < rows[i].retrieved)
        /\ ~(r.strength < rows[i].strength)
    BY <1>2, <1>3, <1>6
  <2>2. rows[i] \in Row
    BY <1>1, <2>1, RowKinds DEF Typed
  <2>3. rows[i].strength \in Nat /\ rows[i].retrieved \in Nat
    BY <2>2, Fields
  <2>4. lastUse[i] \in Nat
    BY <1>1, Numbers DEF Typed, Kinds
  <2>5. Earns(i)
    BY <1>1 DEF Earned
  <2>6. lastUse[i] <= r.retrieved
    BY <1>4, <2>1, <2>3, <2>4, <2>5 DEF Earns
  <2>7. r.strength = 0 => i \in neglected \cup undone
    BY <1>4, <2>1, <2>3, <2>5 DEF Earns
  <2> QED
    BY <1>3, <1>4, <1>6, <2>1, <2>6, <2>7 DEF Earns, Stored
<1>7. ASSUME NEW j \in Ids \ {i} PROVE Earns(j)'
  <2>1. rows'[j] = rows[j] /\ (j \in undone <=> j \in undone')
    BY <1>1, <1>2, <1>3
  <2> QED
    BY <1>3, <2>1, EarnsStill DEF Earned
<1> QED
  BY <1>1, <1>5, <1>6, <1>7 DEF Earned

\* Decay needs a day without access that the row knows of.
LEMMA HygieneEarned ==
    ASSUME Typed, Earned, Hygiene
    PROVE  Earned'
<1> SUFFICES ASSUME NEW i \in Ids PROVE Earns(i)'
  BY DEF Earned
<1>1. UNCHANGED <<today, lastUse, undone>> /\ neglected \subseteq neglected'
  BY DEF Hygiene
<1>2. Earns(i)
  BY DEF Earned
<1>3. CASE ~Stored(i)
  <2>1. rows'[i] = NoRow /\ lastUse'[i] = Never
    BY <1>1, <1>2, <1>3, AgedRow DEF Earns
  <2> QED
    BY <2>1, EarnsGone
<1>4. CASE Stored(i)
  <2>1. rows[i] \in Row /\ rows'[i] \in Row /\ rows'[i].retrieved = rows[i].retrieved
    BY <1>4, AgedRow, RowKinds DEF Typed
  <2>2. /\ rows[i].strength \in Levels /\ rows[i].strength \in Nat
        /\ rows[i].retrieved \in Nat /\ rows[i].created \in Nat \ {0}
        /\ rows'[i].strength \in Nat
    BY <2>1, Fields
  <2>3. today \in Nat /\ lastUse[i] \in Nat /\ rows[i].created <= today
    BY Numbers DEF Typed, Kinds, Dated
  <2>4. ASSUME rows'[i].strength = 0, i \notin undone PROVE i \in neglected'
    <3>1. CASE rows[i].strength = 0
      BY <1>1, <1>2, <1>4, <2>4, <3>1 DEF Earns
    <3>2. CASE rows[i].strength # 0
      <4>1. ~Recent(rows[i])
        BY <1>4, <2>2, <2>4, AgedRow, StrongerLevel
      <4>2. LastAccess(rows[i]) = today => rows'[i].strength = rows[i].strength
        BY <1>4, <4>1, AgedRow
      <4>3. rows'[i].strength < rows[i].strength /\ LastAccess(rows[i]) # today
        BY <2>2, <2>4, <3>2, <4>2
      <4>4. lastUse[i] <= rows[i].retrieved
        BY <1>2, <2>4 DEF Earns
      <4>5. lastUse[i] + 1 < today
        <5>1. CASE rows[i].retrieved = Never
          BY <2>2, <2>3, <4>3, <4>4, <5>1, Numbers DEF LastAccess
        <5>2. CASE rows[i].retrieved # Never
          BY <2>2, <2>3, <4>1, <4>4, <5>2 DEF Recent
        <5> QED
          BY <5>1, <5>2
      <4> QED
        BY <1>4, <4>3, <4>5, AgedRow
    <3> QED
      BY <3>1, <3>2
  <2>5. Stored(i)'
    BY <2>1, Fields DEF Stored
  <2> QED
    BY <1>1, <1>2, <2>1, <2>4, <2>5 DEF Earns
<1> QED
  BY <1>3, <1>4

LEMMA StepEarned == Typed /\ Earned /\ [Next]_vars => Earned'
<1> SUFFICES ASSUME Typed, Earned, [Next]_vars PROVE Earned'
  OBVIOUS
<1>1. ASSUME NEW i \in Ids, Life(i) PROVE Earned'
  <2>1. CASE Delete(i)
    <3>1. rows'[i] = NoRow /\ \A j \in Ids \ {i} : rows'[j] = rows[j]
      BY <2>1 DEF Delete, Typed, Kinds
    <3>2. /\ neglected' = neglected \ {i} /\ undone' = undone \ {i}
          /\ lastUse' = [j \in Ids |-> IF j \in {i} THEN Never ELSE lastUse[j]]
      BY <2>1 DEF Delete, Forgotten
    <3>3. ASSUME NEW j \in Ids \ {i} PROVE Earns(j)'
      BY <3>1, <3>2, EarnsStill DEF Earned
    <3>4. Earns(i)'
      BY <3>1, <3>2, EarnsGone
    <3> QED
      BY <3>3, <3>4 DEF Earned
  <2> QED
    BY <1>1, <2>1, CaptureEarned, ImportEarned, UseEarned DEF Life
<1>2. ASSUME NEW c \in Callers, Edit(c) PROVE Earned'
  BY <1>2, EditEarned
<1>3. CASE Hygiene
  BY <1>3, HygieneEarned
<1>4. CASE Consolidate
  <2> SUFFICES ASSUME NEW i \in Ids PROVE Earns(i)'
    BY DEF Earned
  <2>1. Earns(i) /\ undone' = undone \ {j \in Ids : Faded(rows[j])}
        /\ neglected' = neglected \ {j \in Ids : Faded(rows[j])}
    BY <1>4 DEF Earned, Consolidate, Forgotten
  <2>2. CASE Faded(rows[i])
    BY <1>4, <2>2, SettledRow, EarnsGone
  <2>3. CASE ~Faded(rows[i])
    <3>1. /\ rows'[i].created = rows[i].created /\ rows'[i].strength = rows[i].strength
          /\ rows'[i].retrieved = rows[i].retrieved /\ lastUse'[i] = lastUse[i]
      BY <1>4, <2>3, SettledRow
    <3>2. (i \in undone <=> i \in undone') /\ (i \in neglected <=> i \in neglected')
      BY <2>1, <2>3
    <3> QED
      BY <2>1, <3>1, <3>2 DEF Earns, Stored
  <2> QED
    BY <2>2, <2>3
<1>5. CASE NextDay \/ (\E w \in Conns : Ledger(w)) \/ UNCHANGED vars
  <2>1. UNCHANGED <<rows, lastUse, neglected, undone>>
    BY <1>5 DEF NextDay, Ledger, Stamp, Insert, GiveUp, Poll, vars, history
  <2> QED
    BY <2>1, EarnsStill DEF Earned
<1> QED
  BY <1>1, <1>2, <1>3, <1>4, <1>5 DEF Next, Upkeep

\* Consolidation prunes only what decayed on a day without use, came in
\* faded, or lost its use to an edit from an old copy.
THEOREM Pruning == Spec => PrunedWereNeglected
<1>1. Earned /\ [Next]_vars =>
        [\A i \in Ids : (Consolidate /\ Faded(rows[i])) => i \in neglected \cup undone]_vars
  BY DEF Earned, Earns, Stored, Faded
<1> QED
  BY <1>1, InitTyped, StepTyped, InitEarned, StepEarned, PTL DEF Spec, PrunedWereNeglected

-----------------------------------------------------------------------------
(***************************************************************************)
(* The access ledger                                                       *)
(***************************************************************************)

Upto(at) == {e \in DOMAIN events : events[e] <= at}

\* One connection records: one process has the vault open.
OneConnection == \A v, w \in Conns : v = w

\* The ledger is in the order of its timestamps, and what is about to be
\* inserted comes after all of it and after the cursor: the events a cursor
\* has passed are the first of the ledger. Unless an answer was cut, all of
\* them were seen.
Passed ==
    /\ poll.cursor <= clock
    /\ \A e \in 1..Recorded : events[e] <= clock
    /\ \A e, f \in 1..Recorded : e <= f => events[e] <= events[f]
    /\ \A w \in Conns : stamping[w] # NotStamping =>
         poll.cursor < stamping[w].at /\ \A e \in 1..Recorded : events[e] < stamping[w].at
    /\ \E k \in 0..Recorded : Upto(poll.cursor) = 1..k
    /\ CursorSkipsNothing

LEMMA InitPassed == Init => Passed
<1> SUFFICES ASSUME Init PROVE Passed
  OBVIOUS
<1>1. DOMAIN events = {} /\ Recorded = 0 /\ poll.cursor = 0 /\ clock = 0
  BY FS_EmptySet DEF Init, Recorded
<1>2. Upto(poll.cursor) = 1..0
  BY <1>1 DEF Upto
<1>3. \A w \in Conns : stamping[w] = NotStamping
  BY DEF Init
<1> QED
  BY <1>1, <1>2, <1>3 DEF Passed, CursorSkipsNothing, Upto

LEMMA StampPassed ==
    ASSUME OneConnection, Typed, Passed, NEW w \in Conns, Stamp(w)
    PROVE  Passed'
<1>1. PICK n \in {1, 2} : stamping' = [stamping EXCEPT ![w] = [at |-> clock', count |-> n]]
  BY DEF Stamp
<1>2. UNCHANGED <<events, poll, Recorded>> /\ clock' = clock + 1
  BY DEF Stamp, Recorded
<1>3. clock \in Nat /\ poll.cursor \in Nat /\ \A e \in 1..Recorded : events[e] \in Nat
  BY Numbers DEF Typed, Kinds, Ordered
<1>4. \A v \in Conns : stamping'[v].at = clock + 1
  BY <1>1, <1>2 DEF OneConnection, Typed, Kinds
<1> QED
  BY <1>2, <1>3, <1>4 DEF Passed, CursorSkipsNothing, Upto

LEMMA GiveUpPassed ==
    ASSUME Typed, Passed, NEW w \in Conns, GiveUp(w)
    PROVE  Passed'
<1>1. UNCHANGED <<events, poll, clock, Recorded>>
  BY DEF GiveUp, Recorded
<1>2. \A v \in Conns : stamping'[v] # NotStamping => stamping'[v] = stamping[v]
  BY DEF GiveUp, Typed, Kinds
<1> QED
  BY <1>1, <1>2 DEF Passed, CursorSkipsNothing, Upto

LEMMA InsertPassed ==
    ASSUME OneConnection, Typed, Passed, NEW w \in Conns, Insert(w)
    PROVE  Passed'
<1> DEFINE at == stamping[w].at
<1>1. /\ Recorded \in Nat /\ DOMAIN events = 1..Recorded /\ poll' = poll /\ clock' = clock
      /\ \A e \in 1..Recorded : events[e] \in Nat /\ events[e] < at
      /\ poll.cursor \in Nat /\ poll.cursor < at /\ at \in 1..clock /\ clock \in Nat
  BY Numbers DEF Typed, Kinds, Ordered, Stamped, Passed, Insert
<1>2. /\ Recorded <= Recorded' /\ Recorded' \in Nat
      /\ DOMAIN events' = 1..Recorded'
      /\ \A e \in 1..Recorded : events'[e] = events[e]
      /\ \A e \in (Recorded + 1)..Recorded' : events'[e] = at
  BY Inserting
<1> HIDE DEF at
<1>3. \A e \in 1..Recorded' : \/ e \in 1..Recorded /\ events'[e] = events[e]
                              \/ e \in (Recorded + 1)..Recorded' /\ events'[e] = at
  <2> TAKE e \in 1..Recorded'
  <2>1. e \in 1..Recorded \/ e \in (Recorded + 1)..Recorded'
    BY <1>1, <1>2
  <2> QED
    BY <1>2, <2>1
<1>4. \A e \in 1..Recorded' : events'[e] <= clock
  BY <1>1, <1>3
<1>5. \A e, f \in 1..Recorded' : e <= f => events'[e] <= events'[f]
  BY <1>1, <1>3 DEF Passed
<1>6. Upto(poll.cursor)' = Upto(poll.cursor)
  <2>1. \A e \in DOMAIN events' : e \in Upto(poll.cursor)' <=> e \in Upto(poll.cursor)
    BY <1>1, <1>2, <1>3 DEF Upto
  <2>2. DOMAIN events \subseteq DOMAIN events'
    BY <1>1, <1>2
  <2> QED
    BY <2>1, <2>2 DEF Upto
<1>7. \E k \in 0..Recorded' : Upto(poll.cursor)' = 1..k
  BY <1>1, <1>2, <1>6 DEF Passed
<1>8. CursorSkipsNothing'
  <2>1. poll.full \/ Upto(poll.cursor) \subseteq poll.seen
    BY DEF Passed, CursorSkipsNothing, Upto
  <2>2. poll'.full \/ Upto(poll.cursor)' \subseteq poll'.seen
    BY <1>1, <1>6, <2>1
  <2> QED
    BY <2>2 DEF CursorSkipsNothing, Upto
<1>9. \A v \in Conns : stamping'[v] = NotStamping
  BY DEF OneConnection, Insert, Typed, Kinds
<1> QED
  BY <1>1, <1>4, <1>5, <1>7, <1>8, <1>9 DEF Passed

\* An answer of fewer than PollLimit events is all there were after the
\* cursor: counted from the newest, the events left out come behind as many.
LEMMA ShortAnswer ==
    ASSUME Ordered, NEW k \in 0..Recorded,
           NEW got, got = {e \in (k + 1)..Recorded :
                             Cardinality({f \in (k + 1)..Recorded : f > e}) < PollLimit},
           Cardinality(got) # PollLimit
    PROVE  got = (k + 1)..Recorded
<1>1. Recorded \in Nat /\ k \in Nat
  BY DEF Ordered
<1>2. ASSUME NEW e \in (k + 1)..Recorded
      PROVE  Cardinality({f \in (k + 1)..Recorded : f > e}) = Recorded - e
  <2>1. {f \in (k + 1)..Recorded : f > e} = (e + 1)..Recorded
    BY <1>1
  <2>2. Cardinality((e + 1)..Recorded) = Recorded - e
    <3>1. Cardinality((e + 1)..Recorded) = IF e + 1 > Recorded THEN 0 ELSE Recorded - (e + 1) + 1
      BY <1>1, FS_Interval
    <3> QED
      BY <1>1, <3>1
  <2> QED
    BY <2>1, <2>2
<1>3. got = {e \in (k + 1)..Recorded : Recorded - e < PollLimit}
  BY <1>2
<1>4. CASE Recorded - k < PollLimit
  BY <1>1, <1>3, <1>4, Numbers
<1>5. CASE ~(Recorded - k < PollLimit)
  <2>1. got = (Recorded - PollLimit + 1)..Recorded
    BY <1>1, <1>3, <1>5, Numbers
  <2>2. Cardinality((Recorded - PollLimit + 1)..Recorded)
          = IF Recorded - PollLimit + 1 > Recorded THEN 0
            ELSE Recorded - (Recorded - PollLimit + 1) + 1
    BY <1>1, Numbers, FS_Interval
  <2>3. /\ ~(Recorded - PollLimit + 1 > Recorded)
        /\ Recorded - (Recorded - PollLimit + 1) + 1 = PollLimit
    BY <1>1, Numbers
  <2>4. Cardinality(got) = PollLimit
    BY <2>1, <2>2, <2>3
  <2> QED
    BY <2>4
<1> QED
  BY <1>4, <1>5

LEMMA PollPassed ==
    ASSUME OneConnection, Typed, Passed, NEW w \in Conns, Poll(w)
    PROVE  Passed'
<1> DEFINE new == {e \in DOMAIN events : events[e] > poll.cursor}
           got == {e \in new : Cardinality({f \in new : f > e}) < PollLimit}
<1>1. /\ Ordered /\ Recorded \in Nat /\ DOMAIN events = 1..Recorded
      /\ \A e \in 1..Recorded : events[e] \in Nat
      /\ poll.cursor \in Nat /\ clock \in Nat
  BY Numbers DEF Typed, Kinds, Ordered
<1>2. UNCHANGED <<events, clock, stamping, Recorded>> /\ \A v \in Conns : stamping[v] = NotStamping
  BY DEF Poll, Recorded, OneConnection
<1>3. CASE UNCHANGED poll
  BY <1>2, <1>3 DEF Passed, CursorSkipsNothing, Upto
<1>4. ASSUME NEW last \in got, \A e \in got : e <= last,
             poll' = [cursor |-> events[last], seen |-> poll.seen \cup got,
                      full |-> poll.full \/ Cardinality(got) = PollLimit]
      PROVE  Passed'
  <2>1. PICK k \in 0..Recorded : Upto(poll.cursor) = 1..k
    BY DEF Passed
  <2>2. new = (k + 1)..Recorded
    <3>1. \A e \in DOMAIN events : e \in new <=> e \notin Upto(poll.cursor)
      BY <1>1 DEF Upto
    <3> QED
      BY <1>1, <2>1, <3>1
  <2>3. last = Recorded /\ Recorded # 0
    <3>1. last \in (k + 1)..Recorded
      BY <1>4, <2>2
    <3>2. Recorded \in new /\ Recorded # 0 /\ {f \in new : f > Recorded} = {}
      BY <1>1, <2>2, <3>1
    <3>3. Cardinality({f \in new : f > Recorded}) = 0
      BY <3>2, FS_EmptySet
    <3>4. Recorded \in got
      BY <3>2, <3>3, Numbers
    <3>5. Recorded <= last
      BY <1>4, <3>4
    <3> HIDE DEF new, got
    <3> QED
      BY <1>1, <3>1, <3>2, <3>5
  <2>4. Upto(events[last]) = 1..Recorded
    BY <1>1, <2>3 DEF Upto, Passed
  <2>5. ASSUME ~poll'.full PROVE 1..Recorded \subseteq poll'.seen
    <3>1. ~poll.full /\ Cardinality(got) # PollLimit
      BY <1>4, <2>5
    <3>2. got = {e \in (k + 1)..Recorded :
                   Cardinality({f \in (k + 1)..Recorded : f > e}) < PollLimit}
      BY <2>2
    <3>3. poll'.seen = poll.seen \cup got
      BY <1>4
    <3> HIDE DEF got
    <3>4. got = (k + 1)..Recorded
      BY <1>1, <3>1, <3>2, ShortAnswer
    <3>5. 1..k \subseteq poll.seen
      BY <2>1, <3>1 DEF Passed, CursorSkipsNothing, Upto
    <3> QED
      BY <1>1, <3>3, <3>4, <3>5
  <2>6. poll'.cursor = events[last] /\ Upto(poll.cursor)' = 1..Recorded
    BY <1>2, <1>4, <2>4 DEF Upto
  <2>7. CursorSkipsNothing'
    BY <2>5, <2>6 DEF CursorSkipsNothing, Upto
  <2>8. poll'.cursor <= clock' /\ \E j \in 0..Recorded' : Upto(poll.cursor)' = 1..j
    BY <1>1, <1>2, <2>3, <2>6 DEF Passed
  <2> QED
    BY <1>2, <2>7, <2>8 DEF Passed
<1> QED
  BY <1>3, <1>4 DEF Poll

LEMMA StepPassed ==
    ASSUME OneConnection
    PROVE  Typed /\ Passed /\ [Next]_vars => Passed'
<1> SUFFICES ASSUME Typed, Passed, [Next]_vars PROVE Passed'
  OBVIOUS
<1>1. ASSUME NEW w \in Conns, Ledger(w) PROVE Passed'
  BY <1>1, StampPassed, InsertPassed, GiveUpPassed, PollPassed DEF Ledger
<1>2. ASSUME ~\E w \in Conns : Ledger(w) PROVE UNCHANGED <<clock, stamping, events, poll>>
  BY <1>2 DEF Next, Life, Capture, Import, CaptureAgain, Delete, Get, Edit, Upkeep, NextDay,
     Hygiene, Consolidate, vars, ledger
<1>3. CASE UNCHANGED <<clock, stamping, events, poll>>
  BY <1>3 DEF Passed, CursorSkipsNothing, Upto, Recorded
<1> QED
  BY <1>1, <1>2, <1>3

\* While one connection records, an integrator that never got a full answer
\* has seen every event its cursor has passed, however recordings, failed
\* ones, batches and polls follow each other. A second connection can insert
\* an event with an older timestamp than one already polled.
THEOREM Cursor ==
    ASSUME OneConnection
    PROVE  Spec => []CursorSkipsNothing
<1>1. Passed => CursorSkipsNothing
  BY DEF Passed
<1> QED
  BY <1>1, InitTyped, StepTyped, InitPassed, StepPassed, PTL DEF Spec

-----------------------------------------------------------------------------
(***************************************************************************)
(* The digest                                                              *)
(***************************************************************************)

\* The cardinalities of disjoint sets add up.
LEMMA DisjointUnion ==
    ASSUME NEW S, NEW T, IsFiniteSet(S), IsFiniteSet(T), S \cap T = {}
    PROVE  /\ IsFiniteSet(S \cup T)
           /\ Cardinality(S \cup T) = Cardinality(S) + Cardinality(T)
<1>1. Cardinality(S \cap T) = 0
  BY FS_EmptySet
<1>2. Cardinality(S) \in Nat /\ Cardinality(T) \in Nat
  BY FS_CardinalityType
<1>3. IsFiniteSet(S \cup T)
      /\ Cardinality(S \cup T) = Cardinality(S) + Cardinality(T) - Cardinality(S \cap T)
  BY FS_Union
<1> QED
  BY <1>1, <1>2, <1>3

\* Whatever its history, each live memory is in exactly one slice of the
\* digest, so the counts of the slices add up.
THEOREM Digest == Spec => []DigestPartitions
<1>1. ASSUME Typed PROVE DigestPartitions
  <2> SUFFICES ASSUME NEW cutoff \in Days
               PROVE  /\ New(cutoff) \cup Reinforced(cutoff) \cup Fading(cutoff) = LiveRows
                      /\ Cardinality(New(cutoff)) + Cardinality(Reinforced(cutoff))
                           + Cardinality(Fading(cutoff)) = Cardinality(LiveRows)
    BY DEF DigestPartitions
  <2>1. \A i \in LiveRows : rows[i].created \in Nat /\ rows[i].retrieved \in Nat
    <3> TAKE i \in LiveRows
    <3>1. rows[i] \in Row
      BY <1>1, RowKinds DEF Typed, LiveRows
    <3> QED
      BY <3>1, Fields
  <2>2. cutoff \in Nat
    BY Numbers
  <2>3. /\ New(cutoff) \cup Reinforced(cutoff) \cup Fading(cutoff) = LiveRows
        /\ New(cutoff) \cap Reinforced(cutoff) = {}
        /\ (New(cutoff) \cup Reinforced(cutoff)) \cap Fading(cutoff) = {}
    BY <2>1, <2>2 DEF New, Reinforced, Fading
  <2>4. IsFiniteSet(LiveRows)
    BY Numbers, FS_Subset DEF LiveRows
  <2>5. IsFiniteSet(New(cutoff)) /\ IsFiniteSet(Reinforced(cutoff)) /\ IsFiniteSet(Fading(cutoff))
    BY <2>3, <2>4, FS_Subset
  <2>6. /\ IsFiniteSet(New(cutoff) \cup Reinforced(cutoff))
        /\ Cardinality(New(cutoff) \cup Reinforced(cutoff))
             = Cardinality(New(cutoff)) + Cardinality(Reinforced(cutoff))
    BY <2>3, <2>5, DisjointUnion
  <2>7. Cardinality((New(cutoff) \cup Reinforced(cutoff)) \cup Fading(cutoff))
          = Cardinality(New(cutoff) \cup Reinforced(cutoff)) + Cardinality(Fading(cutoff))
    BY <2>3, <2>5, <2>6, DisjointUnion
  <2> QED
    BY <2>3, <2>6, <2>7
<1> QED
  BY <1>1, InitTyped, StepTyped, PTL DEF Spec

=============================================================================
