-------------------------- MODULE MemoryLifecycle --------------------------
(***************************************************************************)
(* How EngramStore ages the memories it keeps (src/src/store.rs): a read   *)
(* touches, the daily hygiene strengthens what was read and lets the rest  *)
(* decay, the weekly consolidation promotes and prunes, and the digest     *)
(* counts, while callers write back copies they read earlier.  Beside it   *)
(* the ledger of accesses, which integrators poll with a cursor.           *)
(*                                                                         *)
(* Every action runs under one lock of the connection; between get and     *)
(* write_curated a caller holds a copy and no lock.  An access event is    *)
(* recorded in two steps: its call reads the clock with its connection     *)
(* locked, but before SQLite lets it write, and another connection may     *)
(* have the database in between.                                           *)
(*                                                                         *)
(* Abstracted: time is counted in days; strength is a level, 0 standing    *)
(* for what consolidation prunes (< 0.05), 1 for a capture's, Top for the  *)
(* cap, and a decay may take any number of levels; five retrievals are     *)
(* PromoteAt.  Tombstones, index and links of what is pruned are in        *)
(* EngramVault.                                                            *)
(***************************************************************************)
EXTENDS Naturals, FiniteSets

CONSTANTS
    Ids,       \* memory ids
    Callers,   \* callers that edit what they read
    Conns,     \* connections that record accesses, one per process
    NoId,
    Workloads, \* sets of the calls the clients of one vault make
    PromoteAt, \* retrievals that promote; also where the model stops counting
    Top,       \* the highest level of strength
    PollLimit, \* the limit of list_access_events_since
    MaxDay,    \* bound: days
    MaxEvents  \* bound: access events, and the timestamps given out

CallNames == {"capture", "import", "get", "edit", "delete", "upkeep", "access"}
ASSUME LifecycleAssumption ==
    /\ IsFiniteSet(Ids) /\ NoId \notin Ids /\ Workloads \subseteq SUBSET CallNames
    /\ PromoteAt \in Nat \ {0} /\ Top \in Nat \ {0} /\ PollLimit \in Nat \ {0}
    /\ MaxDay \in Nat \ {0} /\ MaxEvents \in Nat

VARIABLES
    calls,     \* the workload, chosen once
    today,
    rows,      \* id -> row, NoRow where there is none
    copies,    \* caller -> the engram get has returned to it
    clock,     \* the last timestamp taken; no two are the same
    stamping,  \* connection -> what its record_access is about to insert
    events,    \* table access_events: event number -> its timestamp
    poll,      \* an integrator: [cursor, seen, full]
    reads,     \* history: id -> times get has returned it, here or elsewhere
    lastUse,   \* history: id -> the day it was last read or captured again
    foreign,   \* history: ids that came in as semantic
    neglected, \* history: ids that decayed after a day without use, here or
               \* where they came from
    undone     \* history: ids whose use or strength a written copy has undone

ledger == <<clock, stamping, events, poll>>
history == <<reads, lastUse, foreign, neglected, undone>>
vars == <<calls, today, rows, copies, ledger, history>>

Never == 0
Days == 1..MaxDay
Levels == 0..Top
Row == [layer: {"episodic", "semantic"}, imagined: BOOLEAN, grounded: BOOLEAN,
        created: Days, retrieved: Never..MaxDay, retrievals: 0..PromoteAt,
        strength: Levels]
NoRow == [layer |-> "none", imagined |-> FALSE, grounded |-> FALSE, created |-> 0,
          retrieved |-> Never, retrievals |-> 0, strength |-> 0]
NoCopy == [of |-> NoId, row |-> NoRow]
NotStamping == [at |-> 0, count |-> 0]

Stored(i) == rows[i].created # 0

\* Every variable holds a value of its kind; what is promoted was read.
TypeOK ==
    /\ calls \in Workloads
    /\ today \in Days
    /\ rows \in [Ids -> Row \cup {NoRow}]
    /\ copies \in [Callers -> [of: Ids \cup {NoId}, row: Row \cup {NoRow}]]
    /\ clock \in 0..MaxEvents
    /\ stamping \in [Conns -> [at: 0..MaxEvents, count: 0..2]]
    /\ DOMAIN events = 1..Cardinality(DOMAIN events)
    /\ \A e \in DOMAIN events : events[e] \in 1..MaxEvents
    /\ poll \in [cursor: 0..MaxEvents, seen: SUBSET (1..MaxEvents), full: BOOLEAN]
    /\ reads \in [Ids -> 0..PromoteAt]
    /\ lastUse \in [Ids -> Never..MaxDay]
    /\ foreign \subseteq Ids /\ neglected \subseteq Ids /\ undone \subseteq Ids

OneMore(n) == IF n < PromoteAt THEN n + 1 ELSE n

\* Mutant: the cap is forgotten.
StrongerUncapped(n) == n + 1

Stronger(n) == IF n < Top THEN n + 1 ELSE n

Init ==
    /\ calls \in Workloads
    /\ today = 1
    /\ rows = [i \in Ids |-> NoRow]
    /\ copies = [c \in Callers |-> NoCopy]
    /\ clock = 0 /\ stamping = [w \in Conns |-> NotStamping]
    /\ events = [e \in {} |-> 0]
    /\ poll = [cursor |-> 0, seen |-> {}, full |-> FALSE]
    /\ reads = [i \in Ids |-> 0]
    /\ lastUse = [i \in Ids |-> Never]
    /\ foreign = {} /\ neglected = {} /\ undone = {}

NextDay ==
    /\ today < MaxDay /\ "upkeep" \in calls
    /\ today' = today + 1
    /\ UNCHANGED <<calls, rows, copies, ledger, history>>

-----------------------------------------------------------------------------
(***************************************************************************)
(* Captures, reads and edits                                               *)
(***************************************************************************)

Used(i) == lastUse' = [lastUse EXCEPT ![i] = today]

\* A memory is captured, dated by its caller.
Capture(i) ==
    /\ "capture" \in calls /\ ~Stored(i)
    /\ \E d \in 1..today, im \in BOOLEAN, s \in 1..Top :
         rows' = [rows EXCEPT ![i] = [layer |-> "episodic", imagined |-> im,
                    grounded |-> FALSE, created |-> d, retrieved |-> Never,
                    retrievals |-> 0, strength |-> s]]
    /\ UNCHANGED <<calls, today, copies, ledger, history>>

\* A memory comes from elsewhere, by a pull or an import: write stores layer,
\* strength and counters as it brings them.
Import(i) ==
    /\ "import" \in calls /\ ~Stored(i)
    /\ \E r \in Row :
         /\ r.created <= today /\ r.retrieved <= today
         /\ rows' = [rows EXCEPT ![i] = r]
         /\ reads' = [reads EXCEPT ![i] = IF @ < r.retrievals THEN r.retrievals ELSE @]
         /\ lastUse' = [lastUse EXCEPT ![i] = r.retrieved]
         /\ foreign' = IF r.layer = "semantic" THEN foreign \cup {i} ELSE foreign
         /\ neglected' = IF r.strength = 0 THEN neglected \cup {i} ELSE neglected
    /\ UNCHANGED <<calls, today, copies, ledger, undone>>

\* Mutant: a repeated capture counts as a retrieval.
CaptureAgainCounting(i) ==
    /\ "capture" \in calls /\ Stored(i)
    /\ rows' = [rows EXCEPT ![i].strength = Stronger(@), ![i].retrieved = today,
                            ![i].retrievals = OneMore(@)]
    /\ Used(i)
    /\ UNCHANGED <<calls, today, copies, ledger, reads, foreign, neglected, undone>>

\* The dedupe gate strengthens the row it found and counts it as used.
CaptureAgain(i) ==
    /\ "capture" \in calls /\ Stored(i)
    /\ rows' = [rows EXCEPT ![i].strength = Stronger(@), ![i].retrieved = today]
    /\ Used(i)
    /\ UNCHANGED <<calls, today, copies, ledger, reads, foreign, neglected, undone>>

\* get reads the row, touches it, and returns what it read: the copy does
\* not know of the touch.
Get(c, i) ==
    /\ "get" \in calls /\ Stored(i)
    /\ copies' = [copies EXCEPT ![c] = IF "edit" \in calls THEN [of |-> i, row |-> rows[i]]
                                                           ELSE NoCopy]
    /\ rows' = [rows EXCEPT ![i].retrievals = OneMore(@), ![i].retrieved = today]
    /\ reads' = [reads EXCEPT ![i] = OneMore(@)]
    /\ Used(i)
    /\ UNCHANGED <<calls, today, ledger, foreign, neglected, undone>>

\* write_curated of the copy: every column is the copy's but a last_retrieved
\* it lacks. It marks as noise, grounds, or brings a deleted row back.
Edit(c) ==
    /\ "edit" \in calls /\ copies[c] # NoCopy
    /\ LET i == copies[c].of  copy == copies[c].row
           kept == IF copy.retrieved = Never THEN rows[i].retrieved ELSE copy.retrieved
       IN  /\ \E im, gr \in BOOLEAN :
                rows' = [rows EXCEPT ![i] = [copy EXCEPT !.imagined = im, !.grounded = gr,
                                                         !.retrieved = kept]]
           /\ undone' = IF ~Stored(i) \/ kept < rows[i].retrieved
                           \/ copy.strength < rows[i].strength
                        THEN undone \cup {i} ELSE undone
    /\ copies' = [copies EXCEPT ![c] = NoCopy]
    /\ UNCHANGED <<calls, today, ledger, reads, lastUse, foreign, neglected>>

Forgotten(S) ==
    /\ neglected' = neglected \ S /\ undone' = undone \ S
    /\ lastUse' = [i \in Ids |-> IF i \in S THEN Never ELSE lastUse[i]]

Delete(i) ==
    /\ "delete" \in calls /\ Stored(i)
    /\ rows' = [rows EXCEPT ![i] = NoRow]
    /\ Forgotten({i})
    /\ UNCHANGED <<calls, today, copies, ledger, reads, foreign>>

-----------------------------------------------------------------------------
(***************************************************************************)
(* Upkeep                                                                  *)
(***************************************************************************)

Recent(r) == r.retrieved # Never /\ r.retrieved + 1 >= today
LastAccess(r) == IF r.retrieved = Never THEN r.created ELSE r.retrieved

\* Mutant: the rows that decay are chosen without the one-day cutoff.
HygieneCuttingToday ==
    /\ "upkeep" \in calls
    /\ \E to \in [{i \in Ids : Stored(i)} -> Levels] :
         /\ \A i \in DOMAIN to :
              IF rows[i].retrieved = today THEN to[i] = Stronger(rows[i].strength)
              ELSE /\ to[i] <= rows[i].strength
                   /\ LastAccess(rows[i]) = today => to[i] = rows[i].strength
         /\ rows' = [i \in Ids |-> IF Stored(i) THEN [rows[i] EXCEPT !.strength = to[i]]
                                               ELSE NoRow]
         /\ neglected' = neglected \cup {i \in DOMAIN to : to[i] < rows[i].strength
                                           /\ lastUse[i] + 1 < today}
    /\ UNCHANGED <<calls, today, copies, ledger, reads, lastUse, foreign, undone>>

\* apply_daily_hygiene: what was retrieved within a day is strengthened; the
\* rest decays by the days since its last access, from its present strength.
Hygiene ==
    /\ "upkeep" \in calls
    /\ \E to \in [{i \in Ids : Stored(i)} -> Levels] :
         /\ \A i \in DOMAIN to :
              IF Recent(rows[i]) THEN to[i] = Stronger(rows[i].strength)
              ELSE /\ to[i] <= rows[i].strength
                   /\ LastAccess(rows[i]) = today => to[i] = rows[i].strength
         /\ rows' = [i \in Ids |-> IF Stored(i) THEN [rows[i] EXCEPT !.strength = to[i]]
                                               ELSE NoRow]
         /\ neglected' = neglected \cup {i \in DOMAIN to : to[i] < rows[i].strength
                                           /\ lastUse[i] + 1 < today}
    /\ UNCHANGED <<calls, today, copies, ledger, reads, lastUse, foreign, undone>>

Promoted(r) ==
    IF r.layer = "episodic" /\ r.retrievals >= PromoteAt THEN [r EXCEPT !.layer = "semantic"]
    ELSE r
Faded(r) == r.created # 0 /\ r.strength = 0 /\ r.imagined

\* apply_weekly_consolidation: promotes what was read often, prunes what is
\* imagined and faded, grounded or not.
Consolidate ==
    /\ "upkeep" \in calls
    /\ rows' = [i \in Ids |-> IF Faded(rows[i]) THEN NoRow ELSE Promoted(rows[i])]
    /\ Forgotten({i \in Ids : Faded(rows[i])})
    /\ UNCHANGED <<calls, today, copies, ledger, reads, foreign>>

-----------------------------------------------------------------------------
(***************************************************************************)
(* The access ledger                                                       *)
(***************************************************************************)

Recorded == Cardinality(DOMAIN events)
Append(n, at) == events' = [e \in 1..(Recorded + n) |-> IF e \in DOMAIN events THEN events[e]
                                                                               ELSE at]

\* Mutant: the clock is read before the call waits for its connection.
StampUnlocked(w) ==
    /\ "access" \in calls /\ stamping[w] = NotStamping /\ clock < MaxEvents
    /\ clock' = clock + 1
    /\ \E n \in {1, 2}, at \in 1..clock' :
         stamping' = [stamping EXCEPT ![w] = [at |-> at, count |-> n]]
    /\ UNCHANGED <<calls, today, rows, copies, events, poll, history>>

\* record_access, and record_access_batch, which has one timestamp for all
\* its events: the connection is locked and the clock read...
Stamp(w) ==
    /\ "access" \in calls /\ stamping[w] = NotStamping /\ clock < MaxEvents
    /\ clock' = clock + 1
    /\ \E n \in {1, 2} : stamping' = [stamping EXCEPT ![w] = [at |-> clock', count |-> n]]
    /\ UNCHANGED <<calls, today, rows, copies, events, poll, history>>

\* ...and the events are inserted once no other connection is writing,
Insert(w) ==
    /\ stamping[w] # NotStamping /\ Recorded + stamping[w].count <= MaxEvents
    /\ Append(stamping[w].count, stamping[w].at)
    /\ stamping' = [stamping EXCEPT ![w] = NotStamping]
    /\ UNCHANGED <<calls, today, rows, copies, clock, poll, history>>

\* unless the call fails: another connection wrote for too long.
GiveUp(w) ==
    /\ stamping[w] # NotStamping
    /\ stamping' = [stamping EXCEPT ![w] = NotStamping]
    /\ UNCHANGED <<calls, today, rows, copies, clock, events, poll, history>>

\* Events after the cursor, newest first, at most PollLimit; the integrator
\* continues from the newest it was given.
Poll(w) ==
    /\ "access" \in calls /\ stamping[w] = NotStamping
    /\ LET new == {e \in DOMAIN events : events[e] > poll.cursor}
           got == {e \in new : Cardinality({f \in new : f > e}) < PollLimit}
       IN  \/ got = {} /\ UNCHANGED poll
           \/ \E last \in got :
                /\ \A e \in got : e <= last
                /\ poll' = [cursor |-> events[last], seen |-> poll.seen \cup got,
                            full |-> poll.full \/ Cardinality(got) = PollLimit]
    /\ UNCHANGED <<calls, today, rows, copies, clock, stamping, events, history>>

-----------------------------------------------------------------------------
Life(i) == Capture(i) \/ Import(i) \/ CaptureAgain(i) \/ Delete(i) \/ \E c \in Callers : Get(c, i)
Upkeep == NextDay \/ Hygiene \/ Consolidate
Ledger(w) == Stamp(w) \/ Insert(w) \/ GiveUp(w) \/ Poll(w)

Next == \/ \E i \in Ids : Life(i)
        \/ \E c \in Callers : Edit(c)
        \/ Upkeep
        \/ \E w \in Conns : Ledger(w)

Spec == Init /\ [][Next]_vars

-----------------------------------------------------------------------------
(***************************************************************************)
(* Properties                                                              *)
(***************************************************************************)

\* digest_window's slices for a cutoff, and what they are counted against.
LiveRows == {i \in Ids : Stored(i) /\ ~(rows[i].imagined /\ ~rows[i].grounded)}
New(cutoff) == {i \in LiveRows : rows[i].created >= cutoff}
Reinforced(cutoff) == {i \in LiveRows : rows[i].created < cutoff
                                        /\ rows[i].retrieved # Never
                                        /\ rows[i].retrieved >= cutoff}

\* Mutant: SQL's three-valued comparison drops what was never retrieved.
FadingNotNull(cutoff) == {i \in LiveRows : rows[i].created < cutoff
                                           /\ rows[i].retrieved # Never
                                           /\ rows[i].retrieved < cutoff}

Fading(cutoff) == {i \in LiveRows : rows[i].created < cutoff
                                    /\ (rows[i].retrieved = Never \/ rows[i].retrieved < cutoff)}

\* The digest counts every live memory once, whatever its history: imported
\* with an old date, edited from a stale copy, never read.
DigestPartitions ==
    \A cutoff \in Days :
      /\ New(cutoff) \cup Reinforced(cutoff) \cup Fading(cutoff) = LiveRows
      /\ Cardinality(New(cutoff)) + Cardinality(Reinforced(cutoff))
           + Cardinality(Fading(cutoff)) = Cardinality(LiveRows)

\* A counter never claims more retrievals than there were, here and where
\* the memory came from, though copies of any age are written back; so what
\* is semantic was read PromoteAt times, or came in so.
RetrievalsBacked ==
    \A i \in Ids : /\ rows[i].retrievals <= reads[i]
                   /\ rows[i].layer = "semantic" => reads[i] = PromoteAt \/ i \in foreign

\* Consolidation prunes no memory that has been in use: it had a day without
\* use on which it decayed, or came in faded, unless an edit from a stale copy
\* undid the use, the strength it had gained by it, or its deletion.
PrunedWereNeglected ==
    [][\A i \in Ids : (Consolidate /\ Faded(rows[i])) => i \in neglected \cup undone]_vars

\* An integrator that never got a full answer has seen every event up to its
\* cursor ("which memories did my agent touch since X"); a full answer,
\* newest first, may have cost it older ones.
CursorSkipsNothing ==
    poll.full \/ {e \in DOMAIN events : events[e] <= poll.cursor} \subseteq poll.seen

=============================================================================
