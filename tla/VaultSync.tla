----------------------------- MODULE VaultSync -----------------------------
(***************************************************************************)
(* One device's vault between its users and the relay: the per-memory sync *)
(* cursor (synced_at against modified_at), the tombstone queue and the     *)
(* push and pull cycle that uses them (src/src/store.rs, src/src/sync.rs). *)
(*                                                                         *)
(* The sync daemon, the relay and the other devices are not in this        *)
(* repository.  The loop below is what the store's calls and their         *)
(* comments ask of it: list what is due, push it, mark what was accepted   *)
(* with the modified_at that was pushed; the same for tombstones; then     *)
(* apply what was pulled.  The relay keeps the last writer per memory: it  *)
(* refuses a blob of a memory another device has written since this device *)
(* last pulled it (a stale vector clock), so such a memory is exactly one  *)
(* with a blob in the inbox.  A request or an answer may be lost.          *)
(*                                                                         *)
(* Abstracted: what a push carries of a memory (content and links) is its  *)
(* version, the tick of the write that made it; ciphertext, HMAC, paging   *)
(* and revoked devices are left out, and so are the columns that change    *)
(* without being meant to propagate (strength, retrievals, the vector).    *)
(***************************************************************************)
EXTENDS Naturals, FiniteSets

CONSTANTS
    Ids,         \* memory ids
    Faults,      \* what may go wrong, a subset of FaultKinds
    BatchLimit,  \* list_unsynced's limit
    MaxTime      \* bound: ticks, one for each write anywhere

FaultKinds == {"lost",      \* a request or an answer never arrives
               "cut",       \* the process dies between link's two statements
               "reopen",    \* the vault is closed and opened again
               "backdated"} \* a caller stamps its write with an earlier time

ASSUME SyncAssumption ==
    Faults \subseteq FaultKinds /\ BatchLimit \in Nat \ {0} /\ MaxTime \in Nat

VARIABLES
    now,        \* the clock; every write takes the next tick
    rows,       \* id -> [version, modified, synced], NoRow where there is none
    tombstones, \* ids whose deletion is to be pushed
    linking,    \* ids whose link is stored and whose bump is still to come
    inbox,      \* id -> the blob another device pushed and this one must pull
    pc,         \* the sync loop's next call
    batch,      \* the rows it pushes: id -> [version, modified], NoEntry
    deletions,  \* the tombstones it pushes
    relay,      \* id -> the version the relay holds, 0: none, or a deletion
    owed,       \* history: local deletions the relay has not accepted
    excused,    \* history: ids whose present version a fault kept back
    buried      \* history: ids whose present version the relay gave up for
                \* the deletion of an earlier one

device == <<rows, tombstones>>
loop == <<pc, batch, deletions>>
accounts == <<relay, owed, excused, buried>>
vars == <<now, device, linking, inbox, loop, accounts>>

Never == 0
Times == 1..MaxTime
NoRow == [version |-> 0, modified |-> 0, synced |-> Never]
Row == [version: Times, modified: Times, synced: Never..MaxTime]
NoEntry == [version |-> 0, modified |-> 0]
Entry == [version: Times, modified: Times]
NoBlob == [version |-> 0, modified |-> 0, deleted |-> FALSE]
Blob == [version: Times, modified: Times, deleted: BOOLEAN]
PCs == {"rows", "push", "mark", "tombstones", "push_deletions", "clear", "pull"}

\* Every variable holds a value of its kind, and a loop that is not between
\* a list and its answer carries nothing.
TypeOK ==
    /\ now \in 0..MaxTime
    /\ rows \in [Ids -> Row \cup {NoRow}]
    /\ tombstones \subseteq Ids
    /\ linking \subseteq Ids
    /\ inbox \in [Ids -> Blob \cup {NoBlob}]
    /\ pc \in PCs
    /\ batch \in [Ids -> Entry \cup {NoEntry}]
    /\ deletions \subseteq Ids
    /\ relay \in [Ids -> 0..MaxTime]
    /\ owed \subseteq Ids
    /\ excused \subseteq Ids /\ buried \subseteq Ids

Live(i) == rows[i].version # 0
InBatch(i) == batch[i].version # 0

\* Mutant: a row is due again in the instant it was marked.
DueInclusive(i) == Live(i) /\ rows[i].modified >= rows[i].synced

\* list_unsynced's condition: never synced, or edited since.
Due(i) == Live(i) /\ (rows[i].synced = Never \/ rows[i].modified > rows[i].synced)

Tick == now < MaxTime /\ now' = now + 1
Excuse(S) == excused' = (excused \cup S) /\ UNCHANGED <<relay, owed, buried>>
Renew(i) == excused' = excused \ {i} /\ buried' = buried \ {i}
Pardon(i) == Renew(i) /\ UNCHANGED <<relay, owed>>

Init ==
    /\ now = 0
    /\ rows = [i \in Ids |-> NoRow]
    /\ tombstones = {} /\ linking = {}
    /\ inbox = [i \in Ids |-> NoBlob]
    /\ pc = "rows"
    /\ batch = [i \in Ids |-> NoEntry] /\ deletions = {}
    /\ relay = [i \in Ids |-> 0]
    /\ owed = {} /\ excused = {} /\ buried = {}

-----------------------------------------------------------------------------
(***************************************************************************)
(* The device's users                                                      *)
(***************************************************************************)

\* The upsert: version and stamp are the caller's, the cursor stays.
Upsert(i, v, m) ==
    rows' = [rows EXCEPT ![i] = [version |-> v, modified |-> m, synced |-> @.synced]]

\* A capture or an edit, stamped as it is made.
Write(i) ==
    /\ Tick
    /\ Upsert(i, now + 1, now + 1)
    /\ Pardon(i)
    /\ UNCHANGED <<tombstones, linking, inbox, loop>>

\* The stamp is the caller's: an engram built from a MemoryEntry carries its
\* created_at, an edit prepared earlier the time it was prepared.
WriteBackdated(i) ==
    /\ "backdated" \in Faults
    /\ Tick
    /\ \E m \in 1..now : Upsert(i, now + 1, m)
    /\ Excuse({i})
    /\ UNCHANGED <<tombstones, linking, inbox, loop>>

\* Mutant: a deletion only blanks the row.
DeleteKeepingCursor(i) ==
    /\ Live(i) /\ i \notin tombstones
    /\ rows' = [rows EXCEPT ![i].version = 0]
    /\ tombstones' = tombstones \cup {i}
    /\ owed' = owed \cup {i} /\ Renew(i)
    /\ linking' = linking \ {i}
    /\ UNCHANGED <<now, inbox, loop, relay>>

\* Row and tombstone go in one transaction, which a pending tombstone of the
\* same id makes fail. A memory that is written again leaves that tombstone
\* where it is.
Delete(i) ==
    /\ Live(i) /\ i \notin tombstones
    /\ rows' = [rows EXCEPT ![i] = NoRow]
    /\ tombstones' = tombstones \cup {i}
    /\ owed' = owed \cup {i} /\ Renew(i)
    /\ linking' = linking \ {i}
    /\ UNCHANGED <<now, inbox, loop, relay>>

\* link adds to what a push carries of its source...
Link(i) ==
    /\ Live(i) /\ Tick
    /\ rows' = [rows EXCEPT ![i].version = now + 1]
    /\ linking' = linking \cup {i}
    /\ UNCHANGED <<tombstones, inbox, loop, accounts>>

\* ... and bumps it in a second statement.
LinkBump(i) ==
    /\ i \in linking /\ Tick
    /\ rows' = [rows EXCEPT ![i].modified = now + 1]
    /\ linking' = linking \ {i}
    /\ Pardon(i)
    /\ UNCHANGED <<tombstones, inbox, loop>>

LinkCut(i) ==
    /\ "cut" \in Faults /\ i \in linking
    /\ linking' = linking \ {i}
    /\ Excuse({i})
    /\ UNCHANGED <<now, device, inbox, loop>>

\* Opening the vault once more, after a restart or from another process,
\* runs the v6 block of migrate: a cursor that is NULL becomes the row's
\* modified_at. (What a restart takes from the loop's hands, Lose takes.)
Reopen ==
    /\ "reopen" \in Faults
    /\ rows' = [i \in Ids |-> IF Live(i) /\ rows[i].synced = Never
                              THEN [rows[i] EXCEPT !.synced = rows[i].modified]
                              ELSE rows[i]]
    /\ Excuse({i \in Ids : Live(i) /\ rows[i].synced = Never})
    /\ UNCHANGED <<now, tombstones, linking, inbox, loop>>

-----------------------------------------------------------------------------
(***************************************************************************)
(* The sync loop and the relay                                             *)
(***************************************************************************)

\* ORDER BY modified_at ASC LIMIT n.
OldestDue(S) ==
    /\ S \subseteq {i \in Ids : Due(i)}
    /\ \A i \in S, j \in Ids : Due(j) /\ rows[j].modified < rows[i].modified => j \in S
    /\ Cardinality(S) <= BatchLimit
    /\ Cardinality(S) < BatchLimit => \A i \in Ids : Due(i) => i \in S

Goto(step) == pc' = step

ListUnsynced ==
    /\ pc = "rows"
    /\ \E S \in SUBSET Ids :
         /\ OldestDue(S)
         /\ batch' = [i \in Ids |-> IF i \in S THEN [version |-> rows[i].version,
                                                     modified |-> rows[i].modified]
                                               ELSE NoEntry]
    /\ Goto("push")
    /\ UNCHANGED <<now, device, linking, inbox, deletions, accounts>>

Fresh(i) == inbox[i] = NoBlob

\* The relay accepts the fresh blobs of the request and refuses the others,
\* which stay due.
RelayAccepts ==
    /\ pc = "push"
    /\ relay' = [i \in Ids |-> IF InBatch(i) /\ Fresh(i) THEN batch[i].version ELSE relay[i]]
    /\ batch' = [i \in Ids |-> IF Fresh(i) THEN batch[i] ELSE NoEntry]
    /\ Goto("mark")
    /\ UNCHANGED <<now, device, linking, inbox, deletions, owed, excused, buried>>

NoBatch == batch' = [i \in Ids |-> NoEntry]

\* Mutants: the rows are stamped with the time of the answer; the stamp is
\* an upsert of the cursor.
MarkNow ==
    /\ pc = "mark"
    /\ rows' = [i \in Ids |-> IF InBatch(i) /\ Live(i)
                              THEN [rows[i] EXCEPT !.synced = now] ELSE rows[i]]
    /\ NoBatch /\ Goto("tombstones")
    /\ UNCHANGED <<now, tombstones, linking, inbox, deletions, accounts>>

MarkUpserting ==
    /\ pc = "mark"
    /\ rows' = [i \in Ids |-> IF InBatch(i)
                              THEN [rows[i] EXCEPT !.synced = batch[i].modified] ELSE rows[i]]
    /\ NoBatch /\ Goto("tombstones")
    /\ UNCHANGED <<now, tombstones, linking, inbox, deletions, accounts>>

\* mark_synced: each accepted row that still exists gets the modified_at
\* that was pushed.
MarkSynced ==
    /\ pc = "mark"
    /\ rows' = [i \in Ids |-> IF InBatch(i) /\ Live(i)
                              THEN [rows[i] EXCEPT !.synced = batch[i].modified] ELSE rows[i]]
    /\ NoBatch /\ Goto("tombstones")
    /\ UNCHANGED <<now, tombstones, linking, inbox, deletions, accounts>>

ListTombstones ==
    /\ pc = "tombstones"
    /\ deletions' = tombstones
    /\ Goto("push_deletions")
    /\ UNCHANGED <<now, device, linking, inbox, batch, accounts>>

\* A deletion is a blob like any other: what the relay held of the memory it
\* now deletes, a version that was pushed while the tombstone waited too.
RelayAcceptsDeletions ==
    /\ pc = "push_deletions"
    /\ deletions' = {i \in deletions : Fresh(i)}
    /\ relay' = [i \in Ids |-> IF i \in deletions' THEN 0 ELSE relay[i]]
    /\ owed' = owed \ deletions'
    /\ buried' = buried \cup {i \in deletions' : Live(i) /\ ~Due(i)}
    /\ Goto("clear")
    /\ UNCHANGED <<now, device, linking, inbox, batch, excused>>

\* Mutant: the table is emptied once the push has returned.
ClearAllTombstones ==
    /\ pc = "clear"
    /\ tombstones' = {} /\ deletions' = {}
    /\ Goto("pull")
    /\ UNCHANGED <<now, rows, linking, inbox, batch, accounts>>

ClearTombstones ==
    /\ pc = "clear"
    /\ tombstones' = tombstones \ deletions /\ deletions' = {}
    /\ Goto("pull")
    /\ UNCHANGED <<now, rows, linking, inbox, batch, accounts>>

\* The request or its answer is lost: the loop goes on, nothing is marked.
Lose ==
    /\ "lost" \in Faults
    /\ \/ pc \in {"push", "mark"} /\ Goto("tombstones")
       \/ pc \in {"push_deletions", "clear"} /\ Goto("pull")
    /\ NoBatch /\ deletions' = {}
    /\ UNCHANGED <<now, device, linking, inbox, accounts>>

\* A pulled memory is written with the other device's modified_at; a pulled
\* deletion leaves no tombstone.
Pull(i) ==
    /\ pc = "pull" /\ ~Fresh(i)
    /\ IF inbox[i].deleted THEN rows' = [rows EXCEPT ![i] = NoRow]
                           ELSE Upsert(i, inbox[i].version, inbox[i].modified)
    /\ inbox' = [inbox EXCEPT ![i] = NoBlob]
    /\ linking' = linking \ {i}
    /\ Pardon(i)
    /\ UNCHANGED <<now, tombstones, loop>>

PullDone ==
    /\ pc = "pull" /\ \A i \in Ids : Fresh(i)
    /\ Goto("rows")
    /\ UNCHANGED <<now, device, linking, inbox, batch, deletions, accounts>>

\* Another device pushes a version of a memory, stamped by its own clock, or
\* its deletion.
PeerPush(i) ==
    /\ Tick
    /\ \E m \in Times, gone \in BOOLEAN :
         /\ m <= now + 1
         /\ inbox' = [inbox EXCEPT ![i] = [version |-> now + 1, modified |-> m,
                                           deleted |-> gone]]
         /\ relay' = [relay EXCEPT ![i] = IF gone THEN 0 ELSE now + 1]
    /\ UNCHANGED <<device, linking, loop, owed, excused, buried>>

-----------------------------------------------------------------------------
User(i) ==
    \/ Write(i) \/ WriteBackdated(i) \/ Delete(i)
    \/ Link(i) \/ LinkBump(i) \/ LinkCut(i)
Loop ==
    \/ ListUnsynced \/ RelayAccepts \/ MarkSynced \/ ListTombstones
    \/ RelayAcceptsDeletions \/ ClearTombstones \/ PullDone \/ \E i \in Ids : Pull(i)

Next == (\E i \in Ids : User(i) \/ PeerPush(i)) \/ Reopen \/ Loop \/ Lose

Spec == Init /\ [][Next]_vars

\* The daemon keeps cycling, and does not lose every request it makes.
Fairness ==
    /\ WF_vars(Loop)
    /\ SF_vars(RelayAccepts) /\ SF_vars(MarkSynced)
    /\ SF_vars(RelayAcceptsDeletions) /\ SF_vars(ClearTombstones)

FairSpec == Spec /\ Fairness

-----------------------------------------------------------------------------
(***************************************************************************)
(* Properties                                                              *)
(***************************************************************************)

\* An edit is stranded when list_unsynced passes the memory over and the
\* relay does not hold its present version: nor is that a half-made link
\* that will bump the memory, nor has another device overwritten it by a
\* blob that is still to be pulled.
Stranded(i) ==
    /\ Live(i) /\ ~Due(i) /\ rows[i].version # relay[i]
    /\ i \notin linking /\ Fresh(i)

\* Nothing is stranded by edits, deletions, pulls, lost answers and pushes,
\* in any order, but for one: a memory deleted, written again and pushed
\* while its tombstone waits is deleted at the relay by that tombstone.
NothingStranded == \A i \in Ids : Stranded(i) => i \in buried

\* With every fault, only a cut link, a backdated write and a reopened vault
\* strand an edit besides.
OnlyKnownStrand == \A i \in Ids : Stranded(i) => i \in excused \cup buried

\* A local deletion stays queued until the relay has accepted it, whatever
\* is re-created, deleted, pulled or lost in the meantime.
DeletionsKept == owed \subseteq tombstones

\* The queues drain: what is due is accepted, superseded or deleted in the
\* end, though rejected rows come first in every batch until they are pulled.
QueuesDrain ==
    \A i \in Ids : (Due(i) ~> ~Due(i)) /\ (i \in tombstones ~> i \notin tombstones)

\* What the sync loop does to the vault it may do: the device is a vault as
\* MemoryVault describes it, with versions for contents.
MV == INSTANCE MemoryVault
        WITH Hashes <- Times, NoHash <- 0, announced <- tombstones,
             memories <- [i \in Ids |-> [hash |-> rows[i].version,
                            modified |-> rows[i].modified, synced |-> rows[i].synced]]
DeviceIsMemoryVault == MV!Spec

=============================================================================
