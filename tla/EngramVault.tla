---------------------------- MODULE EngramVault ----------------------------
(***************************************************************************)
(* The encrypted SQLite vault behind EngramStore (src/src/store.rs): the   *)
(* memory rows, the full-text index kept beside them by hand, the link and *)
(* embedding tables that reference them, the deletion tombstones and the   *)
(* sync cursor.                                                            *)
(*                                                                         *)
(* An EngramStore owns one SQLite connection behind a non-reentrant mutex, *)
(* so a connection runs one call at a time; but a vault directory may be   *)
(* open on several connections at once (WAL mode is switched on for that). *)
(* One action below is therefore what one connection does without another  *)
(* one being able to interleave: an autocommit statement or a transaction. *)
(* A call of several statements is a chain of actions through pc.          *)
(*                                                                         *)
(* Abstracted: the content of a memory is its normalised hash, and what a  *)
(* purge may ask about it (source, layer, project, creation time) is its   *)
(* kind. Strength, retrieval counters and tags are left out, so the places *)
(* where the code decides on them (what a consolidation prunes or          *)
(* promotes, which predecessor gets a temporal link, whether two vectors   *)
(* are close) are nondeterministic choices, and the calls that change      *)
(* nothing else (get with its touch, the searches, apply_daily_hygiene)    *)
(* are no actions.                                                         *)
(***************************************************************************)
EXTENDS Naturals, FiniteSets

CONSTANTS
    Ids,        \* memory ids
    Conns,      \* connections on this vault
    Hashes,     \* normalised content hashes
    Kinds,      \* what the columns purge's criteria read can hold
    NoId, NoHash, NoKind,
    Calls,      \* the calls the clients of this instance make
    Faults,     \* the failures they may meet, a subset of FaultKinds
    MaxTime,    \* bound: timestamps handed out
    MaxRowid,   \* bound: SQLite rowids
    MaxMetric,  \* bound: where each app_metrics counter saturates
    MaxLinks    \* bound: links one write adds

CallNames == {"capture", "curated", "delete", "apply_tombstone", "purge",
              "consolidate", "link", "embed", "backfill", "mark_synced",
              "reset_synced", "clear_tombstones", "record_tombstone", "close"}
FaultKinds == {"crash",     \* the process dies between two statements
               "statement", \* a statement or transaction returns an error
               "busy"}      \* the ignored FTS cleanup fails (.ok())

ASSUME NullAssumption == NoId \notin Ids /\ NoHash \notin Hashes /\ NoKind \notin Kinds
ASSUME SetsAssumption == Calls \subseteq CallNames /\ Faults \subseteq FaultKinds
ASSUME BoundAssumption == MaxTime \in Nat /\ MaxRowid \in Nat
                           /\ MaxMetric \in Nat /\ MaxLinks \in Nat

VARIABLES
    now,        \* the last timestamp handed out by the clock
    engrams,    \* table engrams: id -> row, NoRow where there is none
    fts,        \* table engrams_fts: set of [rowid, id]
    links,      \* table engram_links: set of <<source_id, target_id>>
    embeddings, \* table engram_embeddings: the ids that have a vector
    tombstones, \* table tombstones: the ids whose deletion is to be pushed
    metrics,    \* table app_metrics: gate -> count
    pc,         \* connection -> the statement its running call executes next
    arg,        \* connection -> the engram its call works on
    batch,      \* connection -> the kinds purge's WHERE clause matches, and
                \* the ids it collected
    todo,       \* connection -> links a backfill still has to insert
    interrupted \* history: ids whose last write died after its FTS cleanup

db == <<engrams, fts, links, embeddings, tombstones>>
local == <<pc, arg, batch, todo>>
vars == <<now, db, metrics, local, interrupted>>

Never == 0                \* synced_at IS NULL: before every timestamp
Times == 1..MaxTime
Gates == {"noise_skips", "dedup_saves", "similar_skips"}
NoRow == [rowid |-> 0, hash |-> NoHash, kind |-> NoKind, modified |-> 0, synced |-> Never]
Row == [rowid: 1..MaxRowid, hash: Hashes, kind: Kinds, modified: Times,
        synced: Never..MaxTime]
NoArg == [id |-> NoId, hash |-> NoHash, kind |-> NoKind, modified |-> 0,
          vector |-> FALSE, gated |-> FALSE]
Arg == [id: Ids \cup {NoId}, hash: Hashes \cup {NoHash}, kind: Kinds \cup {NoKind},
        modified: 0..MaxTime, vector: BOOLEAN, gated: BOOLEAN]
NoBatch == [where |-> {}, ids |-> {}]
PCs == {"closed", "idle", "matched", "count_dup", "count_similar", "similar",
        "index", "insert", "linked", "purge", "backfill"}

\* Every variable holds a value of the kind its table or call can hold.
TypeOK ==
    /\ now \in 0..MaxTime
    /\ engrams \in [Ids -> Row \cup {NoRow}]
    /\ fts \subseteq [rowid: 1..MaxRowid, id: Ids]
    /\ links \subseteq Ids \X Ids
    /\ embeddings \subseteq Ids
    /\ tombstones \subseteq Ids
    /\ metrics \in [Gates -> 0..MaxMetric]
    /\ pc \in [Conns -> PCs]
    /\ arg \in [Conns -> Arg]
    /\ batch \in [Conns -> [where: SUBSET Kinds, ids: SUBSET Ids]]
    /\ todo \in [Conns -> SUBSET (Ids \X Ids)]
    /\ interrupted \subseteq Ids

Live(i) == engrams[i].rowid # 0
LiveIds == {i \in Ids : Live(i)}
Indexed(i) == \E f \in fts : f.id = i /\ f.rowid = engrams[i].rowid
Unsynced(i) == Live(i) /\ engrams[i].modified > engrams[i].synced
FtsOf(S) == {f \in fts : f.id \in S}

(***************************************************************************)
(* A new row gets SQLite's next rowid: one more than the largest in use.   *)
(***************************************************************************)
NextRowid(r) ==
    /\ \A i \in Ids : engrams[i].rowid < r
    /\ r = 1 \/ \E i \in Ids : engrams[i].rowid = r - 1

Goto(c, step) == pc' = [pc EXCEPT ![c] = step]

\* The call returns to its caller; the connection's mutex is free again.
Return(c) ==
    /\ Goto(c, "idle")
    /\ arg' = [arg EXCEPT ![c] = NoArg]
    /\ batch' = [batch EXCEPT ![c] = NoBatch]
    /\ todo' = [todo EXCEPT ![c] = {}]

Called(c, name) == pc[c] = "idle" /\ name \in Calls

Stamp == now < MaxTime /\ now' = now + 1
Bump(gate) == metrics' = [metrics EXCEPT ![gate] = IF @ < MaxMetric THEN @ + 1 ELSE @]

Init ==
    /\ now = 0
    /\ engrams = [i \in Ids |-> NoRow]
    /\ fts = {} /\ links = {} /\ embeddings = {} /\ tombstones = {}
    /\ metrics = [g \in Gates |-> 0]
    /\ pc = [c \in Conns |-> "closed"]
    /\ arg = [c \in Conns |-> NoArg]
    /\ batch = [c \in Conns |-> NoBatch]
    /\ todo = [c \in Conns |-> {}]
    /\ interrupted = {}

-----------------------------------------------------------------------------
(***************************************************************************)
(* Opening and losing a connection                                         *)
(***************************************************************************)

\* finish_open on an up-to-date vault. Of migrate's ungated blocks only the
\* cursor backfill changes a row: v4's and v5's columns are never NULL here.
Open(c) ==
    /\ pc[c] = "closed"
    /\ engrams' = [i \in Ids |->
         IF Live(i) /\ engrams[i].synced = Never
         THEN [engrams[i] EXCEPT !.synced = engrams[i].modified]
         ELSE engrams[i]]
    /\ Goto(c, "idle")
    /\ UNCHANGED <<now, fts, links, embeddings, tombstones, metrics,
                   arg, batch, todo, interrupted>>

Close(c) ==
    /\ Called(c, "close")
    /\ Goto(c, "closed")
    /\ UNCHANGED <<now, db, metrics, arg, batch, todo, interrupted>>

\* A write that dies after its FTS cleanup leaves the row unindexed.
LoseIndex(c) ==
    interrupted' = interrupted \cup
        {i \in LiveIds : pc[c] = "insert" /\ arg[c].id = i /\ ~Indexed(i)}

Crash(c) ==
    /\ "crash" \in Faults
    /\ pc[c] \notin {"closed", "idle"}
    /\ LoseIndex(c)
    /\ pc' = [pc EXCEPT ![c] = "closed"]
    /\ arg' = [arg EXCEPT ![c] = NoArg]
    /\ batch' = [batch EXCEPT ![c] = NoBatch]
    /\ todo' = [todo EXCEPT ![c] = {}]
    /\ UNCHANGED <<now, db, metrics>>

\* The statement or transaction the call is at fails, rolls back, and the
\* call returns the error.
Fail(c) ==
    /\ "statement" \in Faults
    /\ pc[c] \notin {"closed", "idle"}
    /\ LoseIndex(c)
    /\ Return(c)
    /\ UNCHANGED <<now, db, metrics>>

-----------------------------------------------------------------------------
(***************************************************************************)
(* write_inner: the capture gates, then the store                          *)
(***************************************************************************)

\* The engram a caller hands in: its modified_at is the caller's own, taken
\* just now or at any earlier time (an edit prepared before, a pulled row).
Given(e) ==
    /\ e.id # NoId /\ e.hash # NoHash /\ e.kind # NoKind /\ e.modified \in 1..(now + 1)
    /\ now' = IF e.modified > now THEN e.modified ELSE now

Twins(e) == {i \in LiveIds : i # e.id /\ engrams[i].hash = e.hash}

\* B1: an episodic capture that is noise is only counted.
CaptureNoise(c) ==
    /\ Called(c, "capture")
    /\ Bump("noise_skips")
    /\ UNCHANGED <<now, db, local, interrupted>>

\* B2 finds another row with the same content hash.
CaptureTwin(c) ==
    /\ Called(c, "capture")
    /\ \E i \in Ids, h \in Hashes :
         \E twin \in Twins([id |-> i, hash |-> h]) :
            arg' = [arg EXCEPT ![c] = [NoArg EXCEPT !.id = twin]]
    /\ Goto(c, "matched")
    /\ UNCHANGED <<now, db, metrics, batch, todo, interrupted>>

\* Mutant: B2 is not consulted.
CaptureUnchecked(c) ==
    /\ Called(c, "capture")
    /\ \E e \in Arg :
         /\ Given(e) /\ e.gated
         /\ arg' = [arg EXCEPT ![c] = e]
         /\ Goto(c, IF e.vector THEN "similar" ELSE "index")
    /\ UNCHANGED <<db, metrics, batch, todo, interrupted>>

\* B2 finds none; B2b runs only for a capture that carries an embedding.
CaptureNew(c) ==
    /\ Called(c, "capture")
    /\ \E e \in Arg :
         /\ Given(e) /\ e.gated
         /\ Twins(e) = {}
         /\ arg' = [arg EXCEPT ![c] = e]
         /\ Goto(c, IF e.vector THEN "similar" ELSE "index")
    /\ UNCHANGED <<db, metrics, batch, todo, interrupted>>

\* Mutant: the stamp is an upsert, and brings a deleted row half back.
RestampUpsert(i) == engrams' = [engrams EXCEPT ![i].modified = now + 1]

\* Mutant: the stamp also marks the row as pushed.
RestampSynced(i) ==
    engrams' = [engrams EXCEPT ![i] =
                  IF Live(i) THEN [@ EXCEPT !.modified = now + 1, !.synced = now + 1] ELSE @]

Restamp(i) ==
    engrams' = [engrams EXCEPT ![i] =
                  IF Live(i) THEN [@ EXCEPT !.modified = now + 1] ELSE @]

\* The Duplicate branch strengthens the twin it found and stamps it.
Strengthen(c) ==
    /\ pc[c] = "matched"
    /\ Stamp
    /\ Restamp(arg[c].id)
    /\ Goto(c, "count_dup")
    /\ UNCHANGED <<fts, links, embeddings, tombstones, metrics,
                   arg, batch, todo, interrupted>>

\* The stored vectors a capture of i is compared with.
VectorsBut(i) == embeddings \ {i}

\* Mutant: the FTS cleanup is moved above B2b.
CleanBeforeGate(c) ==
    /\ pc[c] = "similar"
    /\ \/ VectorsBut(arg[c].id) # {} /\ Goto(c, "count_similar")
       \/ Goto(c, "index")
    /\ fts' = fts \ FtsOf({arg[c].id})
    /\ UNCHANGED <<now, engrams, links, embeddings, tombstones, metrics,
                   arg, batch, todo, interrupted>>

\* B2b: some other stored vector may be close enough.
CheckSimilar(c) ==
    /\ pc[c] = "similar"
    /\ \/ VectorsBut(arg[c].id) # {} /\ Goto(c, "count_similar")
       \/ Goto(c, "index")
    /\ UNCHANGED <<now, db, metrics, arg, batch, todo, interrupted>>

CountSkip(c) ==
    /\ \/ pc[c] = "count_dup" /\ Bump("dedup_saves")
       \/ pc[c] = "count_similar" /\ Bump("similar_skips")
    /\ Return(c)
    /\ UNCHANGED <<now, db, interrupted>>

\* write_curated skips every gate and carries no embedding.
WriteCurated(c) ==
    /\ Called(c, "curated")
    /\ \E e \in Arg :
         /\ Given(e) /\ ~e.gated /\ ~e.vector
         /\ arg' = [arg EXCEPT ![c] = e]
    /\ Goto(c, "index")
    /\ UNCHANGED <<db, metrics, batch, todo, interrupted>>

\* The old FTS entry goes in an autocommit statement of its own, before the
\* transaction begins, and an error of that statement is ignored.
DeleteFts(c) ==
    /\ pc[c] = "index"
    /\ \/ fts' = fts \ FtsOf({arg[c].id})
       \/ "busy" \in Faults /\ UNCHANGED fts
    /\ Goto(c, "insert")
    /\ UNCHANGED <<now, engrams, links, embeddings, tombstones, metrics,
                   arg, batch, todo, interrupted>>

RowidFor(i, r) == IF Live(i) THEN r = engrams[i].rowid ELSE NextRowid(r)
RowidTaken(i) == \E r \in 1..MaxRowid, f \in fts : RowidFor(i, r) /\ f.rowid = r

\* Temporal and associative links lead from the new row to older ones;
\* semantic ones join it with its neighbours both ways.
LinksFrom(i, T) == {i} \X T
SemanticLinks(i, T) == ({i} \X T) \cup (T \X {i})

\* The transaction: upsert (synced_at untouched), FTS entry at the row's
\* rowid, embedding, and the links: explicit ones to stored targets, semantic
\* ones if it carries a vector, temporal and associative ones.
CommitWrite(c) ==
    /\ pc[c] = "insert" /\ ~RowidTaken(arg[c].id)
    /\ \E r \in 1..MaxRowid :
         /\ RowidFor(arg[c].id, r)
         /\ engrams' = [engrams EXCEPT ![arg[c].id] =
                          [rowid |-> r, hash |-> arg[c].hash, kind |-> arg[c].kind,
                           modified |-> arg[c].modified, synced |-> @.synced]]
         /\ fts' = fts \cup {[rowid |-> r, id |-> arg[c].id]}
    /\ embeddings' = embeddings \cup (IF arg[c].vector THEN {arg[c].id} ELSE {})
    /\ \E out \in SUBSET (LiveIds \cup {arg[c].id}) :
         \E near \in SUBSET (out \cap VectorsBut(arg[c].id)) :
            /\ Cardinality(out) <= MaxLinks
            /\ ~arg[c].vector => near = {}
            /\ links' = links \cup LinksFrom(arg[c].id, out) \cup SemanticLinks(arg[c].id, near)
    /\ interrupted' = interrupted \ {arg[c].id}
    /\ Return(c)
    /\ UNCHANGED <<now, tombstones, metrics>>

\* FTS5 refuses a second entry at one rowid: the transaction rolls back.
RefuseWrite(c) ==
    /\ pc[c] = "insert" /\ RowidTaken(arg[c].id)
    /\ LoseIndex(c)
    /\ Return(c)
    /\ UNCHANGED <<now, db, metrics>>

-----------------------------------------------------------------------------
(***************************************************************************)
(* Deletions                                                               *)
(***************************************************************************)

\* ON DELETE CASCADE on links and embeddings.
Cascade(S) ==
    /\ links' = {l \in links : l[1] \notin S /\ l[2] \notin S}
    /\ embeddings' = embeddings \ S
    /\ interrupted' = interrupted \ S

\* Mutant: the row is blanked in place instead of deleted.
SoftDeleteRows(S) ==
    /\ engrams' = [i \in Ids |-> IF i \in S THEN [engrams[i] EXCEPT !.rowid = 0]
                                            ELSE engrams[i]]
    /\ Cascade(S)

\* DELETE FROM engrams.
DeleteRows(S) ==
    /\ engrams' = [i \in Ids |-> IF i \in S THEN NoRow ELSE engrams[i]]
    /\ Cascade(S)

\* tombstones.id is a primary key and the INSERT has no OR IGNORE: an id
\* whose tombstone is still pending makes the transaction fail.
InsertTombstones(S) ==
    /\ S \cap tombstones = {}
    /\ tombstones' = tombstones \cup S

\* Mutants: the index entry stays; no tombstone is written.
DeleteRowOnly(c, i) ==
    /\ Called(c, "delete") /\ Live(i)
    /\ DeleteRows({i})
    /\ InsertTombstones({i})
    /\ UNCHANGED <<now, fts, metrics, local>>

DeleteSilently(c, i) ==
    /\ Called(c, "delete") /\ Live(i)
    /\ fts' = fts \ FtsOf({i})
    /\ DeleteRows({i})
    /\ UNCHANGED <<now, tombstones, metrics, local>>

\* delete: one transaction. A missing row (NotFound) or a tombstone
\* conflict rolls it back and changes nothing.
Delete(c, i) ==
    /\ Called(c, "delete") /\ Live(i)
    /\ fts' = fts \ FtsOf({i})
    /\ DeleteRows({i})
    /\ InsertTombstones({i})
    /\ UNCHANGED <<now, metrics, local>>

\* Mutant: the index entry stays.
ApplyTombstoneRowOnly(c, i) ==
    /\ Called(c, "apply_tombstone") /\ Live(i)
    /\ DeleteRows({i})
    /\ UNCHANGED <<now, fts, tombstones, metrics, local>>

\* delete_without_tombstone: a remote deletion is applied.
ApplyTombstone(c, i) ==
    /\ Called(c, "apply_tombstone") /\ Live(i)
    /\ fts' = fts \ FtsOf({i})
    /\ DeleteRows({i})
    /\ UNCHANGED <<now, tombstones, metrics, local>>

\* The rows a WHERE clause matches now.
Matching(W) == {i \in LiveIds : engrams[i].kind \in W}

\* Mutant: the SELECT collects every id, whatever the criteria.
PurgeSelectAll(c) ==
    /\ Called(c, "purge")
    /\ \E W \in SUBSET Kinds \ {{}} :
         batch' = [batch EXCEPT ![c] = [where |-> W, ids |-> LiveIds]]
    /\ Goto(c, "purge")
    /\ UNCHANGED <<now, db, metrics, arg, todo, interrupted>>

\* purge_by_criteria collects the matching ids before its transaction.
PurgeSelect(c) ==
    /\ Called(c, "purge")
    /\ \E W \in SUBSET Kinds \ {{}} :
         batch' = [batch EXCEPT ![c] = [where |-> W, ids |-> Matching(W)]]
    /\ Goto(c, "purge")
    /\ UNCHANGED <<now, db, metrics, arg, todo, interrupted>>

\* Mutant: the index entries of the purged rows stay.
PurgeRowsOnly(c) ==
    /\ pc[c] = "purge"
    /\ DeleteRows(Matching(batch[c].where))
    /\ InsertTombstones(batch[c].ids)
    /\ Return(c)
    /\ UNCHANGED <<now, fts, metrics>>

\* The transaction cleans the index and writes tombstones for the collected
\* ids, but deletes whatever the WHERE clause matches by now: on another
\* connection a row may have come, gone, or been edited into or out of it.
PurgeCommit(c) ==
    /\ pc[c] = "purge"
    /\ fts' = fts \ FtsOf(batch[c].ids)
    /\ DeleteRows(Matching(batch[c].where))
    /\ InsertTombstones(batch[c].ids)
    /\ Return(c)
    /\ UNCHANGED <<now, metrics>>

PurgeConflict(c) ==
    /\ pc[c] = "purge" /\ batch[c].ids \cap tombstones # {}
    /\ Return(c)
    /\ UNCHANGED <<now, db, metrics, interrupted>>

\* apply_weekly_consolidation, in one transaction: rows often retrieved change
\* their layer and source, the faded imagined ones go.
Consolidate(c) ==
    /\ Called(c, "consolidate")
    /\ \E S \in SUBSET LiveIds : \E to \in [LiveIds \ S -> Kinds] :
         /\ engrams' = [i \in Ids |-> IF i \in LiveIds \ S
                                     THEN [engrams[i] EXCEPT !.kind = to[i]] ELSE NoRow]
         /\ Cascade(S)
         /\ fts' = fts \ FtsOf(S)
         /\ InsertTombstones(S)
    /\ UNCHANGED <<now, metrics, local>>

-----------------------------------------------------------------------------
(***************************************************************************)
(* Links, embeddings and the sync cursor                                   *)
(***************************************************************************)

\* link: the link row (foreign keys refuse a dangling one), and then, in a
\* statement of its own, the bump that makes the source propagate.
Link(c) ==
    /\ Called(c, "link")
    /\ \E i, j \in LiveIds :
         /\ links' = links \cup {<<i, j>>}
         /\ arg' = [arg EXCEPT ![c] = [NoArg EXCEPT !.id = i]]
    /\ Goto(c, "linked")
    /\ UNCHANGED <<now, engrams, fts, embeddings, tombstones, metrics,
                   batch, todo, interrupted>>

LinkBump(c) ==
    /\ pc[c] = "linked"
    /\ Stamp
    /\ Restamp(arg[c].id)
    /\ Return(c)
    /\ UNCHANGED <<fts, links, embeddings, tombstones, metrics, interrupted>>

StoreEmbedding(c, i) ==
    /\ Called(c, "embed") /\ Live(i)
    /\ embeddings' = embeddings \cup {i}
    /\ UNCHANGED <<now, engrams, fts, links, tombstones, metrics, local, interrupted>>

\* backfill_semantic_links reads all the vectors, then inserts link by link.
BackfillSelect(c) ==
    /\ Called(c, "backfill")
    /\ \E P \in SUBSET {p \in embeddings \X embeddings : p[1] # p[2]} \ {{}} :
         todo' = [todo EXCEPT ![c] = P]
    /\ Goto(c, "backfill")
    /\ UNCHANGED <<now, db, metrics, arg, batch, interrupted>>

\* Mutant: foreign keys are off on this connection.
BackfillUnchecked(c) ==
    /\ pc[c] = "backfill"
    /\ \E p \in todo[c] :
         /\ links' = links \cup {p}
         /\ IF todo[c] = {p}
            THEN Return(c)
            ELSE /\ todo' = [todo EXCEPT ![c] = @ \ {p}]
                 /\ UNCHANGED <<pc, arg, batch>>
    /\ UNCHANGED <<now, engrams, fts, embeddings, tombstones, metrics, interrupted>>

BackfillInsert(c) ==
    /\ pc[c] = "backfill"
    /\ \E p \in todo[c] :
         /\ Live(p[1]) /\ Live(p[2])
         /\ links' = links \cup {p}
         /\ IF todo[c] = {p}
            THEN Return(c)
            ELSE /\ todo' = [todo EXCEPT ![c] = @ \ {p}]
                 /\ UNCHANGED <<pc, arg, batch>>
    /\ UNCHANGED <<now, engrams, fts, embeddings, tombstones, metrics, interrupted>>

\* A row the plan names was deleted meanwhile: the insert breaks its
\* foreign key and the backfill ends there with an error.
BackfillRefused(c) ==
    /\ pc[c] = "backfill"
    /\ \E p \in todo[c] : ~Live(p[1]) \/ ~Live(p[2])
    /\ Return(c)
    /\ UNCHANGED <<now, db, metrics, interrupted>>

\* mark_synced stamps each accepted row with the modified_at that was pushed.
MarkSynced(c) ==
    /\ Called(c, "mark_synced")
    /\ \E S \in SUBSET Ids : \E pushed \in [S -> 1..now] :
         engrams' = [i \in Ids |-> IF i \in S /\ Live(i)
                                   THEN [engrams[i] EXCEPT !.synced = pushed[i]]
                                   ELSE engrams[i]]
    /\ UNCHANGED <<now, fts, links, embeddings, tombstones, metrics, local, interrupted>>

ResetSynced(c) ==
    /\ Called(c, "reset_synced")
    /\ engrams' = [i \in Ids |-> [engrams[i] EXCEPT !.synced = Never]]
    /\ UNCHANGED <<now, fts, links, embeddings, tombstones, metrics, local, interrupted>>

ClearTombstones(c) ==
    /\ Called(c, "clear_tombstones")
    /\ \E S \in SUBSET tombstones : tombstones' = tombstones \ S
    /\ UNCHANGED <<now, engrams, fts, links, embeddings, metrics, local, interrupted>>

RecordTombstone(c, i) ==
    /\ Called(c, "record_tombstone")
    /\ tombstones' = tombstones \cup {i}
    /\ UNCHANGED <<now, engrams, fts, links, embeddings, metrics, local, interrupted>>

-----------------------------------------------------------------------------
Connection(c) == Open(c) \/ Close(c) \/ Crash(c) \/ Fail(c)
Write(c) ==
    \/ CaptureNoise(c) \/ CaptureTwin(c) \/ CaptureNew(c) \/ Strengthen(c)
    \/ CheckSimilar(c) \/ CountSkip(c) \/ WriteCurated(c) \/ DeleteFts(c)
    \/ CommitWrite(c) \/ RefuseWrite(c)
Removal(c) ==
    \/ \E i \in Ids : Delete(c, i) \/ ApplyTombstone(c, i)
    \/ PurgeSelect(c) \/ PurgeCommit(c) \/ PurgeConflict(c) \/ Consolidate(c)
Linking(c) ==
    \/ Link(c) \/ LinkBump(c) \/ BackfillSelect(c) \/ BackfillInsert(c)
    \/ BackfillRefused(c) \/ \E i \in Ids : StoreEmbedding(c, i)
Cursor(c) ==
    \/ MarkSynced(c) \/ ResetSynced(c) \/ ClearTombstones(c)
    \/ \E i \in Ids : RecordTombstone(c, i)

Next == \E c \in Conns : Connection(c) \/ Write(c) \/ Removal(c) \/ Linking(c) \/ Cursor(c)

Spec == Init /\ [][Next]_vars

-----------------------------------------------------------------------------
(***************************************************************************)
(* Properties                                                              *)
(***************************************************************************)

\* Full-text search never shows a ghost: every index entry belongs to a row
\* that exists, and sits at that row's rowid.
IndexSound == \A f \in fts : Live(f.id) /\ engrams[f.id].rowid = f.rowid

\* A memory is searchable, unless a write of it is between its FTS cleanup
\* and its transaction, or the last such write died in between.
IndexComplete ==
    \A i \in LiveIds : \/ Indexed(i) \/ i \in interrupted
                       \/ \E c \in Conns : pc[c] = "insert" /\ arg[c].id = i

\* SQLite's next rowid is free in the index, so a new memory always fits:
\* rowids are reused, and a ghost entry at one would block every capture.
NewRowFits == \A i \in Ids : ~Live(i) => ~RowidTaken(i)

\* Links and vectors reference existing memories, whatever was deleted
\* between a backfill's reads and its inserts.
ReferencesLive == links \subseteq LiveIds \X LiveIds /\ embeddings \subseteq LiveIds

\* Whatever removes a memory writes its tombstone in the same step, except
\* where a remote deletion is being applied.
DeletionsAnnounced ==
    [][\A i \in Ids : Live(i) /\ ~Live(i)' =>
          i \in tombstones' \/ \E c \in Conns : ApplyTombstone(c, i)]_vars

\* A gated capture is only stored if no other memory has its content when
\* it is committed: the check of B2 is still good by then.
DedupeHolds ==
    [][\A c \in Conns : (pc[c] = "insert" /\ arg[c].gated /\ CommitWrite(c))
          => Twins(arg[c]) = {}]_vars

(***************************************************************************)
(* The vault its clients see: rows without rowids, and the tombstones.     *)
(***************************************************************************)
Memories == [i \in Ids |-> [hash |-> engrams[i].hash, modified |-> engrams[i].modified,
                            synced |-> engrams[i].synced]]
MV == INSTANCE MemoryVault WITH memories <- Memories, announced <- tombstones

\* Statement by statement, the store implements the one-step vault.
ImplementsMemoryVault == MV!Spec

=============================================================================
