# Verification of the engram vault

TLA+ models of `engram-format` (`src/src/*.rs`): an encrypted SQLite vault of
memories ("engrams") with a full-text index, links, embeddings, deletion
tombstones and a per-row sync cursor, and an in-process cache (QEM) in front of
it.  TLC checks the models on small instances; TLAPS proves the most important
theorems for every value of the constants.

## 1. The system

| Part | Source | State it keeps | Operations |
|---|---|---|---|
| EngramStore | `store.rs` | one SQLite connection behind a `tokio::sync::Mutex`; the tables `engrams`, `engrams_fts`, `engram_links`, `engram_embeddings`, `tombstones`, `access_events`, `app_metrics`, and more | `write`, `write_with_embedding`, `write_curated`, `get`, `delete`, `delete_without_tombstone`, `purge_by_criteria`, `apply_daily_hygiene`, `apply_weekly_consolidation`, `link`, `store_embedding`, `backfill_semantic_links`, `list_unsynced`, `mark_synced`, `reset_synced`, `list_tombstones`, `clear_tombstones`, `record_tombstone`, `record_access`, `digest_window`, the searches |
| Opening, keys, salt | `store.rs` | salt file, database file, legacy keys | `open*`, `finish_open`, `create_per_vault_salt`, rekeying |
| Schema, migrations | `schema.rs` | `user_version`, the tables' shapes | `create_tables`, `migrate` |
| QemCache | `qem.rs` | `by_code`, `associations`, `novelty`, hit counters, each under its own `RwLock` | `capture`, `populate_l1`, `link`, `evict_by_id`, `warm`, `consolidate`, lookups |
| QEM codes, novelty | `qem.rs` | a ring of recent codes | encode, observe |
| MemoryBackend, adapter | `trait.rs`, `adapter.rs` | `Arc<Mutex<EngramStore>>` | capture, search, link, consolidate on the store |
| Recall | `store.rs` | none | searches, ranking, quarantine filter |
| Noise, normalisation | `noise.rs` | none | `is_noise`, `normalized_hash`, `normalize_tags` |
| Types | `entry.rs`, `engram.rs` | none | conversions |
| Embedder | `embed.rs` | lazily loaded model, last failure | `embed` |
| Sync wire types | `sync.rs` | none; relay and daemon are elsewhere | the requests and answers of a push and a pull |
| wasm, crate root | `wasm.rs`, `lib.rs` | none | - |

How they interact.  A caller uses `EngramStore` directly, or through the adapter
as the `MemoryBackend` (L2) behind a `QemCache` (L1).  Each call of the store
locks the connection's mutex, so one connection runs one call at a time; but a
vault directory may be open on several connections at once (WAL mode is switched
on for that), and a sync daemon is a second caller.  A call is a sequence of
autocommit statements and transactions; between two of them another connection
may run, the process may die, or a statement may fail.  In the cache, tasks of
one process interleave wherever no lock is held.

What makes each part correct, and what makes it hard:

- *Store*: the index is kept beside the table by hand (no triggers), so every
  path that adds or removes a row has to touch both; rowids are reused, so an
  index entry left behind blocks the next capture; each local deletion must
  leave a tombstone or a replica resurrects the memory; a cursor must move only
  for what was pushed; links and vectors must never dangle; a dedupe check must
  still be good when its capture commits.
- *Sync*: a push, its answer, edits, deletions, pulls and reopening interleave;
  a row is due by comparing two of its columns, so every path that writes one of
  them can strand an edit or push it for ever; tombstones are cleared by id.
- *Recall*: every surface builds its own query, and each must keep what is
  quarantined out; `search_related` takes the lock twice, a listing once per page;
  links come from callers and from two heuristics that write over each other.
- *Lifecycle*: callers edit copies they read earlier, days later perhaps, while
  hygiene and consolidation decide by the very columns those copies carry.
- *Migrations*: a crash between two blocks must leave a vault the next open
  still completes, though the version stamp has run ahead of the shape; the table
  swaps renumber the rows the index and the links point to.
- *Opening*: salt, key and database change in several files, in an order a crash
  may cut anywhere.
- *Cache*: three locks nested in one order, one of them let go in the middle of
  `evict_by_id`; associations that name codes the table no longer has; two
  capacity limits.

`PROJECT.json` lists the hazards one by one, each at its line, with the
properties that cover it or the reason none does yet.

## 2. The modules

| Module | What it is |
|---|---|
| `MemoryVault` | the abstract vault: a map from ids to memories in which every call is one step, and the deletions still to be announced |
| `EngramVault` | the store, statement by statement, on several connections |
| `MCEngramVault` | its TLC instances (symmetry only) |
| `EngramVaultProofs` | type correctness and the safety properties of the store; rowids and index |
| `EngramVaultRefinement` | `EngramVault` implements `MemoryVault` |
| `VaultSync` | one device between its users, the sync loop, the relay and other devices |
| `MCVaultSync` | its TLC instances (symmetry only) |
| `VaultSyncProofs` | type correctness, the safety properties, and that the device implements `MemoryVault` |
| `MemoryRecall` | what the reads show of a vault that changes under them, and the links the writes infer |
| `MCMemoryRecall` | its TLC instances (workloads, similarity, symmetry) |
| `MemoryRecallProofs` | type correctness and the properties of searches, links and listings |
| `MemoryLifecycle` | ageing: reads, copies, hygiene, consolidation, digest; the access ledger |
| `MCMemoryLifecycle` | its TLC instances (workloads, symmetry) |
| `MemoryLifecycleProofs` | type correctness and the safety properties of the lifecycle |
| `SchemaMigration` | a vault of any age brought to the current schema, block by block |
| `MCSchemaMigration` | its TLC instances (the version ranges, symmetry) |
| `SchemaMigrationProofs` | type correctness and the safety properties of the migration; the version a vault claims |
| `VaultOpen` | keys, salt file and rekeying when a vault is opened |
| `MCVaultOpen` | its TLC instance (symmetry only) |
| `VaultOpenProofs` | type correctness and the safety properties of opening |
| `QemCache` | the L1 cache, its locks and its tasks |
| `MCQemCache` | its TLC instances |
| `QemCacheProofs` | type correctness and the safety properties of the cache; no deadlock |

### EngramVault

One action is what a connection does without another connection being able to
come in between: one autocommit statement or one transaction.  `pc[c]` says which
statement the running call of connection `c` executes next, `arg[c]`, `batch[c]`
and `todo[c]` are its local variables.

| Code | Actions |
|---|---|
| `finish_open`/`migrate` on a current vault | `Open` (the v6 block sets `synced_at` where it is NULL) |
| store dropped; process dies; statement fails | `Close`; `Crash`; `Fail` |
| `write_inner` B1 | `CaptureNoise` |
| B2 | `CaptureTwin`, `Strengthen`, `CountSkip`; `CaptureNew` where it finds none |
| B2b | `CheckSimilar`, `CountSkip` |
| `write_curated` | `WriteCurated` |
| index cleanup before the transaction | `DeleteFts` |
| the transaction: upsert, index entry, embedding, links | `CommitWrite`; `RefuseWrite` where the rowid is taken in the index |
| `delete`, `delete_without_tombstone` | `Delete`, `ApplyTombstone` |
| `purge_by_criteria` | `PurgeSelect`, then `PurgeCommit` or `PurgeConflict` |
| `apply_weekly_consolidation` (promote, prune) | `Consolidate` |
| `link` | `Link`, `LinkBump` |
| `store_embedding`, `backfill_semantic_links` | `StoreEmbedding`; `BackfillSelect`, `BackfillInsert`, `BackfillRefused` |
| `mark_synced`, `reset_synced`, `clear_tombstones`, `record_tombstone` | the actions of those names |

Abstractions.  Content is its normalised hash.  What a purge's criteria read of a
row (source, layer, project, creation time) is its kind; a WHERE clause is a set
of kinds, and it is evaluated twice, as in the code: by the SELECT before the
transaction and by the DELETE inside it, where rows may have come, gone, or been
edited (or promoted) into or out of it.  Strength, retrieval counts and tags are
left out; where the code decides on them (noise or not, similar enough or not,
which rows fade, which predecessor gets a temporal link) the model chooses.
Timestamps are numbers; a caller's `modified_at` is its own, now or earlier.
`interrupted` is a history variable: the ids whose last write died or failed
between its index cleanup and its commit.  The locals are reset when a call
returns, because Rust drops them.

SQLite (rowid allocation without AUTOINCREMENT, foreign keys with cascade, FTS5
refusing a second entry at one rowid, transactions, busy errors) is external and
modelled as far as the code relies on it.

How the modules meet.  `MemoryVault` is the hinge: `EngramVault` implements it
statement by statement, and `VaultSync` uses the same calls in the order a sync
loop makes them and implements it again (`DeviceIsMemoryVault`, with the tick of
a memory's last change for its content).  So the loop does nothing to a vault
that the calls of the store do not do, although the two models share no variable.
`MemoryRecall` and `MemoryLifecycle` look at columns `EngramVault` leaves out
(links and status; counters, strength and layer) and take each committed call as
one step, which the refinement justifies.  `VaultOpen` ends where the connection is keyed,
`SchemaMigration` begins there (`finish_open`) and ends where `EngramVault`'s `Open`
begins: with a complete, current schema.  `OpenIsKeyed`, `OpenIsComplete` and
`IndexFollowsRows` are what each hands to the next; `IndexFollowsRows` is the
initial condition of `IndexSound` and `IndexComplete`.

### VaultSync

A write takes the next tick of a clock; `rows[i]` is the version a push would
carry, `modified_at` and `synced_at`.  The daemon, the relay and the other devices
are outside this repository: the loop is what the store's calls and their
comments ask for (list what is due, push, mark what was accepted with the
`modified_at` that was pushed; the same for tombstones; apply what was pulled).
The relay refuses a blob whose vector clock is stale, so what it refuses is
exactly what another device has written since the last pull: an id with a blob
in `inbox`.

| Code | Actions |
|---|---|
| `write_inner`/`write_curated` (upsert, cursor kept) | `Write`; `WriteBackdated` where the caller's `modified_at` is older |
| `delete` | `Delete` |
| `link`: insert, then bump; the process dies between | `Link`, `LinkBump`; `LinkCut` |
| the v6 block of `migrate` on a later open | `Reopen` |
| `list_unsynced`, the push's answer, `mark_synced` | `ListUnsynced`, `RelayAccepts`, `MarkSynced` |
| `list_tombstones`, the push's answer, `clear_tombstones` | `ListTombstones`, `RelayAcceptsDeletions`, `ClearTombstones` |
| a request or an answer is lost | `Lose` |
| a pulled memory, a pulled deletion (`delete_without_tombstone`) | `Pull`; `PullDone` |
| another device | `PeerPush` |

`relay` is the version the relay holds of each memory now: a push or a peer
replaces it, an accepted deletion takes it away, whatever version it meant.  `owed`
(local deletions the relay has not accepted), `excused` (ids whose present version
a named fault kept back) and `buried` (ids whose present version the relay gave up
for a tombstone of an earlier life) are history variables.

### MemoryRecall

A memory is absent, live or quarantined (imagined and not grounded).  What
matches a query and how it is ranked are choices; so is who shares a tag with
whom.  `Near` says whose vectors are similar enough.

| Code | Actions |
|---|---|
| `write_inner`'s transaction: explicit links, `generate_semantic_links`, `generate_links` | `Write` (`With`, `Semantic`, `FillGaps`) |
| `link`, `delete`, `store_embedding`, `backfill_semantic_links` | `Link`, `Delete`, `Embed`, `Backfill` |
| `search_related`: `get_links` under one lock, the rest under the next | `ReadLinks`, `Answer` |
| `list` with LIMIT and OFFSET, called again for each page | `StartList`, `NextPage` |
| `search_by_layer`, `search_by_content` (and its LIKE fallback), `search_by_tags`, `vector_search`, `surface_relevant`, `find_near_duplicates`, `find_stale_state`, `MemoryBackend::search` of store and adapter | `Search`, one disjunct each |

`shown` is the answer of the last step; `asked` is a `search_related` between its
locks, `paging` a listing under way with what has left and entered it meanwhile.
An upsert writes the caller's `created_at`, so an edit may date a memory anew: for a
listing it has then left and entered.

### MemoryLifecycle

Time is counted in days.  Strength is a level: 0 is what consolidation prunes
(below 0.05), `Top` is the cap; a decay may take any number of levels, because its
formula is floating-point data.

| Code | Actions |
|---|---|
| `write_inner`; B2's strengthening | `Capture`; `CaptureAgain` |
| a pulled or imported memory, counters and layer as it brings them | `Import` |
| `get` (reads, touches, returns what it read) | `Get` |
| `write_curated` of a copy | `Edit` |
| `delete` | `Delete` |
| `apply_daily_hygiene`, `apply_weekly_consolidation` | `Hygiene`, `Consolidate` |
| `record_access`, `record_access_batch`: lock, take the time; insert; fail | `Stamp`; `Insert`; `GiveUp` |
| `list_access_events_since` | `Poll` |
| `digest_window` | `New`, `Reinforced`, `Fading` |
| a day passes | `NextDay` |

The time of an access event is taken with the connection's mutex held but before
SQLite grants its write lock, hence the two steps: `stamping[w]` is what connection
`w` is about to insert, and another connection may insert first.  `clock` counts the
timestamps given out; no two are equal.

`reads`, `lastUse`, `foreign`, `neglected` and `undone` are history variables; an
imported memory brings its earlier reads and its neglect with it.  `EngramVault`
models the same consolidation with index and tombstones.

### SchemaMigration

One action per block of `migrate`: each block is one transaction that stamps
`user_version`.  `version`, `columns`, `sources` (the CHECK on `source`), `triggers`
and the tables are the file; `pc[o]` is the block opener `o` executes next and
`seen[o]` the version it has read, once, at the beginning.

| Code | Actions |
|---|---|
| a vault of each earlier release; a fresh directory | `Init` (`Old(v)`, `Fresh`) |
| `create_tables` | `CreateTables` |
| `PRAGMA user_version` | `ReadVersion` |
| `if version < n` false for v1, v2, v3, v7 | `Skip` |
| v1, v2, v3 | `AddColumns`, `DropTriggers`, `RecreateV3` |
| v4, v5, v6 (run on every open) | `EnsureHash`, `EnsureModified`, `EnsureSynced` |
| v7 | `RecreateV7` |
| `PRAGMA foreign_keys` OFF before the swaps of v3 and v7, and back ON after them | `ForeignKeysOff`, `ForeignKeysBack` |
| v8 and v9; v10 | `EnsureTables`; `EnsureAgent` |
| a statement fails, the process dies | `Abandon` |
| a write, a link, a deletion on the open vault; the store dropped | `Store`, `Link`, `Delete`; `Close` |

A failing statement leaves the transaction open on a connection that is then
dropped, which rolls it back, so failure and crash are the same step.  The block
v5 to v6 order matters (v6 copies what v5 fills), hence the guards on `columns`.
`Exclusive` says that no process enters `migrate` while another one is in it.

`keys[o]` says whether opener `o`'s connection enforces foreign keys, what it had
before the swap (`fk_was_on`) and how far the swap is.  Whatever deletes rows of
`engrams`, the `DROP TABLE` of a swap or a deletion, goes through `Cascade`, which
takes the links of those rows if keys are enforced and leaves them if not.

### VaultOpen

A key is the record of what goes into its derivation, so two keys are equal only
if derivation, passphrase and salt are.

| Code | Actions |
|---|---|
| `open`, `open_with_passphrase`, `db_path.exists()` | `Begin` |
| `create_per_vault_salt`: test, create the file, fill it | `FindSalt`, `WriteSalt`, `FillSalt` |
| `derive_passphrase_key` with the file as it is now | `Derive` |
| `Connection::open` and `PRAGMA key` on a new vault | `Create` |
| `try_key` | `TryFits`, `TryNext` |
| `PRAGMA rekey` | `Rekey` |
| `finish_open` | `FirstWrite`, `Opened` |
| an error, the process dies, the store is dropped | `Leave` |

`fs::write` creates the file and then fills it, so it is two steps, and each may
fail; the code goes on with what there is.  A new SQLite file is empty until the
first write and opens with any key.  `owners` is a history variable: the
credentials with which the vault has been opened.  The machine id is fixed: what
happens to a vault whose machine id changes is outside the model.

### QemCache

`novelty` and `by_code` are locks held from one action to the next (`novelty`,
`writer`, `readers`); `associations` is only ever the innermost lock, so what
happens under it is one action.  Codes are model values, and two contents may
have the same code, as in the 32-bit `QemCode`.  Strength is left out, so the
entry that is weakest is a choice; associations are a set, so the oldest one is a
choice.  The novelty verdict is ignored by `capture` and is left out.  The
backend returns `Ok` for a capture it merely counted (noise, duplicate), hence
`CaptureL2` may leave `stored` as it was.

## 3. What the runs check

| Run | Instance | Shows |
|---|---|---|
| `vault_pair` | 2 ids, 2 connections; capture, delete, consolidate, link, embed, backfill, close; crashes, a failing index cleanup | the index shows no ghost (`IndexSound`), loses no live memory unnoticed (`IndexComplete`), a new row's rowid is free in it (`NewRowFits`); links and vectors never dangle (`ReferencesLive`); deletions are announced; the store implements `MemoryVault` |
| `vault_single` | 2 ids, 1 connection, 2 kinds, purge, curated writes, remote deletions and every cursor call; crashes, failing statements | index, dedupe gate (`DedupeHolds`) and refinement with every call included |
| `vault_purge_race` | 2 connections, 2 kinds, purge and deletion | *violation* of `DeletionsAnnounced` |
| `sync` | 2 ids, batches of 1, 3 ticks, every fault, fair | only a cut link, a backdated write, a reopened vault, or the pending tombstone of an earlier life strands an edit (`OnlyKnownStrand`), no deletion is forgotten (`DeletionsKept`), both queues drain (`QueuesDrain`), the device is a `MemoryVault` |
| `sync_reopen` | 2 ids, 2 ticks, reopening only | *violation* of `NothingStranded` |
| `recall` | 3 ids, pages, limits and neighbours of 1, 3 dates, 2 links; three workloads | pages add up (`PagesAddUp`), heuristics overwrite no given link (`GivenLinksKept`), `search_related` answers from the present (`RelatedCurrent`) |
| `recall_related` | 2 ids, links and vectors | *violation* of `LiveSurface` |
| `lifecycle` | 1 id, 2 callers, promotion at 2 reads, cap 1, 3 days; three workloads; 1 recording connection, 6 events, answers of 2 | counters are backed by reads (`RetrievalsBacked`), only neglected memories are pruned (`PrunedWereNeglected`), the digest counts each live memory once (`DigestPartitions`), the access cursor skips nothing (`CursorSkipsNothing`) |
| `qem` | 2 tasks, 2 ids, 3 codes, room for 2 entries and 1 association, fair | associations never outlive their entries unnoticed (`AssociationsBacked`), both limits hold (`WithinLimits`), every call returns (`CallsReturn`) |
| `migrate` | vaults of versions 0 to 10 and a fresh one, 2 ids, 2 openers, rowids to 3; cut short between any two blocks | what can be opened is complete (`OpenIsComplete`), the index follows the renumbered rows (`IndexFollowsRows`), neither memories, stamps, cursors, agents (`MemoriesPreserved`) nor links (`LinksKept`) are lost, and no link is left without an end (`LinksHaveEnds`) |
| `migrate_crash` | versions below 7, 1 opener | *violation* of `VersionHonest` |
| `vault_open` | 2 passphrases, 2 salts, 2 openers, vaults of every key kind | whoever has opened a vault can open it again (`OwnersReopen`), an open connection holds a current key (`OpenIsKeyed`), a machine-keyed vault stays so (`MachineKeyKept`) |

The largest instances have about a million distinct states each; no run takes
more than a few minutes.

Why the bounds are enough.  Every hazard of the vault is about one or two
memories (a row and the row that reuses its rowid, a twin, the two ends of a
link) and one or two connections (one that is in the middle of a call, one that
runs in between); two timestamps give an edit before and an edit after, two
rowids give the reuse of the last one, two kinds a row that matches a purge and
one that does not, hence an edit in each direction.  One hash suffices where twins
matter: all ids then have equal content unless a write is curated.  `MaxLinks = 0`
where no property reads links.

In `sync`, a batch of one makes the order of the queue matter, a second id is the
one kept waiting, and three ticks give an edit, an edit during its push, and
another device's.  In `recall`, limits of one make every cut matter, a third
memory is what fills a page or takes a place; a workload is the set of calls the
clients of one vault make, so that listings do not multiply links.  In
`lifecycle` no row's life depends on another's: one id with two callers that hold
copies of it shows every interleaving, and the theorems cover any number.  Three
days are a use, the day after, and a day of neglect.  Of the ledger, three events
make an answer of two a full one.

In the cache three codes exceed `max_entries = 2` (and what `warm` may load is no
more), two cached codes make two associations, which exceed a room for one, two
ids share a code, and two tasks are what each race needs. A migration renumbers
rows, so two memories and three rowids give a copy that swaps, closes a gap or
moves. A key is tried against a right and a wrong passphrase and against a first
and a second salt; two openers give the one that finds what the other left, and
the one that has the vault open.

`MaxMetric`, `MaxTime`, `MaxRowid`, `MaxLinks`, `MaxDay` and `MaxEvents` are the only
bounds on counters.  The theorems of section 5 do not depend on the sizes.

Deadlock is checked in every run.  A vault can always be opened or closed, a
task may always begin a call and the sync loop always goes round, so this is
meaningful only for the cache's locks, and `CallsReturn` is the stronger
statement about those.

Each passing property has a mutant of the code it is about (`mutants` in
`PROJECT.json`; their operators stand before the original and are marked
"Mutant") under which TLC finds it violated.

### Fairness

Two runs assume any.  `sync`: the loop goes on (`WF` of `Loop`), and an exchange
that is possible again and again succeeds in the end (`SF` of the two answers and
of the two calls that record them): the daemon is a timer that keeps cycling,
and a network that loses every request for ever is not one it can sync over.  Users
and peers need not do anything.  `qem`: a task in the middle of a call runs on
(`WF` of `Working`), and one that waits for a lock gets it if it is free again and
again (`SF` of `Waiting`), since `parking_lot` hands its locks over fairly.  No task
is obliged to begin a call.

## 4. Findings

1. `vault_purge_race`: `store.rs:1754` promises a tombstone for "every purged
   memory"; ids are selected before the transaction, rows deleted by WHERE
   clause inside it, so a memory committed in between goes without tombstone and
   leaves its index entry.
2. `sync_reopen`: `store.rs:1430` says that nothing strands an unpushed row, since
   its cursor advances only when the server accepts it; the v6 block of `migrate`
   (`schema.rs:508`) runs on every open and sets the cursor of rows that were never
   pushed.
3. `recall_related`: `store.rs:1908` says that quarantined memories never surface as
   related; only the vector fallback filters, the linked targets are fetched by
   id.
4. `migrate_crash`: `schema.rs:527` says that a crash in the v7 recreation is
   repaired by the next open; the blocks before it have already stamped the newest
   version, so the next open skips v7 and the old CHECK on `source` stays.

Observations that no run stands for; each was read off the code while it was
modelled.

*Writes and the index.*  `store.rs:593` promises an index "kept in sync"; the old
entry is deleted in a statement of its own before the transaction
(`store.rs:719`), so a write that fails afterwards leaves a live memory unsearchable
until its next write.  `IndexComplete` names exactly these memories
(`interrupted`).  A purge that another connection's edit gets ahead of does worse:
it removes the index entries and writes the tombstones of the ids it selected, but
deletes what its WHERE clause matches by then (`store.rs:1751`), so a memory edited out
of the criteria stays, unsearchable, and with a tombstone by which replicas delete
it.  In the instance of `vault_purge_race` TLC shows this as a violation of
`IndexComplete`.

*Sync.*  An engram built from a `MemoryEntry` carries its `created_at` as
`modified_at` (`entry.rs:469`), though `engram.rs:188` says that every local write bumps
it: written over a memory that is already synced, it is not pushed.  A link cut
between `link`'s two statements never propagates.  `store_embedding` and promotion
do not bump `modified_at`.  While a tombstone is pending, its id may be created
again: if what was re-created is pushed before the tombstone is, the relay then
deletes it while `list_unsynced` passes it over (`buried`; `NothingStranded` and
`OnlyKnownStrand` show that this is the only such case), and a second deletion fails on
the tombstone's primary key, as does a purge or consolidation that includes it; a
vault without sync never clears tombstones.  A pulled link whose target is not
stored yet is dropped; the comment at `store.rs:777` says that the reverse blob
carries it, but `link` stores one direction.

*Quarantine.*  The LIKE fallback (`store.rs:1336`) drops the filter that
`store.rs:1263` says it honors (`SearchLike`; with searches among the calls of
`recall_related` it violates `LiveSurface` too).  `vector_search`, `surface_relevant`, `find_stale_state` and
`MemoryBackend::search` have no filter at all, where `FORMAT.md:110` speaks of the
default recall surface.  A quarantined capture with a vector gets links from its
live neighbours, against the comment at `store.rs:942`.

*Links.*  An edit generates heuristic links like a capture, so its "temporal
predecessor" may be newer than itself.  A semantic link or the backfill replaces a
given link of the same pair, kind and weight (`GivenLinksKept` allows it for pairs
with vectors only).

*Lifecycle.*  A caller that writes back what `get` returned undoes its own touch:
the copy was taken before it.  Consolidation prunes a faint memory on the day it
was read if hygiene has not run since, and prunes imagined memories that are
grounded.  Decay is applied to the present strength with all the days since the
last access, every day again.  The access cursor loses events behind a full
answer, which comes newest first.  With two connections it also loses events
without: an event's time is taken before SQLite's write lock (`store.rs:1818`,
`store.rs:1834`), so it may be committed behind a later one that an integrator has
already been given.  With two `Conns` TLC shows this as a violation of
`CursorSkipsNothing`; `store.rs:1846` calls it the cursor of "which memories did my
agent touch since X".  It compares timestamps for inequality, so
two calls within the clock's resolution, or a clock set back, would cost it events
even on one connection; here no two timestamps are equal, by assumption.

*Searches.*  `EngramStore::search` sorts `RetrievalCount` ascending (`store.rs:2703`; the
adapter descending) and cuts at the limit before it drops what is too weak (the
adapter after).  `search_by_tags` with no tags builds an invalid query.  `FORMAT.md:95`
calls `tags` comma-separated; they are JSON.

*Cache.*  `qem.rs:410` says that eviction cleans up the associations of the memory; it
finds them through the codes the memory still owns, and another memory with the
same code may have taken its entry, so an association that led to the first one
stays.  A deletion between `capture`'s L2 write and its L1 insertion
(`qem.rs:439`), or a consolidation, leaves ids that L2 no longer holds; retrieval
reads L2, so only `is_cached` and the hit rate are off.  `capture` evicts at the limit
even when the code is cached already.  Its associative lookup (`qem.rs:353`, `qem.rs:502`)
compares subject XOR relation, so associations of different pairs may answer for
each other.

*Several processes.*  `migrate` reads the version once, outside its transactions:
while one process is between its first stamp and its table swap, another reads
the new version, skips the swap, opens the vault and stores; the first process's
swap then copies by the columns it knows and drops what the other one stored in a
later one.  With `Exclusive = FALSE` TLC shows this as a violation of
`MemoriesPreserved`.  Likewise two first opens with passphrases of one directory:
one finds the salt file the other has created and not yet filled, derives from
the fixed salt and encrypts the database with that key; once the file is filled
no open derives it again.  With `Exclusive = FALSE` TLC shows it as a violation of
`OwnersReopen`.  WAL mode is switched on for a second connection, but no document
speaks of two opens at the same time, so neither is listed as a finding.

*Opening.*  A crash between v1 and v2 leaves the old triggers beside the manual
index, since the next open skips v2 and v3 as well; a new memory then gets its
index entry twice and the second one is refused.  `Store` has `triggers = {}` as its
guard.  The comment at `store.rs:370` says that the last-resort machine id is the
database path; the code returns a constant.

## 5. What is proved

| Theorem | Statement |
|---|---|
| `EngramVaultProofs!TypeCorrect` | `Spec => []TypeOK` |
| `EngramVaultProofs!References` | `Spec => []ReferencesLive` |
| `EngramVaultProofs!NoGhosts`, `Searchable`, `CaptureFits`, `Announced` | `IndexSound`, `IndexComplete`, `NewRowFits`, `DeletionsAnnounced`, assuming `NoPurgeRace` |
| `EngramVaultProofs!Dedupe` | `DedupeHolds`, assuming `OneConnection` |
| `EngramVaultProofs!RowidsAreKeys` | no two memories share a rowid, racing purges included |
| `EngramVaultProofs!MirrorKept` | `IndexMirrors /\ interrupted = {}`, assuming `NoPurgeRace` and `NothingFails` |
| `EngramVaultProofs!WritesFit` | `WritesAdmitted`, assuming `OneConnection` and no ignored cleanup error |
| `EngramVaultRefinement!Refinement` | `Spec => ImplementsMemoryVault`, assuming `NoPurgeRace` |
| `VaultSyncProofs!TypeCorrect`, `OnlyKnown`, `Deletions` | `TypeOK`, `OnlyKnownStrand`, `DeletionsKept` |
| `VaultSyncProofs!Unfaulted` | `NothingStranded`, where answers may be lost but nothing else fails |
| `VaultSyncProofs!Refinement` | `Spec => DeviceIsMemoryVault` |
| `MemoryRecallProofs!TypeCorrect`, `GivenLinks`, `Related` | `TypeOK`, `GivenLinksKept`, `RelatedCurrent` |
| `MemoryRecallProofs!Pages`, `WholeListing` | `PagesAddUp`, `QuietListing` |
| `MemoryLifecycleProofs!TypeCorrect`, `Retrievals`, `Pruning` | `TypeOK`, `RetrievalsBacked`, `PrunedWereNeglected` |
| `MemoryLifecycleProofs!Digest` | `DigestPartitions` |
| `MemoryLifecycleProofs!Cursor` | `CursorSkipsNothing`, assuming `OneConnection` |
| `SchemaMigrationProofs!TypeCorrect`, `IndexKept` | `TypeOK`, `IndexFollowsRows`, for any number of openers at once |
| `SchemaMigrationProofs!OneRowEach`, `LinkEnds`, `LinksSurvive` | rowids are a key, `LinksHaveEnds`, `LinksKept`, for any number of openers at once |
| `SchemaMigrationProofs!OnlyCutsLie` | `VersionHonest`, in behaviours without `Abandon`, for any number of openers at once |
| `SchemaMigrationProofs!SecondOpen` | opening a vault in use fills missing cursors and changes nothing else, assuming `Exclusive` |
| `SchemaMigrationProofs!Complete`, `NothingLost` | `OpenIsComplete`, `MemoriesPreserved`, assuming `Exclusive` |
| `VaultOpenProofs!TypeCorrect`, `StaysKeyed`, `MachineKept` | `TypeOK`, `OpenIsKeyed`, `MachineKeyKept`, for any number of openers at once |
| `VaultOpenProofs!Reopens` | `OwnersReopen`, assuming `Exclusive` |
| `QemCacheProofs!TypeCorrect`, `Backed`, `Limits` | `TypeOK`, `AssociationsBacked`, `WithinLimits` |
| `QemCacheProofs!NoDeadlock` | `ShortWaits /\ SomeoneRuns` |

Assumptions.  The named ASSUMEs of the modules: null values are outside their
sets, bounds are natural numbers, the cache's limits and the clock's range in
`MemoryRecall` are positive, and the cache's sets and the ids that are listed are
finite.  `NoPurgeRace` says that purge is not called, or that the vault is open
on one connection only; `vault_purge_race`, and `IndexComplete` in its instance,
show that the theorems fail without it.  `NothingFails` allows only the failure of the index cleanup that the code
ignores.  `OneConnection` is what the dedupe check needs (two connections may both
find no twin and both store), and what the access cursor needs (section 4).  `Exclusive` says that one process at a time migrates, or
opens; section 4 describes what happens without it.

The vault's argument.  `TypeOK` is not inductive: that a call about to commit
holds a complete engram is a fact of its own (`ArgsGiven`), and both are proved
together as `Typed`.  `ReferencesLive` then follows from the cascade in `DeleteRows`
and the guards of the inserting actions.  `IndexSound` needs that purge deletes
exactly what it collected; `PurgeFresh` states it (between `PurgeSelect` and
`PurgeCommit` what the WHERE clause matches is what was collected), and holds where
no other connection can write.  With it every removal is clean: rows, links, vectors
and index entries of the same ids go, other rows change their kind at most (`Removes`,
`CleanRemoval`).  Hence `IndexComplete`: the only step that drops an index entry of a
row that stays is `DeleteFts`, whose call is then at `"insert"`, and every step that
leaves `"insert"` either commits or records the id in `interrupted`.  `NewRowFits` is a consequence of `IndexSound`: `NextRowid` is above
every rowid in use, and all entries sit at rowids in use.

Rowids and index.  A commit keeps the rowid of its row or takes one above all in
use, so `RowidsApart` is inductive by itself.  With `IndexSound` it follows that an
entry at a live memory's rowid is that memory's own (`TakenByItself`): a write that
FTS5 refuses leaves its memory indexed, no matter which connection's entry stood
in its way, and `interrupted` stays empty unless a crash or an error ends a write.
Hence `IndexMirrors`: with no write under way the index is exactly the table.
`WritesFit` adds that on one connection nothing comes between `DeleteFts` and
`CommitWrite` (`Cleaned`), so no write is refused; with two connections one may be,
when both clean up before both commit.

The step lemmas group the actions of `Next` by effect (those that leave the tables alone, the commit,
the deletions), so each invariant has one case per group.

The refinement maps `memories` to the rows without rowids and `announced` to the
tombstones.  Each step is one abstract step (`CommitWrite` is `Store`, the
deletions are `Remove` or `ApplyRemote`, `Open` and the cursor calls are
`MoveCursors`, ...) or a stutter.

The argument for sync.  With the types goes that every stamp in a row, a batch or
the inbox lies in the past (`Past`), so the next tick is newer than all of them,
and that only a stored memory waits for its bump (`LinkingLive`).  `DeletionsKept` needs
`Queued`: what the loop is about to clear is not owed any more.  `OnlyKnownStrand`
needs `Safe(i)` of each row: if it is not due, neither excused nor buried, not between
the two statements of a link and not overwritten by another device, the relay holds
its version.  To keep that through `MarkSynced`, the invariant follows the blob: a row
no newer than its blob in the batch is the row that was pushed, a blob about to be
marked is what the relay holds unless another device has written since, and a blob
in the inbox is what it holds.  The relay gives up a version for a deletion only
where that buries it or the row is due again.  The refinement is again one abstract
step or a stutter per action.

`Unfaulted` follows from `OnlyKnownStrand`: only a cut, a reopened vault or a
backdated write puts an id into `excused`.  The run `sync_reopen` shows that the
reopening is a real exception.

The argument for recall.  `RelatedCurrent` is a fact about one step, from the types
and from what a caller carries to it (no more targets than the limit).  `GivenLinksKept` follows a write through its stages: the
semantic links go to memories with vectors only, and the heuristics fill gaps
only.  `PagesAddUp` needs an invariant on listings under way (`AddUp`): with `Place` the
number of listed memories in front of one, what slipped past the offset unseen is
no more than what left the listing, and what was repeated or will be is no more
than what entered it.  A memory that leaves moves those behind it up by one, one
that enters moves them down (one that an edit dates anew does both), so each moves at most one
other across the offset,
as creation dates are distinct (`Dated`) and so are places; a page shows just the
memories whose places are in it, and a short page is the last because places are
`0..n - 1`.  `QuietListing` is the
case of a listing that nothing left and nothing entered.

The argument for the lifecycle.  `Backed`: no row and no copy claims more
retrievals than its id was read, because `Get` takes its copy before it counts.
`Earned`: a row at level 0 was neglected or undone, and while it is neither, its
last use is in the column hygiene looks at; `Stronger` never yields 0.  `Passed`:
one connection inserts each event before it takes the next timestamp, so timestamps
follow event numbers, what lies up to the cursor is a prefix of the ledger, and an
answer that is not full (`ShortAnswer`) holds every event after it.  The digest's
slices are disjoint and cover the live rows, hence their cardinalities add up.

The migration's argument.  What an open vault must have is built up block by
block, so the invariant follows the opener: `Progress(o)` says, for each value of
`pc[o]`, which columns and backfilled values are there already and that `version`
is at the newest from the second block on; `VersionTells` says what a version
below 3 or 7 implies about the rows (no cursor and no stamp, no agent), which is
why the copies of v3 and v7 lose nothing although they drop columns; `OpenComplete`
carries completeness through use and later opens; `Alone` is what `Exclusive`
gives.  `IndexFollowsRows` needs no more than types: every block that touches
rowids or triggers rebuilds the index in its own transaction.  The table swaps
number the live rows onto `1..n`, and a map of n rows onto n numbers gives no
number twice (`OneRowEach`).  A connection enforces foreign keys from its opening on,
except between `ForeignKeysOff` and `ForeignKeysBack` (`KeysGuard`): so the drop in a
swap takes no link (`LinksSurvive`), and every deletion of an open vault takes those of
its row (`LinkEnds`).  `OnlyCutsLie` says why `migrate_crash` needs its crash: if
the version is at 7 or above and the table's CHECK is older, some opener read a
version below 7 and has v7 ahead of it (`HonestInv`); every block that stamps runs
under an opener of which that is so, or after one for which it is done.
`SecondOpen` takes from the invariant that a vault in use is whole and that its other
openers have read the newest version, so the blocks that still run find nothing
to fill in but cursors; `EngramVault` models opening by just that (`Open`).

The argument for opening.  `Keyed` (what an opener holds when it is about to rekey
is a legacy key, what it holds from `"finish"` on is a current one) makes a file under a
current key immune to rekeying, from which `OpenIsKeyed` and `MachineKeyKept`
follow for any number of openers.  `OwnersReopen` holds only between opens; its
invariant follows the opener's path: while it settles the salt file, the database
is absent, empty, or under the legacy passphrase key, which does not depend on the
salt (`Path`), so the file can still change; and the key a connection is moved to is
derived after that, hence one that the same credential will try again.

The cache's argument.  The invariant is `TypeOK` with three parts: who holds which
lock follows from the `pc`s (`LocksOK`), a call that associates holds the read lock
and both its codes are cached (`ArgsOK`), and only
a task in `"inserting"` or `"cleaning"` remembers evicted codes (`StaleOK`).  Mutual exclusion
of the reader and the writer is what keeps `ArgsOK`.  `Limits` adds that at
`"inserting"` there is room for one more entry (`RoomInv`).  `NoDeadlock` is the state
property behind `CallsReturn`: `WaitsFor(t, u)` says that `u` holds a lock `t` waits for;
only the holder of novelty waits and is waited for, so there is no ring, and while
calls run one of them waits for nobody.

Only model-checked: liveness (`CallsReturn`, `QueuesDrain`; temporal reasoning under
fairness and ENABLED are beyond the prover), that the mutants fail, and the four
violations of section 4.  Every other property a run checks is stated by a
theorem.

## 6. What is not modelled

- *Pure data.*  The noise filter, `normalized_hash`, `normalize_tags`, `QemCode` and
  `QemEncoder`: their verdict or result is a choice or a model value wherever the code
  branches on it.  Ranking, scores and similarity are floating-point data; what
  they select is a choice.  Serde and type conversions, except the one a property
  depends on (`modified_at` of an engram built from a `MemoryEntry`).
- *The novelty filter.*  Its ring of codes feeds a number that nothing else reads.  Two
  configurations make the cache panic and are excluded by its assumption: a
  novelty window of 0 (`qem.rs:135`) and `max_associations = 0` (`qem.rs:542`).
- *Counters and side tables* that no other behaviour depends on: the cache's hit
  counters, coherence state, consolidation history, temporal patterns.
- *The embedder.*  Model loading and numeric code behind a feature; whether a memory
  has a vector is a choice.
- *Outside the repository.*  The relay, the sync daemon and other devices appear as
  far as the store depends on them; encryption, HMAC, revoked devices and
  `SyncHealth` do not.  The order of pulls across two devices is not modelled.
- *The cache's associative lookup.*  It only reads; section 4 says what its key
  leaves open.
- *Machine identity.*  The machine id is fixed; what becomes of a vault whose machine
  id changes is outside `VaultOpen`.
- *wasm bindings and the crate root.*  Thin wrappers without state.
